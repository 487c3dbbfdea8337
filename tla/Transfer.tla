------------------------------ MODULE Transfer ------------------------------
(***************************************************************************)
(* What OConnect promises of a file transfer, whatever mailboxes, sockets  *)
(* and pages it goes through: it is queued once, offered at most once, and *)
(* settled at most once, as copied or as dropped.                          *)
(***************************************************************************)
CONSTANT Transfers

VARIABLE status

States == {"new", "queued", "offered", "copied", "dropped"}

Moves == {<<"new", "queued">>,
          <<"queued", "offered">>, <<"queued", "dropped">>,
          <<"offered", "copied">>, <<"offered", "dropped">>}

Init == status = [t \in Transfers |-> "new"]

\* Transfers that share a mailbox, a batch or a crash move together.
Next == \E to \in [Transfers -> States] :
          /\ \A t \in Transfers : to[t] = status[t] \/ <<status[t], to[t]>> \in Moves
          /\ status' = to

Spec == Init /\ [][Next]_status

=============================================================================
