----------------------------- MODULE Terminals ------------------------------
(***************************************************************************)
(* The two kinds of terminals the server has: the shell of a lambda        *)
(* (CubeShell) and the administrator's (Webshell).  Both promise the same  *)
(* of a session, and a session is of one kind.  Sessions share nothing, so *)
(* one is enough.                                                          *)
(***************************************************************************)
EXTENDS CubeShell, Webshell

VARIABLE of   \* whose terminal it is
vars == <<sh, ws, of>>

Init == of \in {"lambda", "admin"} /\ ShellInit /\ WebInit

OfLambda(A) == of = "lambda" /\ A /\ UNCHANGED <<ws, of>>
OfAdmin(A) == of = "admin" /\ A /\ UNCHANGED <<sh, of>>

Next == OfLambda(ShellNext) \/ OfAdmin(WebNext)

\* A lambda's session: see ReaderGoesOn, LoopStep and MainGoesOn.  The administrator's: the loop runs the handler, threads
\* return when their read does, and what is told to end does.  Nothing is assumed
\* of clients, nor of a shell in its session.
Fairness ==
    /\ WF_vars(OfLambda(ReaderGoesOn)) /\ WF_vars(OfLambda(LoopStep)) /\ WF_vars(OfLambda(MainGoesOn))
    /\ WF_vars(OfAdmin(MainStep)) /\ WF_vars(OfAdmin(ToldToEnd))
    /\ \A k \in Streams : WF_vars(OfAdmin(ReadOver(k) /\ ThreadReturns(k)))

Spec == Init /\ [][Next]_vars /\ Fairness

-----------------------------------------------------------------------------
(* Properties *)

\* Both sessions keep their types and bounds.
TypeOK == ShellTypeOK /\ WebTypeOK

\* Output reaches the client in order and without a gap, through the queue of
\* a lambda's shell or from the tasks of the administrator's.
OutputKept == OutputInOrder /\ StreamsInOrder

\* A client that is still there when its session's output ends has been sent all
\* that was read (but for hand-offs that timed out), and the output does not end
\* before its shell and all it printed, unless a read fails.
AllSentAtEnd == AllBeforeEof /\ StreamSentBeforeEnd

\* A session whose client has gone, and whose shell has ended, is over and
\* leaves nothing behind.
SessionsEnd == ShellSessionEnds /\ WebEnds

=============================================================================
