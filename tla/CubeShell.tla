----------------------------- MODULE CubeShell ------------------------------
(***************************************************************************)
(* One interactive shell of a lambda: lambda_shell of                      *)
(* server/modules/cube.py.  A reader thread takes chunks of output off the *)
(* container's socket and hands each to the event loop with a put on a     *)
(* bounded asyncio.Queue, waiting at most 30 seconds for it; the pump task *)
(* sends what is queued; the main loop reads the client's input.           *)
(*                                                                         *)
(* Chunks are numbered 1, 2, ... in the order the shell prints them; Eof   *)
(* is the empty chunk the reader puts last.  The state is the record sh:   *)
(*   avail, exited   chunks printed so far; has the shell ended?           *)
(*   reader, read    "recv", "handoff" or "done"; chunks it has read       *)
(*   sched           puts scheduled on the loop and not started, in order  *)
(*   outq, waiting   out_q, and the puts that wait for room in it          *)
(*   pump, item      "get", "send" or "done"; the chunk it took last       *)
(*   main, conn      "recv", "input" or "closed"; is the client there?     *)
(*   sent            history: the chunks sent to the client                *)
(*   gaveUp, broke   history: did a hand-off time out, did recv raise?     *)
(***************************************************************************)
EXTENDS Naturals, Sequences

CONSTANTS Cap,        \* out_q's maxsize (256 in the source)
          MaxChunks   \* bound: chunks printed in a session

ASSUME ShellAssumption == Cap \in Nat \ {0} /\ MaxChunks \in Nat

VARIABLE sh

Eof == 0
Items == 0..MaxChunks
Elems(q) == {q[i] : i \in DOMAIN q}

ShellTypeOK ==
    /\ sh \in [avail : 0..MaxChunks, exited : BOOLEAN,
               reader : {"recv", "handoff", "done"}, read : 0..MaxChunks,
               sched : Seq(Items), outq : Seq(Items), waiting : Seq(Items),
               pump : {"get", "send", "done"}, item : Items,
               main : {"recv", "input", "closed"}, conn : BOOLEAN,
               sent : Seq(Items), gaveUp : BOOLEAN, broke : BOOLEAN]
    /\ sh.read <= sh.avail
    /\ Len(sh.outq) <= Cap
    /\ Len(sh.sched) + Len(sh.waiting) <= 2   \* a chunk whose hand-off timed out, and Eof

\* The session once the container is attached and the tasks are started.
ShellInit ==
    sh = [avail |-> 0, exited |-> FALSE, reader |-> "recv", read |-> 0,
          sched |-> <<>>, outq |-> <<>>, waiting |-> <<>>,
          pump |-> "get", item |-> Eof, main |-> "recv", conn |-> TRUE,
          sent |-> <<>>, gaveUp |-> FALSE, broke |-> FALSE]

-----------------------------------------------------------------------------
(* The container *)

ShellPrints == /\ ~sh.exited /\ sh.avail < MaxChunks
               /\ sh' = [sh EXCEPT !.avail = @ + 1]

ShellExits == ~sh.exited /\ sh' = [sh EXCEPT !.exited = TRUE]

-----------------------------------------------------------------------------
(* The reader thread *)

\* A faulty reader that does not wait for the put.
ReadsOn == "recv"
\* After run_coroutine_threadsafe the reader waits in fut.result.
AfterSchedule == "handoff"

ReaderRecv ==
    /\ sh.reader = "recv" /\ sh.read < sh.avail
    /\ sh' = [sh EXCEPT !.read = @ + 1, !.sched = Append(@, sh.read + 1), !.reader = AfterSchedule]

\* recv returns nothing: the thread ends with a put of Eof.
ReaderEof ==
    /\ sh.reader = "recv" /\ sh.exited /\ sh.read = sh.avail
    /\ sh' = [sh EXCEPT !.reader = "done", !.sched = Append(@, Eof)]

\* recv raises, with the shell there and output to come, too: the connection to
\* docker fails, or the main loop has closed the socket (if recv notices that).
ReaderRaises ==
    /\ sh.reader = "recv"
    /\ sh' = [sh EXCEPT !.reader = "done", !.sched = Append(@, Eof), !.broke = TRUE]

InHandoff == sh.read \in Elems(sh.sched) \cup Elems(sh.waiting)

HandoffDone ==
    /\ sh.reader = "handoff" /\ ~InHandoff
    /\ sh' = [sh EXCEPT !.reader = "recv"]

\* A faulty hand-off that waits for ever.
HandoffNeverTimesOut == FALSE /\ sh' = sh

\* fut.result(timeout=30): the put is not cancelled; Eof is put behind it.
HandoffTimesOut ==
    /\ sh.reader = "handoff" /\ InHandoff
    /\ sh' = [sh EXCEPT !.reader = "done", !.sched = Append(@, Eof), !.gaveUp = TRUE]

-----------------------------------------------------------------------------
(* The event loop: puts, pump and main loop *)

\* A put that starts while there is room does not queue behind puts that were
\* woken and have not run yet.
PutStarts ==
    /\ sh.sched # <<>>
    /\ sh' = IF Len(sh.outq) < Cap
               THEN [sh EXCEPT !.sched = Tail(@), !.outq = Append(@, Head(sh.sched))]
               ELSE [sh EXCEPT !.sched = Tail(@), !.waiting = Append(@, Head(sh.sched))]

PutWakes ==
    /\ sh.waiting # <<>> /\ Len(sh.outq) < Cap
    /\ sh' = [sh EXCEPT !.waiting = Tail(@), !.outq = Append(@, Head(sh.waiting))]

PumpGet ==
    /\ sh.pump = "get" /\ sh.outq # <<>>
    /\ sh' = [sh EXCEPT !.outq = Tail(@), !.item = Head(sh.outq),
                        !.pump = IF Head(sh.outq) = Eof THEN "done" ELSE "send"]

\* send_bytes returns when a client reads, and raises when it has gone.
PumpSent ==
    /\ sh.pump = "send" /\ sh.conn
    /\ sh' = [sh EXCEPT !.sent = Append(@, sh.item), !.pump = "get"]

PumpFails ==
    /\ sh.pump = "send" /\ ~sh.conn
    /\ sh' = [sh EXCEPT !.pump = "done"]

\* Input is written by an executor thread; a terminal size is set at once and
\* changes nothing here.
InputStarts ==
    /\ sh.main = "recv" /\ sh.conn
    /\ sh' = [sh EXCEPT !.main = "input"]

InputDone ==
    /\ sh.main = "input"
    /\ sh' = [sh EXCEPT !.main = "recv"]

\* The end of the main loop: the pump is cancelled, the socket and the websocket
\* are closed.  That the output has ended is no reason for it.
Closes == sh' = [sh EXCEPT !.main = "closed", !.pump = "done", !.conn = FALSE]

\* The client has gone.
MainEnds == sh.main = "recv" /\ ~sh.conn /\ Closes

\* sendall raises: the shell has ended, or the connection to docker fails.
InputFails == sh.main = "input" /\ Closes

ClientGoes ==
    /\ sh.conn
    /\ sh' = [sh EXCEPT !.conn = FALSE]

-----------------------------------------------------------------------------
ShellNext ==
    \/ ShellPrints \/ ShellExits
    \/ ReaderRecv \/ ReaderEof \/ ReaderRaises \/ HandoffDone \/ HandoffTimesOut
    \/ PutStarts \/ PutWakes \/ PumpGet \/ PumpSent \/ PumpFails
    \/ InputStarts \/ InputDone \/ MainEnds \/ InputFails \/ ClientGoes

\* The thread goes on: it reads what is there, sees the end of the output, and
\* waits no longer than 30 seconds for a hand-off.  That it notices a socket
\* closed under it is not assumed, nor that the client reads or ever goes.
ReaderGoesOn == ReaderRecv \/ ReaderEof \/ HandoffDone \/ HandoffTimesOut

\* The event loop starts the puts, runs those it has woken, and the tasks.
LoopStep == PutStarts \/ PutWakes \/ PumpGet \/ PumpFails

\* The main loop sees that its client has gone, and input is not written for ever
\* to a shell that has ended.
MainGoesOn == MainEnds \/ (sh.exited /\ InputFails)

-----------------------------------------------------------------------------
(* Properties *)

\* What was sent, what the pump holds, what is queued and what waits to be.
Held == IF sh.pump = "send" THEN <<sh.item>> ELSE <<>>
Line == sh.sent \o Held \o sh.outq \o sh.waiting \o sh.sched

\* But for Eof, which may be anywhere in it, a sequence rises.
Rising(q) == \A i, j \in DOMAIN q : i < j /\ q[i] # Eof /\ q[j] # Eof => q[i] < q[j]

\* Output is neither lost, repeated nor reordered on its way: for as long as the
\* pump runs, the line from the client back to the reader is the chunks read so
\* far; and what was sent is always a beginning of the output.
OutputInOrder ==
    /\ \A i \in DOMAIN sh.sent : sh.sent[i] = i
    /\ sh.pump # "done" => Rising(Line) /\ Elems(Line) \ {Eof} = 1..sh.read

\* The pump ends at Eof only after it sent all that was read, also when a read
\* has failed, unless a hand-off timed out; if no read has failed that is all there
\* was, and the shell has ended.
AllBeforeEof ==
    sh.pump = "done" /\ sh.main # "closed" /\ sh.conn /\ ~sh.gaveUp
      => /\ Len(sh.sent) = sh.read
         /\ sh.broke \/ (sh.exited /\ sh.read = sh.avail)

\* When the shell ends, its reader thread ends, also while the client reads
\* nothing and the queue is full: a session does not leave a thread behind.
ReaderEnds == sh.exited ~> (sh.reader = "done")

\* Once the client has gone and the shell has ended, the session is closed and
\* its tasks end.  (A client that goes while its input is being written is
\* noticed only when the shell takes the input or ends.)
ShellSessionEnds == (~sh.conn /\ sh.exited) ~> (sh.main = "closed")

=============================================================================
