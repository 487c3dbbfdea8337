------------------------------ MODULE Webshell ------------------------------
(***************************************************************************)
(* One session of the administrator's terminal:                            *)
(* server/modules/extend/webshell.py.  On Unix the shell has a             *)
(* pseudo-terminal, which one task polls and the main loop writes to       *)
(* without blocking.  On Windows it has a ConPTY or, failing that, pipes   *)
(* with a task for each of stdout and stderr; reads and writes are done by *)
(* threads of the loop's executor.                                         *)
(*                                                                         *)
(* The chunks of a stream are numbered in the order the shell prints them. *)
(* A message of keystrokes has two pieces, so that a write can be cut in   *)
(* two; message i is the i-th the client typed.  The state is a record:    *)
(*   kind            "pty", "conpty" or "pipes"                            *)
(*   alive           does the shell run?                                   *)
(*   printed, read   per stream, chunks printed and taken off it           *)
(*   reader          per stream, its task: it reads, sends, is done, or    *)
(*                   was cancelled and left a thread in its read           *)
(*   sent, broke     per stream, history: chunks sent to the client, and   *)
(*                   whether a read failed                                 *)
(*   typed           history: what kind of message each was                *)
(*   inbox           messages, by number, the main loop has not received   *)
(*   tty, got        pieces in the shell's input, and those it has read    *)
(*   main, item      the main loop, and the message it writes              *)
(*   conn, open      is the client there, is the terminal's descriptor?    *)
(***************************************************************************)
EXTENDS Naturals, Sequences

CONSTANTS Room,       \* pieces the shell's input holds
          MaxPrints,  \* bound: chunks printed on a stream
          MaxTyped    \* bound: messages of a client

ASSUME WebshellAssumption == Room \in Nat \ (0..1) /\ MaxPrints \in Nat /\ MaxTyped \in Nat

VARIABLE ws

Kinds == {"pty", "conpty", "pipes"}
Streams == 1..2
Used(kind) == IF kind = "pipes" THEN Streams ELSE {1}

(* "keys" are any but those of the other kinds: "eot" begins with Ctrl-D,     *)
(* "escape" with ESC [ (a terminal's size, but also an arrow key or a         *)
(* bracketed paste), and "huge" is a size whose numbers do not fit 16 bits.   *)
Typeable == {"keys", "eot", "escape", "huge"}

Pieces == (1..MaxTyped) \X (1..2)
PiecesOf(m) == <<<<m, 1>>, <<m, 2>>>>

WebTypeOK ==
    /\ ws \in [kind : Kinds, alive : BOOLEAN,
               printed : [Streams -> 0..MaxPrints], read : [Streams -> 0..MaxPrints],
               reader : [Streams -> {"read", "send", "cancelled", "done"}],
               sent : [Streams -> Seq(1..MaxPrints)], broke : [Streams -> BOOLEAN],
               typed : Seq(Typeable), inbox : Seq(1..MaxTyped),
               tty : Seq(Pieces), got : Seq(Pieces),
               main : {"spawn", "recv", "write", "closed", "failed"}, item : 0..MaxTyped,
               conn : BOOLEAN, open : BOOLEAN]
    /\ \A k \in Streams : ws.read[k] <= ws.printed[k]
    /\ Len(ws.typed) <= MaxTyped /\ Len(ws.tty) <= Room

\* The websocket is accepted; on Unix the terminal is open, the shell is yet to start.
WebInit ==
    \E kind \in Kinds :
      ws = [kind |-> kind, alive |-> FALSE,
            printed |-> [k \in Streams |-> 0], read |-> [k \in Streams |-> 0],
            reader |-> [k \in Streams |-> "done"], sent |-> [k \in Streams |-> <<>>],
            broke |-> [k \in Streams |-> FALSE],
            typed |-> <<>>, inbox |-> <<>>, tty |-> <<>>, got |-> <<>>,
            main |-> "spawn", item |-> 0, conn |-> TRUE, open |-> kind = "pty"]

-----------------------------------------------------------------------------
(* The client and the shell *)

Types(what) ==
    /\ ws.conn /\ Len(ws.typed) < MaxTyped
    /\ ws' = [ws EXCEPT !.typed = Append(@, what), !.inbox = Append(@, Len(ws.typed) + 1)]

ClientLeaves == ws.conn /\ ws' = [ws EXCEPT !.conn = FALSE]

Prints(k) ==
    /\ ws.alive /\ k \in Used(ws.kind) /\ ws.printed[k] < MaxPrints
    /\ ws' = [ws EXCEPT !.printed[k] = @ + 1]

ReadsInput ==
    /\ ws.alive /\ ws.tty # <<>>
    /\ ws' = [ws EXCEPT !.tty = Tail(@), !.got = Append(@, Head(ws.tty))]

\* By itself, because its terminal is closed, or because it is told to end.
Exits == ws.alive /\ ws' = [ws EXCEPT !.alive = FALSE]

\* Windows ends a process that is told to, whatever it does.
ToldToEnd == ws.main = "closed" /\ ws.kind # "pty" /\ Exits

-----------------------------------------------------------------------------
(* The start *)

Spawns ==
    /\ ws.main = "spawn"
    /\ ws' = [ws EXCEPT !.main = "recv", !.alive = TRUE,
                        !.reader = [k \in Streams |-> IF k \in Used(ws.kind) THEN "read" ELSE "done"]]

\* The handler ends with an answer of 1011, on Unix without a close of the terminal.
SpawnFails ==
    /\ ws.main = "spawn"
    /\ ws' = [ws EXCEPT !.main = "failed", !.conn = FALSE]

-----------------------------------------------------------------------------
(* read_pty, read_output and read_stderr *)

Drained(k) == ~ws.alive /\ ws.read[k] = ws.printed[k]

Takes(k) ==
    /\ ws.reader[k] = "read" /\ ws.read[k] < ws.printed[k]
    /\ ws' = [ws EXCEPT !.read[k] = @ + 1, !.reader[k] = "send"]

\* send_bytes returns when a client reads.
Sends(k) ==
    /\ ws.reader[k] = "send" /\ ws.conn
    /\ ws' = [ws EXCEPT !.sent[k] = Append(@, ws.read[k]), !.reader[k] = "read"]

\* It raises when the client has gone, or what it sends is dropped.
SendFails(k) ==
    /\ ws.reader[k] = "send" /\ ~ws.conn
    /\ \E next \in {"read", "done"} : ws' = [ws EXCEPT !.reader[k] = next]

\* A faulty reader that ends when its shell does.
EndsWithShell(k) ==
    /\ ws.reader[k] = "read" /\ ~ws.alive
    /\ ws' = [ws EXCEPT !.reader[k] = "done"]

\* A read returns nothing after the last output.  A pseudo-terminal may raise
\* EIO for ever instead, and read_pty passes over that.
ReadsEnd(k) ==
    /\ ws.reader[k] = "read" /\ Drained(k)
    /\ ws' = [ws EXCEPT !.reader[k] = "done"]

\* On Windows a read that raises ends the task, with the shell there and output to
\* come, too; read_pty passes over that as well.
ReadFails(k) ==
    /\ ws.reader[k] = "read" /\ ws.kind # "pty"
    /\ ws' = [ws EXCEPT !.reader[k] = "done", !.broke[k] = TRUE]

\* The thread of a cancelled read goes on until the read returns: a ConPTY's may
\* return with nothing, or any may fail.
ThreadReturns(k) ==
    /\ ws.reader[k] = "cancelled"
    /\ ws' = [ws EXCEPT !.reader[k] = "done"]

\* But it does return when there is something to read or nothing will ever be.
ReadOver(k) == Drained(k) \/ ws.read[k] < ws.printed[k]

-----------------------------------------------------------------------------
(* The main loop *)

\* A faulty end that leaves the tasks to themselves.
LeftReading(s) == [s EXCEPT !.main = "closed", !.conn = FALSE, !.open = FALSE, !.item = 0]

\* The `finally` of the handlers: the tasks are cancelled, the terminal and the
\* websocket closed.
Closed(s) ==
    [s EXCEPT !.main = "closed", !.conn = FALSE, !.open = FALSE, !.item = 0,
              !.reader = [k \in Streams |-> IF s.kind # "pty" /\ s.reader[k] = "read"
                                              THEN "cancelled" ELSE "done"]]

Received == [ws EXCEPT !.inbox = Tail(@)]
Arrives(what) == ws.main = "recv" /\ ws.inbox # <<>> /\ ws.typed[Head(ws.inbox)] = what

\* A faulty write that takes a full terminal for success.
WritesNowOrNever ==
    /\ ws.kind = "pty" /\ Arrives("keys")
    /\ LET n == IF Room - Len(ws.tty) < 2 THEN Room - Len(ws.tty) ELSE 2
       IN  ws' = [Received EXCEPT !.tty = @ \o SubSeq(PiecesOf(Head(ws.inbox)), 1, n)]

\* os.write on the non-blocking terminal: it writes what fits, and nobody looks
\* how much that was; when nothing fits it raises and the session ends.  A
\* terminal whose shell has gone may raise, too.
WritesNow ==
    /\ ws.kind = "pty" /\ Arrives("keys")
    /\ LET n == IF Room - Len(ws.tty) < 2 THEN Room - Len(ws.tty) ELSE 2
       IN  \/ /\ n > 0
              /\ ws' = [Received EXCEPT !.tty = @ \o SubSeq(PiecesOf(Head(ws.inbox)), 1, n)]
           \/ /\ n = 0 \/ ~ws.alive
              /\ ws' = Closed(Received)

\* Windows: a thread of the executor writes, and the main loop waits for it.
StartsWrite ==
    /\ ws.kind # "pty" /\ Arrives("keys")
    /\ ws' = [Received EXCEPT !.main = "write", !.item = Head(ws.inbox)]

EndsWrite ==
    /\ ws.main = "write" /\ Len(ws.tty) + 2 <= Room
    /\ ws' = [ws EXCEPT !.main = "recv", !.item = 0, !.tty = @ \o PiecesOf(ws.item)]

\* The shell has ended, or it has closed its input.
WriteFails == ws.main = "write" /\ ws' = Closed(ws)

\* A size is set, or what does not parse as one passed over: nothing reaches the shell.
Resizes ==
    /\ Arrives("escape") \/ (Arrives("huge") /\ ws.kind # "pty")
    /\ ws' = Received

\* struct.error is not among the exceptions the Unix handler expects of a size.
ResizeFails == ws.kind = "pty" /\ Arrives("huge") /\ ws' = Closed(Received)

EndsAtEot == Arrives("eot") /\ ws' = Closed(Received)

\* websocket.disconnect.  That its shell has ended is no reason to end.
SeesDisconnect ==
    /\ ws.main = "recv" /\ ws.inbox = <<>> /\ ~ws.conn
    /\ ws' = Closed(ws)

-----------------------------------------------------------------------------
\* What the loop gets done; a write to a shell that has ended does not go on for ever.
MainStep ==
    \/ Spawns \/ SpawnFails \/ WritesNow \/ StartsWrite \/ EndsWrite \/ (~ws.alive /\ WriteFails)
    \/ Resizes \/ ResizeFails \/ EndsAtEot \/ SeesDisconnect

ReaderStep(k) == Takes(k) \/ Sends(k) \/ SendFails(k) \/ ReadsEnd(k) \/ ReadFails(k) \/ ThreadReturns(k)

WebNext ==
    \/ \E what \in Typeable : Types(what)
    \/ ClientLeaves
    \/ \E k \in Streams : Prints(k) \/ ReaderStep(k)
    \/ ReadsInput \/ Exits \/ MainStep \/ WriteFails

-----------------------------------------------------------------------------
(* Properties *)

\* The client gets each stream's output from its beginning, in order and
\* without a gap: what a task holds comes next.
StreamsInOrder ==
    \A k \in Streams :
      /\ \A i \in DOMAIN ws.sent[k] : ws.sent[k][i] = i
      /\ ws.reader[k] = "read" /\ ws.conn => Len(ws.sent[k]) = ws.read[k]
      /\ ws.reader[k] = "send" => Len(ws.sent[k]) < ws.read[k]

\* A task that ends while its session goes on has sent all it has read; if no read
\* has failed that is all its stream had, and the shell has ended.
StreamSentBeforeEnd ==
    \A k \in Used(ws.kind) :
      ws.reader[k] = "done" /\ ws.main \in {"recv", "write"} /\ ws.conn
        => /\ Len(ws.sent[k]) = ws.read[k]
           /\ ws.broke[k] \/ (~ws.alive /\ ws.read[k] = ws.printed[k])

\* What the shell has read, what waits for it and what is being written.
Input == ws.got \o ws.tty \o IF ws.main = "write" THEN PiecesOf(ws.item) ELSE <<>>

Before(p, q) == p[1] < q[1] \/ (p[1] = q[1] /\ p[2] < q[2])

\* Keystrokes reach the shell once and in the order they were typed, and while
\* the session goes on none is left out: but for the ends of messages that were
\* cut at a full pseudo-terminal, and for what begins with ESC [.
InputKept ==
    /\ \A i, j \in DOMAIN Input : i < j => Before(Input[i], Input[j])
    /\ \A m \in DOMAIN ws.typed :
         ws.typed[m] = "keys" /\ (\A i \in DOMAIN ws.inbox : ws.inbox[i] # m)
           /\ ws.main \in {"recv", "write"}
         => /\ \E i \in DOMAIN Input : Input[i] = <<m, 1>>
            /\ ws.kind # "pty" => \E i \in DOMAIN Input : Input[i] = <<m, 2>>

Released ==
    /\ ws.main \in {"closed", "failed"}
    /\ \A k \in Streams : ws.reader[k] = "done"
    /\ ws.open => ws.main = "failed"

\* Once the client has gone the session ends, and a session that has ended leaves
\* no task, thread or descriptor behind (but for the terminal of a shell that
\* could not be started).  On Windows a session ends by itself only if its shell
\* does: a write waits until the shell reads.
WebEnds ==
    (~ws.conn /\ (ws.kind = "pty" \/ ws.main = "closed" \/ (~ws.alive /\ ws.main # "spawn")))
      ~> Released

=============================================================================
