------------------------------- MODULE Events -------------------------------
(***************************************************************************)
(* The per-user event queue of server/modules/events.py: an unbounded      *)
(* asyncio.Queue, here a sequence.  A get on a non-empty asyncio.Queue and *)
(* a put on an unbounded one do not suspend the caller, so each operation  *)
(* below is one atomic step; waiting for an event is the guard of the      *)
(* action that uses the operation.                                         *)
(***************************************************************************)
EXTENDS Naturals, Sequences

\* addEvent: put at the tail.
Put(q, e) == Append(q, e)

\* A queue whose waiter does not put the event back.
RotateForgets(q) == Tail(q)

\* waitEvent(removeEventfromQueue=False): the head is taken and put back, at
\* the tail.
Rotate(q) == Append(Tail(q), Head(q))

\* popEvent: whatever is at the head leaves; an empty queue is left alone.
Pop(q) == IF q = <<>> THEN q ELSE Tail(q)

\* The size of the next batch.
BatchLen(q, max) == IF Len(q) < max THEN Len(q) ELSE max

\* A batch whose last event stays in the queue as well; a batch taken from the tail.
AfterBatchKeeps(q, max) == SubSeq(q, BatchLen(q, max), Len(q))
AfterBatchTail(q, max) == SubSeq(q, 1, Len(q) - BatchLen(q, max))

\* getEventsBatch: from 1 to max events, the oldest first.
Batch(q, max) == SubSeq(q, 1, BatchLen(q, max))
AfterBatch(q, max) == SubSeq(q, BatchLen(q, max) + 1, Len(q))

=============================================================================
