-------------------------------- MODULE Hook --------------------------------
(***************************************************************************)
(* Event delivery to external "hookers": server/modules/hook.py over the   *)
(* queues of server/modules/events.py.                                     *)
(*                                                                         *)
(* A user registers a hook and gets a code.  A hooker opens a websocket,   *)
(* authenticates with the code and selects a mode.  In SYNC mode the       *)
(* handler rotates the queue, sends the event and pops on confirmation; in *)
(* ASYNC mode three tasks share `pending_acks`: the main loop that sends   *)
(* batches, the listener that takes ACKs and injected events, and the      *)
(* cleanup that drops batches nobody acknowledged.                         *)
(*                                                                         *)
(* One action is the code between two awaits that may suspend.  The client *)
(* and the network are the environment: `wire` is what the server sent and *)
(* the client has not read, `inbox` what the client sent and the server    *)
(* has not read.  Events are numbered 1, 2, ... in the order they were     *)
(* added; added[e] is the user whose queue event e was put on.             *)
(***************************************************************************)
EXTENDS Events, FiniteSets

CONSTANTS Users, Codes, Sessions, NoUser, NoCode,
          Modes,         \* the modes hookers ask for: a subset of {"sync", "async"}
          MaxBatch,      \* getEventsBatch's max_batch (10 in the source)
          MaxEvents,     \* bound: events added in a behaviour
          MaxInbox,      \* bound: unread client messages of a session
          MaxRestarts    \* bound: restarts of the server

ASSUME HookAssumption ==
    /\ NoUser \notin Users /\ NoCode \notin Codes
    /\ Modes \subseteq {"sync", "async"}
    /\ MaxBatch \in Nat \ {0}
    /\ MaxEvents \in Nat /\ MaxInbox \in Nat /\ MaxRestarts \in Nat

VARIABLES
    registered,  \* registered_hooks: the code of each user with a hook
    holder,      \* history: the user each code was generated for
    queue,       \* _user_queues
    pc,          \* the await at which each websocket handler is
    user,        \* the handler's local `user`
    shown,       \* the code the session presented
    conn,        \* is the client's end of the websocket open?
    listener,    \* is the session's ack_listener task running?
    pending,     \* the session's pending_acks: a set of [id, events]
    batches,     \* the session's batch_counter
    offered,     \* the SYNC loop's local `event` (0 before the first)
    wire, inbox,
    restarts,
    added, got, popped, acked, expired, lost   \* history: what became of the events

hookVars == <<registered, holder>>
handlerVars == <<pc, user, shown, listener, pending, batches, offered>>
netVars == <<conn, wire, inbox, restarts>>
fateVars == <<popped, acked, expired, lost>>
vars == <<hookVars, queue, handlerVars, netVars, added, got, fateVars>>

Ids == 1..Len(added)
PcStates == {"free", "accepted", "mode", "syncWait", "syncReply", "async", "closed"}
Attached == {"syncWait", "syncReply", "async"}
Messages == [kind : {"done", "other", "ack", "req"}, id : Nat]
Elems(q) == {q[i] : i \in DOMAIN q}
InPending(s) == UNION {Elems(b.events) : b \in pending[s]}

TypeOK ==
    /\ registered \in [Users -> Codes \cup {NoCode}]
    /\ holder \in [Codes -> Users \cup {NoUser}]
    /\ added \in Seq(Users)
    /\ queue \in [Users -> Seq(Ids)]
    /\ pc \in [Sessions -> PcStates]
    /\ user \in [Sessions -> Users \cup {NoUser}]
    /\ shown \in [Sessions -> Codes \cup {NoCode}]
    /\ conn \in [Sessions -> BOOLEAN]
    /\ listener \in [Sessions -> BOOLEAN]
    /\ pending \in [Sessions -> SUBSET [id : Nat, events : Seq(Ids)]]
    /\ batches \in [Sessions -> Nat]
    /\ offered \in [Sessions -> Ids \cup {0}]
    /\ wire \in [Sessions -> Seq(Seq(Ids))]
    /\ inbox \in [Sessions -> Seq(Messages)]
    /\ restarts \in Nat
    /\ got \in [Sessions -> SUBSET Ids]
    /\ popped \subseteq Ids /\ acked \subseteq Ids
    /\ expired \subseteq Ids /\ lost \subseteq Ids

Init ==
    /\ registered = [u \in Users |-> NoCode]
    /\ holder = [c \in Codes |-> NoUser]
    /\ queue = [u \in Users |-> <<>>]
    /\ pc = [s \in Sessions |-> "free"]
    /\ user = [s \in Sessions |-> NoUser]
    /\ shown = [s \in Sessions |-> NoCode]
    /\ conn = [s \in Sessions |-> FALSE]
    /\ listener = [s \in Sessions |-> FALSE]
    /\ pending = [s \in Sessions |-> {}]
    /\ batches = [s \in Sessions |-> 0]
    /\ offered = [s \in Sessions |-> 0]
    /\ wire = [s \in Sessions |-> <<>>]
    /\ inbox = [s \in Sessions |-> <<>>]
    /\ restarts = 0
    /\ added = <<>>
    /\ got = [s \in Sessions |-> {}]
    /\ popped = {} /\ acked = {} /\ expired = {} /\ lost = {}

-----------------------------------------------------------------------------
(* The registry and the producers of events *)

\* generate_code draws 40 random characters: it never returns the same twice.
RegisterHook(u) ==
    /\ registered[u] = NoCode
    /\ \E c \in Codes : /\ holder[c] = NoUser
                      /\ registered' = [registered EXCEPT ![u] = c]
                      /\ holder' = [holder EXCEPT ![c] = u]
    /\ UNCHANGED <<queue, handlerVars, netVars, added, got, fateVars>>

\* Sessions that authenticated with the code stay attached.
UnregisterHook(u) ==
    /\ registered[u] # NoCode
    /\ registered' = [registered EXCEPT ![u] = NoCode]
    /\ UNCHANGED <<holder, queue, handlerVars, netVars, added, got, fateVars>>

PutEvent(u) ==
    /\ Len(added) < MaxEvents
    /\ added' = Append(added, u)
    /\ queue' = [queue EXCEPT ![u] = Put(@, Len(added) + 1)]

\* Any handler of the server that records an event of user u.
AddEvent(u) ==
    /\ PutEvent(u)
    /\ UNCHANGED <<hookVars, handlerVars, netVars, got, fateVars>>

-----------------------------------------------------------------------------
(* The handshake *)

\* safe_send: nothing reaches a client that has gone, and the handler is not told.
Send(s, events) == wire' = IF conn[s] THEN [wire EXCEPT ![s] = Append(@, events)] ELSE wire

Goto(s, place) == pc' = [pc EXCEPT ![s] = place]

Connect(s) ==
    /\ pc[s] = "free"
    /\ Goto(s, "accepted")
    /\ conn' = [conn EXCEPT ![s] = TRUE]
    /\ UNCHANGED <<hookVars, queue, user, shown, listener, pending, batches, offered,
                   wire, inbox, restarts, added, got, fateVars>>

\* A faulty look-up: the loop over registered_hooks ends without a match and
\* its last user is taken.
RecvSyncFallsThrough(s, code) ==
    /\ pc[s] = "accepted" /\ conn[s]
    /\ shown' = [shown EXCEPT ![s] = code]
    /\ \E u \in Users : /\ registered[u] # NoCode
                       /\ user' = [user EXCEPT ![s] = u]
                       /\ Goto(s, "mode")
    /\ UNCHANGED <<hookVars, queue, listener, pending, batches, offered,
                   netVars, added, got, fateVars>>

\* The first message: SYNC with the code of a registered hook, or anything else
\* (NoCode), which ends the session.
RecvSync(s, code) ==
    /\ pc[s] = "accepted" /\ conn[s]
    /\ shown' = [shown EXCEPT ![s] = code]
    /\ \/ \E u \in Users : /\ code # NoCode /\ registered[u] = code
                           /\ user' = [user EXCEPT ![s] = u]
                           /\ Goto(s, "mode")
       \/ /\ code = NoCode \/ \A u \in Users : registered[u] # code
          /\ Goto(s, "closed")
          /\ UNCHANGED user
    /\ UNCHANGED <<hookVars, queue, listener, pending, batches, offered,
                   netVars, added, got, fateVars>>

\* A faulty handler that takes the client's word for the mode.
RecvModeUnchecked(s, mode) ==
    /\ pc[s] = "mode" /\ conn[s]
    /\ Goto(s, IF mode = "sync" THEN "syncWait" ELSE mode)
    /\ listener' = [listener EXCEPT ![s] = (mode # "sync")]
    /\ UNCHANGED <<hookVars, queue, user, shown, pending, batches, offered,
                   netVars, added, got, fateVars>>

\* The second message: MODE with USE SYNC or USE ASYNC, or anything else.
RecvMode(s, mode) ==
    /\ pc[s] = "mode" /\ conn[s]
    /\ Goto(s, CASE mode = "sync" -> "syncWait"
                 [] mode = "async" -> "async"
                 [] OTHER -> "closed")
    /\ listener' = [listener EXCEPT ![s] = (mode = "async")]
    /\ UNCHANGED <<hookVars, queue, user, shown, pending, batches, offered,
                   netVars, added, got, fateVars>>

\* receive_text raises in the handshake or while the SYNC loop waits for a
\* confirmation: WebSocketDisconnect after the client has gone, KeyError on a
\* binary frame while it is still there.  Nothing is read while the loop waits
\* for an event.
ReadRaises(s) ==
    /\ pc[s] \in {"accepted", "mode", "syncReply"}
    /\ inbox[s] = <<>>
    /\ Goto(s, "closed")
    /\ UNCHANGED <<hookVars, queue, user, shown, listener, pending, batches, offered,
                   netVars, added, got, fateVars>>

-----------------------------------------------------------------------------
(* SYNC mode *)

SyncWait(s) ==
    /\ pc[s] = "syncWait"
    /\ queue[user[s]] # <<>>
    /\ offered' = [offered EXCEPT ![s] = Head(queue[user[s]])]
    /\ queue' = [queue EXCEPT ![user[s]] = Rotate(@)]
    /\ Send(s, <<Head(queue[user[s]])>>)
    /\ Goto(s, "syncReply")
    /\ UNCHANGED <<hookVars, user, shown, listener, pending, batches,
                   conn, inbox, restarts, added, got, fateVars>>

\* "Processing done" in resp
Confirms(msg) == msg.kind = "done"

\* A confirmation pops the head, whichever event that is now; after any other
\* reply the loop waits for an event again.
SyncReply(s) ==
    /\ pc[s] = "syncReply" /\ inbox[s] # <<>>
    /\ inbox' = [inbox EXCEPT ![s] = Tail(@)]
    /\ IF Confirms(Head(inbox[s]))
         THEN /\ queue' = [queue EXCEPT ![user[s]] = Pop(@)]
              /\ popped' = popped \cup (Elems(queue[user[s]]) \ Elems(queue'[user[s]]))
         ELSE UNCHANGED <<queue, popped>>
    /\ Goto(s, "syncWait")
    /\ UNCHANGED <<hookVars, user, shown, listener, pending, batches, offered,
                   conn, wire, restarts, added, got, acked, expired, lost>>

-----------------------------------------------------------------------------
(* ASYNC mode: main loop, ack_listener and ack_cleanup *)

\* The main loop runs for as long as the server does: it never reads the
\* socket and safe_send hides a closed one.
AsyncTake(s) ==
    /\ pc[s] = "async" /\ queue[user[s]] # <<>>
    /\ LET events == Batch(queue[user[s]], MaxBatch)
           id == batches[s] + 1
       IN  /\ batches' = [batches EXCEPT ![s] = id]
           /\ pending' = [pending EXCEPT ![s] = @ \cup {[id |-> id, events |-> events]}]
           /\ Send(s, events)
    /\ queue' = [queue EXCEPT ![user[s]] = AfterBatch(@, MaxBatch)]
    /\ UNCHANGED <<hookVars, pc, user, shown, listener, offered,
                   conn, inbox, restarts, added, got, fateVars>>

\* The faulty listener takes an ACK for the id and everything sent after it.
AckedFrom(s, id) == {b \in pending[s] : b.id >= id}
\* The entries of pending_acks that an ACK for id removes.
AckedBy(s, id) == {b \in pending[s] : b.id = id}

\* ack_listener: an ACK for an unknown or expired id is ignored.
RecvAck(s) ==
    /\ listener[s] /\ inbox[s] # <<>> /\ Head(inbox[s]).kind = "ack"
    /\ LET gone == AckedBy(s, Head(inbox[s]).id)
       IN  /\ pending' = [pending EXCEPT ![s] = @ \ gone]
           /\ acked' = acked \cup UNION {Elems(b.events) : b \in gone}
    /\ inbox' = [inbox EXCEPT ![s] = Tail(@)]
    /\ UNCHANGED <<hookVars, queue, pc, user, shown, listener, batches, offered,
                   conn, wire, restarts, added, got, popped, expired, lost>>

\* ack_listener: REQ: EVENT puts an event of the hooker's own on the queue.
RecvReq(s) ==
    /\ listener[s] /\ inbox[s] # <<>> /\ Head(inbox[s]).kind = "req"
    /\ PutEvent(user[s])
    /\ inbox' = [inbox EXCEPT ![s] = Tail(@)]
    /\ UNCHANGED <<hookVars, handlerVars, conn, wire, restarts, got, fateVars>>

\* ack_listener: any other message is ignored.
RecvIgnored(s) ==
    /\ listener[s] /\ inbox[s] # <<>> /\ Head(inbox[s]).kind \in {"done", "other"}
    /\ inbox' = [inbox EXCEPT ![s] = Tail(@)]
    /\ UNCHANGED <<hookVars, queue, handlerVars, conn, wire, restarts, added, got, fateVars>>

\* WebSocketDisconnect, or the KeyError of a binary frame, ends the listener, and
\* nothing but the listener: after a frame the client stays connected and is
\* sent batches, and no ACK of it is read any more.
ListenerStops(s) ==
    /\ listener[s] /\ inbox[s] = <<>>
    /\ listener' = [listener EXCEPT ![s] = FALSE]
    /\ UNCHANGED <<hookVars, queue, pc, user, shown, pending, batches, offered,
                   netVars, added, got, fateVars>>

\* The batches sent up to batch k.
SentUpTo(s, k) == {b \in pending[s] : b.id <= k}

\* A faulty cleanup that ends with the connection.
AckCleanupConnected(s) ==
    /\ pc[s] = "async" /\ conn[s]
    /\ \E k \in 1..batches[s] :
         /\ SentUpTo(s, k) # {}
         /\ pending' = [pending EXCEPT ![s] = @ \ SentUpTo(s, k)]
         /\ expired' = expired \cup UNION {Elems(b.events) : b \in SentUpTo(s, k)}
    /\ UNCHANGED <<hookVars, queue, pc, user, shown, listener, batches, offered,
                   netVars, added, got, popped, acked, lost>>

\* ack_cleanup: the batches more than 300 seconds old go.  Batches age in the
\* order they were sent, so those are the ones up to some id.
AckCleanup(s) ==
    /\ pc[s] = "async"
    /\ \E k \in 1..batches[s] :
         /\ SentUpTo(s, k) # {}
         /\ pending' = [pending EXCEPT ![s] = @ \ SentUpTo(s, k)]
         /\ expired' = expired \cup UNION {Elems(b.events) : b \in SentUpTo(s, k)}
    /\ UNCHANGED <<hookVars, queue, pc, user, shown, listener, batches, offered,
                   netVars, added, got, popped, acked, lost>>

-----------------------------------------------------------------------------
(* The environment *)

ClientRecv(s) ==
    /\ wire[s] # <<>>
    /\ got' = [got EXCEPT ![s] = @ \cup Elems(Head(wire[s]))]
    /\ wire' = [wire EXCEPT ![s] = Tail(@)]
    /\ UNCHANGED <<hookVars, queue, handlerVars, conn, inbox, restarts, added, fateVars>>

ClientSend(s, kind, id) ==
    /\ conn[s] /\ Len(inbox[s]) < MaxInbox
    /\ inbox' = [inbox EXCEPT ![s] = Append(@, [kind |-> kind, id |-> id])]
    /\ UNCHANGED <<hookVars, queue, handlerVars, conn, wire, restarts, added, got, fateVars>>

\* A SYNC hooker answers each event it has read once.
ClientReply(s, kind) ==
    /\ pc[s] = "syncReply" /\ wire[s] = <<>> /\ inbox[s] = <<>>
    /\ ClientSend(s, kind, 0)

\* An ASYNC hooker acknowledges a batch it has read, at any later time and in
\* any order, or again.
ClientAck(s, id) ==
    /\ pc[s] = "async" /\ id <= batches[s] - Len(wire[s])
    /\ ClientSend(s, "ack", id)

ClientReq(s, kind) ==
    /\ pc[s] = "async"
    /\ ClientSend(s, kind, 0)

Disconnect(s) ==
    /\ conn[s]
    /\ conn' = [conn EXCEPT ![s] = FALSE]
    /\ wire' = [wire EXCEPT ![s] = <<>>]
    /\ UNCHANGED <<hookVars, queue, handlerVars, inbox, restarts, added, got, fateVars>>

\* The server stops and starts again: hooks, queues and sessions are only in
\* memory.  (The `finally` of the ASYNC handler runs when the server cancels
\* it: it moves pending batches to a queue that is about to vanish.)
Restart ==
    /\ restarts < MaxRestarts
    /\ restarts' = restarts + 1
    /\ lost' = lost \cup UNION ({Elems(queue[u]) : u \in Users} \cup {InPending(s) : s \in Sessions})
    /\ registered' = [u \in Users |-> NoCode]
    /\ queue' = [u \in Users |-> <<>>]
    /\ pc' = [s \in Sessions |-> IF pc[s] = "free" THEN "free" ELSE "closed"]
    /\ conn' = [s \in Sessions |-> FALSE]
    /\ listener' = [s \in Sessions |-> FALSE]
    /\ pending' = [s \in Sessions |-> {}]
    /\ wire' = [s \in Sessions |-> <<>>]
    /\ inbox' = [s \in Sessions |-> <<>>]
    /\ UNCHANGED <<holder, user, shown, batches, offered, added, got, popped, acked, expired>>

-----------------------------------------------------------------------------
UserStep(u) == RegisterHook(u) \/ UnregisterHook(u) \/ AddEvent(u)

HandlerStep(s) ==
    \/ Connect(s)
    \/ \E code \in Codes \cup {NoCode} : RecvSync(s, code)
    \/ \E mode \in Modes \cup {"bad"} : RecvMode(s, mode)
    \/ ReadRaises(s)
    \/ SyncWait(s) \/ SyncReply(s)
    \/ AsyncTake(s)
    \/ RecvAck(s) \/ RecvReq(s) \/ RecvIgnored(s) \/ ListenerStops(s)
    \/ AckCleanup(s)

ClientStep(s) ==
    \/ ClientRecv(s)
    \/ \E kind \in {"done", "other"} : ClientReply(s, kind)
    \/ \E id \in 1..MaxEvents : ClientAck(s, id)
    \/ \E kind \in {"req", "other"} : ClientReq(s, kind)
    \/ Disconnect(s)

Next ==
    \/ \E u \in Users : UserStep(u)
    \/ \E s \in Sessions : HandlerStep(s) \/ ClientStep(s)
    \/ Restart

Spec == Init /\ [][Next]_vars

\* What the event loop runs without the client's help: the loops of the tasks.
Fairness ==
    \A s \in Sessions : WF_vars(AsyncTake(s)) /\ WF_vars(AckCleanup(s))

FairSpec == Spec /\ Fairness

-----------------------------------------------------------------------------
(* Properties *)

\* An event reaches only sessions that presented a code generated for the
\* user it belongs to: queues, pending batches, the event a SYNC loop offers,
\* what is on the wire and what a client has read never mix users, whatever
\* codes are revoked and issued meanwhile.
Belongs(e, s) == shown[s] # NoCode /\ added[e] = holder[shown[s]]
Isolation ==
    /\ \A u \in Users : \A e \in Elems(queue[u]) : added[e] = u
    /\ \A s \in Sessions :
         /\ \A e \in InPending(s) \cup got[s] : Belongs(e, s)
         /\ \A i \in DOMAIN wire[s] : \A e \in Elems(wire[s][i]) : Belongs(e, s)
         /\ offered[s] # 0 => Belongs(offered[s], s)

\* Where event e is: one entry for each queue slot and pending batch slot
\* that holds it, and one for each way it can have left the server.
Places(e) ==
    (UNION {{<<"queue", u, i>> : i \in {j \in DOMAIN queue[u] : queue[u][j] = e}} : u \in Users})
 \cup (UNION {UNION {{<<s, b.id, i>> : i \in {j \in DOMAIN b.events : b.events[j] = e}}
                       : b \in pending[s]} : s \in Sessions})
 \cup {f \in {"popped", "acked", "expired", "lost"} :
         e \in CASE f = "popped" -> popped [] f = "acked" -> acked
                 [] f = "expired" -> expired [] f = "lost" -> lost}

\* Rotating, batching, acknowledging, expiring and confirming neither lose an
\* event nor duplicate it, whatever sessions compete for the queue: each event
\* is in one slot of one queue or pending batch, or left the server one way.
OnePlace == \A e \in Ids : Cardinality(Places(e)) = 1

\* An acknowledged event was read by a client: an ACK clears its own batch,
\* never one still on the wire.
AckedWasRead == acked \subseteq UNION {got[s] : s \in Sessions}

\* A queue that only ASYNC sessions read is first-in first-out, also when two
\* sessions compete for it: what is still queued is newer than all that left,
\* and in order.
AsyncInOrder ==
    "sync" \notin Modes =>
      \A u \in Users :
        /\ \A i, j \in DOMAIN queue[u] : i < j => queue[u][i] < queue[u][j]
        /\ \A e \in Ids \ Elems(queue[u]) : \A f \in Elems(queue[u]) :
             added[e] = u => e < f

\* A SYNC session that never shared its user's queue keeps the event it
\* offered queued until the reply: a client that dies while processing gets
\* the event again.
OfferedStaysQueued ==
    \A s \in Sessions :
      pc[s] = "syncReply" /\ (\A t \in Sessions \ {s} : user[t] # user[s])
        => offered[s] \in Elems(queue[user[s]])

\* Where a user has an ASYNC session, every event settles: a client
\* acknowledges it, or the cleanup task drops it, whether or not the client of
\* the session is still there.
EventSettles ==
    \A e \in 1..MaxEvents :
      (e \in Ids /\ \E s \in Sessions : pc[s] = "async" /\ user[s] = added[e])
        ~> (e \in acked \cup expired \cup lost)

\* docs/hook.md, SYNC mode: "Server only removes the event from the queue upon
\* receiving this confirmation": what was removed had been read by the client
\* that confirmed.
RemovedWasRead == popped \subseteq UNION {got[s] : s \in Sessions}

=============================================================================
