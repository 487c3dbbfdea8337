----------------------------- MODULE HookProofs -----------------------------
(***************************************************************************)
(* Proofs about Hook: the type invariant, that events of one user never    *)
(* reach a session that presented another user's code, and what becomes of *)
(* an event.  It is in one place or left the server one way; an            *)
(* acknowledged event was read; a pop was confirmed; a queue of ASYNC      *)
(* hookers is first-in first-out.                                          *)
(***************************************************************************)
EXTENDS Hook, TLAPS, SequenceTheorems, FiniteSetTheorems

-----------------------------------------------------------------------------
(* The queue operators *)

\* Widening the type of a sequence's elements.
LEMMA SeqWiden == ASSUME NEW A, NEW B, A \subseteq B, NEW q \in Seq(A)
                  PROVE  q \in Seq(B)
  OBVIOUS

\* Put adds its event and nothing else.
LEMMA PutElems == ASSUME NEW S, NEW q \in Seq(S), NEW e \in S
                  PROVE  Put(q, e) \in Seq(S) /\ Elems(Put(q, e)) = Elems(q) \cup {e}
<1>1. Put(q, e) \in Seq(S) BY DEF Put
<1>2. /\ Len(Put(q, e)) = Len(q) + 1
      /\ \A i \in 1..Len(q) : Put(q, e)[i] = q[i]
      /\ Put(q, e)[Len(q) + 1] = e
  BY DEF Put
<1>3. QED BY <1>1, <1>2 DEF Elems

\* Rotating keeps what is queued.
LEMMA RotateElems == ASSUME NEW S, NEW q \in Seq(S), q # <<>>
                     PROVE  Rotate(q) \in Seq(S) /\ Elems(Rotate(q)) = Elems(q) /\ Head(q) \in Elems(q)
<1>1. Rotate(q) \in Seq(S) /\ Len(Rotate(q)) = Len(q)
  BY DEF Rotate
<1>2. /\ \A i \in 1..(Len(q) - 1) : Rotate(q)[i] = q[i + 1]
      /\ Rotate(q)[Len(q)] = q[1]
  BY DEF Rotate
<1>3. Elems(Rotate(q)) \subseteq Elems(q)
  BY <1>1, <1>2 DEF Elems
<1>4. Elems(q) \subseteq Elems(Rotate(q))
  <2> SUFFICES ASSUME NEW i \in 1..Len(q) PROVE q[i] \in Elems(Rotate(q)) BY DEF Elems
  <2>1. CASE i = 1 BY <2>1, <1>1, <1>2 DEF Elems
  <2>2. CASE i # 1
    <3>1. i - 1 \in 1..(Len(q) - 1) /\ Rotate(q)[i - 1] = q[(i - 1) + 1] BY <2>2, <1>2
    <3>2. QED BY <3>1, <1>1 DEF Elems
  <2>3. QED BY <2>1, <2>2
<1>5. Head(q) \in Elems(q)
  <2>1. Head(q) = q[1] /\ 1 \in DOMAIN q OBVIOUS
  <2>2. QED BY <2>1 DEF Elems
<1>6. QED BY <1>1, <1>3, <1>4, <1>5

\* Pop and the two halves of a batch return nothing that was not queued.
LEMMA PopElems == ASSUME NEW S, NEW q \in Seq(S)
                  PROVE  Pop(q) \in Seq(S) /\ Elems(Pop(q)) \subseteq Elems(q)
<1>1. CASE q = <<>> BY <1>1 DEF Pop
<1>2. CASE q # <<>>
  <2>1. Pop(q) \in Seq(S) /\ Len(Pop(q)) = Len(q) - 1 /\ \A i \in 1..(Len(q) - 1) : Pop(q)[i] = q[i + 1]
    BY <1>2 DEF Pop
  <2>2. QED BY <2>1 DEF Elems
<1>3. QED BY <1>1, <1>2

LEMMA BatchElems == ASSUME NEW S, NEW q \in Seq(S), NEW max \in Nat
                    PROVE  /\ Batch(q, max) \in Seq(S) /\ Elems(Batch(q, max)) \subseteq Elems(q)
                           /\ AfterBatch(q, max) \in Seq(S) /\ Elems(AfterBatch(q, max)) \subseteq Elems(q)
<1> DEFINE n == BatchLen(q, max)
<1>1. n \in 0..Len(q) BY DEF BatchLen
<1>2. /\ Batch(q, max) \in Seq(S) /\ Len(Batch(q, max)) = n
      /\ \A i \in 1..n : Batch(q, max)[i] = q[i]
  BY <1>1 DEF Batch
<1>3. /\ AfterBatch(q, max) \in Seq(S) /\ Len(AfterBatch(q, max)) = Len(q) - n
      /\ \A i \in 1..(Len(q) - n) : AfterBatch(q, max)[i] = q[n + i]
  BY <1>1 DEF AfterBatch
<1>4. Elems(Batch(q, max)) \subseteq Elems(q) BY <1>1, <1>2 DEF Elems
<1>5. Elems(AfterBatch(q, max)) \subseteq Elems(q)
  <2> SUFFICES ASSUME NEW i \in 1..(Len(q) - n) PROVE AfterBatch(q, max)[i] \in Elems(q)
    BY <1>1, <1>3 DEF Elems
  <2>1. n + i \in 1..Len(q) /\ AfterBatch(q, max)[i] = q[n + i] BY <1>1, <1>3
  <2>2. QED BY <2>1 DEF Elems
<1>6. QED BY <1>2, <1>3, <1>4, <1>5


-----------------------------------------------------------------------------
(* The type invariant *)

\* Putting an event on a queue widens the set of event numbers; everything
\* that was typed by it still is.
LEMMA PutEventType ==
    ASSUME TypeOK, NEW u \in Users, PutEvent(u),
           UNCHANGED <<handlerVars, conn, wire, got, popped, acked, expired, lost>>
    PROVE  /\ added' \in Seq(Users)
           /\ queue' \in [Users -> Seq(Ids')]
           /\ pending' \in [Sessions -> SUBSET [id : Nat, events : Seq(Ids')]]
           /\ offered' \in [Sessions -> Ids' \cup {0}]
           /\ wire' \in [Sessions -> Seq(Seq(Ids'))]
           /\ got' \in [Sessions -> SUBSET Ids']
           /\ popped' \subseteq Ids' /\ acked' \subseteq Ids'
           /\ expired' \subseteq Ids' /\ lost' \subseteq Ids'
<1> USE DEF TypeOK, PutEvent, handlerVars
<1>1. added' \in Seq(Users) /\ Len(added') = Len(added) + 1
  OBVIOUS
<1>2. Ids \subseteq Ids' /\ Len(added) + 1 \in Ids'
  BY <1>1 DEF Ids
<1>3. Seq(Ids) \subseteq Seq(Ids') BY <1>2, SeqWiden
<1>4. Seq(Seq(Ids)) \subseteq Seq(Seq(Ids')) BY <1>3, SeqWiden
<1>5. queue' \in [Users -> Seq(Ids')]
  <2>1. queue[u] \in Seq(Ids') BY <1>3
  <2>2. Put(queue[u], Len(added) + 1) \in Seq(Ids') BY <2>1, <1>2, PutElems
  <2>3. QED BY <2>2, <1>3
<1>6. [id : Nat, events : Seq(Ids)] \subseteq [id : Nat, events : Seq(Ids')]
  BY <1>3
<1>7. pending' \in [Sessions -> SUBSET [id : Nat, events : Seq(Ids')]]
  BY <1>6
<1>8. wire' \in [Sessions -> Seq(Seq(Ids'))]
  BY <1>4
<1>9. QED BY <1>1, <1>2, <1>5, <1>7, <1>8

\* Sending puts the events on the wire of a client that is there.
LEMMA SendType ==
    ASSUME TypeOK, NEW s \in Sessions, NEW events \in Seq(Ids), Send(s, events)
    PROVE  wire' \in [Sessions -> Seq(Seq(Ids))]
  BY DEF TypeOK, Send

\* The steps that take an event or a batch off a queue.
LEMMA SyncWaitType ==
    ASSUME TypeOK, NEW s \in Sessions, user[s] \in Users, SyncWait(s)
    PROVE  TypeOK'
<1> USE DEF TypeOK
<1>1. queue[user[s]] \in Seq(Ids) /\ queue[user[s]] # <<>> BY DEF SyncWait
<1>2. /\ Rotate(queue[user[s]]) \in Seq(Ids)
      /\ Head(queue[user[s]]) \in Ids /\ <<Head(queue[user[s]])>> \in Seq(Ids)
  BY <1>1, RotateElems
<1>3. wire' \in [Sessions -> Seq(Seq(Ids))] BY <1>2, SendType DEF SyncWait
<1>4. QED BY <1>2, <1>3 DEF SyncWait, Goto, hookVars, fateVars, Ids, PcStates

LEMMA AsyncTakeType ==
    ASSUME TypeOK, NEW s \in Sessions, user[s] \in Users, AsyncTake(s)
    PROVE  TypeOK'
<1> USE DEF TypeOK
<1> DEFINE batch == Batch(queue[user[s]], MaxBatch)
           entry == [id |-> batches[s] + 1, events |-> batch]
<1>1. queue[user[s]] \in Seq(Ids) /\ MaxBatch \in Nat BY HookAssumption
<1>2. batch \in Seq(Ids) /\ AfterBatch(queue[user[s]], MaxBatch) \in Seq(Ids)
  BY <1>1, BatchElems
<1>3. wire' \in [Sessions -> Seq(Seq(Ids))] BY <1>2, SendType DEF AsyncTake
<1>4. entry \in [id : Nat, events : Seq(Ids)] BY <1>2
<1>5. pending' = [pending EXCEPT ![s] = @ \cup {entry}] BY DEF AsyncTake
<1>6. pending' \in [Sessions -> SUBSET [id : Nat, events : Seq(Ids)]]
  BY <1>4, <1>5
<1>7. batches' \in [Sessions -> Nat] BY DEF AsyncTake
<1>8. queue' \in [Users -> Seq(Ids)] BY <1>2 DEF AsyncTake
<1> HIDE DEF batch, entry
<1>9. QED BY <1>3, <1>6, <1>7, <1>8 DEF AsyncTake, hookVars, fateVars, Ids

\* What is known of a session at each await, and of the registry: a session
\* that got past the first message presented a code generated for its user,
\* and one that did not has exchanged no event.
SessionInv ==
    \A s \in Sessions :
      /\ pc[s] \in {"mode"} \cup Attached => user[s] \in Users
      /\ listener[s] => pc[s] = "async"
      /\ user[s] # NoUser => shown[s] \in Codes /\ holder[shown[s]] = user[s]
      /\ pc[s] \in {"free", "accepted"} =>
           /\ user[s] = NoUser /\ pending[s] = {} /\ wire[s] = <<>>
           /\ got[s] = {} /\ offered[s] = 0

RegistryInv == \A u \in Users : registered[u] # NoCode => holder[registered[u]] = u

TInv == TypeOK /\ SessionInv /\ RegistryInv

LEMMA InitTInv == Init => TInv
<1> SUFFICES ASSUME Init PROVE TInv OBVIOUS
<1>1. TypeOK BY DEF Init, TypeOK, Ids, PcStates
<1>2. SessionInv BY HookAssumption DEF Init, SessionInv, Attached
<1>3. RegistryInv BY DEF Init, RegistryInv
<1>4. QED BY <1>1, <1>2, <1>3 DEF TInv

LEMMA NextTypeOK == TInv /\ [Next]_vars => TypeOK'
<1> SUFFICES ASSUME TInv, [Next]_vars PROVE TypeOK' OBVIOUS
<1> TypeOK /\ SessionInv BY DEF TInv
<1> USE DEF hookVars, handlerVars, netVars, fateVars
<1>1. ASSUME NEW u \in Users, RegisterHook(u) PROVE TypeOK'
  BY <1>1 DEF TypeOK, RegisterHook, Ids
<1>2. ASSUME NEW u \in Users, UnregisterHook(u) PROVE TypeOK'
  BY <1>2 DEF TypeOK, UnregisterHook, Ids
<1>3. ASSUME NEW u \in Users, AddEvent(u) PROVE TypeOK'
  <2>1. PutEvent(u) /\ UNCHANGED <<hookVars, handlerVars, netVars, got, fateVars>>
    BY <1>3 DEF AddEvent
  <2>2. QED BY <2>1, PutEventType DEF TypeOK
<1>4. ASSUME NEW s \in Sessions, Connect(s) PROVE TypeOK'
  BY <1>4 DEF TypeOK, Connect, Goto, PcStates, Ids
<1>5. ASSUME NEW s \in Sessions, NEW code \in Codes \cup {NoCode}, RecvSync(s, code) PROVE TypeOK'
  <2>1. shown' \in [Sessions -> Codes \cup {NoCode}] BY <1>5 DEF TypeOK, RecvSync
  <2>2. user' \in [Sessions -> Users \cup {NoUser}] BY <1>5 DEF TypeOK, RecvSync
  <2>3. pc' \in [Sessions -> PcStates] BY <1>5 DEF TypeOK, RecvSync, Goto, PcStates
  <2>4. QED BY <1>5, <2>1, <2>2, <2>3 DEF TypeOK, RecvSync, Ids
<1>6. ASSUME NEW s \in Sessions, NEW mode, RecvMode(s, mode) PROVE TypeOK'
  BY <1>6 DEF TypeOK, RecvMode, Goto, PcStates, Ids
<1>7. ASSUME NEW s \in Sessions, ReadRaises(s) PROVE TypeOK'
  BY <1>7 DEF TypeOK, ReadRaises, Goto, PcStates, Ids
<1>8. ASSUME NEW s \in Sessions, SyncWait(s) PROVE TypeOK'
  <2>1. user[s] \in Users BY <1>8 DEF SyncWait, SessionInv, Attached
  <2>2. QED BY <2>1, <1>8, SyncWaitType
<1>9. ASSUME NEW s \in Sessions, SyncReply(s) PROVE TypeOK'
  <2>1. user[s] \in Users BY <1>9 DEF SyncReply, SessionInv, Attached
  <2>2. Pop(queue[user[s]]) \in Seq(Ids) BY <2>1, PopElems DEF TypeOK
  <2>3. Elems(queue[user[s]]) \subseteq Ids BY <2>1 DEF TypeOK, Elems
  <2>4. queue' \in [Users -> Seq(Ids)] /\ popped' \subseteq Ids
    BY <1>9, <2>1, <2>2, <2>3 DEF TypeOK, SyncReply
  <2>5. inbox' \in [Sessions -> Seq(Messages)] BY <1>9 DEF TypeOK, SyncReply
  <2>6. pc' \in [Sessions -> PcStates] BY <1>9 DEF TypeOK, SyncReply, Goto, PcStates
  <2>7. QED BY <1>9, <2>4, <2>5, <2>6 DEF TypeOK, SyncReply, Ids
<1>10. ASSUME NEW s \in Sessions, AsyncTake(s) PROVE TypeOK'
  <2>1. user[s] \in Users BY <1>10 DEF AsyncTake, SessionInv, Attached
  <2>2. QED BY <2>1, <1>10, AsyncTakeType
<1>11. ASSUME NEW s \in Sessions, RecvAck(s) PROVE TypeOK'
  <2> DEFINE gone == AckedBy(s, Head(inbox[s]).id)
  <2>1. gone \subseteq pending[s] BY DEF AckedBy
  <2>2. UNION {Elems(b.events) : b \in gone} \subseteq Ids BY <2>1 DEF TypeOK, Elems
  <2>3. pending' = [pending EXCEPT ![s] = @ \ gone] BY <1>11 DEF RecvAck
  <2>4. acked' = acked \cup UNION {Elems(b.events) : b \in gone} BY <1>11 DEF RecvAck
  <2>5. inbox' \in [Sessions -> Seq(Messages)] BY <1>11 DEF TypeOK, RecvAck
  <2> HIDE DEF gone
  <2>6. pending' \in [Sessions -> SUBSET [id : Nat, events : Seq(Ids)]] /\ acked' \subseteq Ids
    BY <2>1, <2>2, <2>3, <2>4 DEF TypeOK
  <2>7. QED BY <1>11, <2>5, <2>6 DEF TypeOK, RecvAck, Ids
<1>12. ASSUME NEW s \in Sessions, RecvReq(s) PROVE TypeOK'
  <2>1. user[s] \in Users BY <1>12 DEF RecvReq, SessionInv, Attached
  <2>2. PutEvent(user[s]) /\ UNCHANGED <<hookVars, handlerVars, conn, wire, restarts, got, fateVars>>
    BY <1>12 DEF RecvReq
  <2>3. inbox' \in [Sessions -> Seq(Messages)] BY <1>12 DEF TypeOK, RecvReq
  <2>4. QED BY <2>1, <2>2, <2>3, PutEventType DEF TypeOK
<1>13. ASSUME NEW s \in Sessions, RecvIgnored(s) PROVE TypeOK'
  <2>1. inbox' \in [Sessions -> Seq(Messages)] BY <1>13 DEF TypeOK, RecvIgnored
  <2>2. QED BY <1>13, <2>1 DEF TypeOK, RecvIgnored, Ids
<1>14. ASSUME NEW s \in Sessions, ListenerStops(s) PROVE TypeOK'
  BY <1>14 DEF TypeOK, ListenerStops, Ids
<1>15. ASSUME NEW s \in Sessions, AckCleanup(s) PROVE TypeOK'
  <2>1. PICK k \in 1..batches[s] :
          /\ pending' = [pending EXCEPT ![s] = @ \ SentUpTo(s, k)]
          /\ expired' = expired \cup UNION {Elems(b.events) : b \in SentUpTo(s, k)}
    BY <1>15 DEF AckCleanup
  <2>2. SentUpTo(s, k) \subseteq pending[s] BY DEF SentUpTo
  <2>3. UNION {Elems(b.events) : b \in SentUpTo(s, k)} \subseteq Ids BY <2>2 DEF TypeOK, Elems
  <2>4. pending' \in [Sessions -> SUBSET [id : Nat, events : Seq(Ids)]] /\ expired' \subseteq Ids
    BY <2>1, <2>2, <2>3 DEF TypeOK
  <2>5. QED BY <1>15, <2>4 DEF TypeOK, AckCleanup, Ids
<1>16. ASSUME NEW s \in Sessions, ClientRecv(s) PROVE TypeOK'
  <2>1. Head(wire[s]) \in Seq(Ids) BY <1>16 DEF TypeOK, ClientRecv
  <2>2. Elems(Head(wire[s])) \subseteq Ids BY <2>1 DEF Elems
  <2>3. got' \in [Sessions -> SUBSET Ids] /\ wire' \in [Sessions -> Seq(Seq(Ids))]
    BY <1>16, <2>2 DEF TypeOK, ClientRecv
  <2>4. QED BY <1>16, <2>3 DEF TypeOK, ClientRecv, Ids
<1>17. ASSUME NEW s \in Sessions, NEW kind \in {"done", "other", "ack", "req"}, NEW id \in Nat,
              ClientSend(s, kind, id)
       PROVE  TypeOK'
  BY <1>17 DEF TypeOK, ClientSend, Messages, Ids
<1>18. ASSUME NEW s \in Sessions, Disconnect(s) PROVE TypeOK'
  BY <1>18 DEF TypeOK, Disconnect, Ids
<1>19. ASSUME Restart PROVE TypeOK'
  <2>1. UNION ({Elems(queue[u]) : u \in Users} \cup {InPending(s) : s \in Sessions}) \subseteq Ids
    BY DEF TypeOK, InPending, Elems
  <2>2. lost' \subseteq Ids BY <1>19, <2>1 DEF TypeOK, Restart
  <2>3. QED BY <1>19, <2>2 DEF TypeOK, Restart, PcStates, Ids
<1>20. CASE UNCHANGED vars
  BY <1>20 DEF vars, TypeOK, Ids
<1>21. ASSUME NEW s \in Sessions, ClientStep(s) PROVE TypeOK'
  <2>1. \A id \in 1..MaxEvents : id \in Nat BY HookAssumption
  <2>2. QED BY <1>16, <1>17, <1>18, <1>21, <2>1
         DEF ClientStep, ClientReply, ClientAck, ClientReq
<1>22. ASSUME NEW s \in Sessions, HandlerStep(s) PROVE TypeOK'
  BY <1>4, <1>5, <1>6, <1>7, <1>8, <1>9, <1>10, <1>11, <1>12, <1>13, <1>14, <1>15, <1>22 DEF HandlerStep
<1>23. QED
  BY <1>1, <1>2, <1>3, <1>19, <1>20, <1>21, <1>22 DEF Next, UserStep

LEMMA NextSession == TInv /\ [Next]_vars => SessionInv' /\ RegistryInv'
<1> SUFFICES ASSUME TInv, [Next]_vars PROVE SessionInv' /\ RegistryInv' OBVIOUS
<1> TypeOK /\ SessionInv /\ RegistryInv BY DEF TInv
<1> USE DEF hookVars, handlerVars, netVars, fateVars
\* Most steps leave what these invariants are about alone, but for what only an
\* attached session does.
<1>1. ASSUME NEW u \in Users, RegisterHook(u) PROVE SessionInv' /\ RegistryInv'
  <2>1. PICK c \in Codes : /\ holder[c] = NoUser
                           /\ registered' = [registered EXCEPT ![u] = c]
                           /\ holder' = [holder EXCEPT ![c] = u]
    BY <1>1 DEF RegisterHook
  <2>2. RegistryInv'
    BY <2>1, HookAssumption DEF RegistryInv, TypeOK
  <2>3. SessionInv'
    BY <1>1, <2>1 DEF SessionInv, TypeOK, RegisterHook, Attached
  <2>4. QED BY <2>2, <2>3
<1>2. ASSUME NEW u \in Users, UnregisterHook(u) PROVE SessionInv' /\ RegistryInv'
  BY <1>2 DEF SessionInv, RegistryInv, TypeOK, UnregisterHook, Attached
<1>3. ASSUME NEW u \in Users, AddEvent(u) PROVE SessionInv' /\ RegistryInv'
  BY <1>3 DEF SessionInv, RegistryInv, AddEvent, Attached
<1>4. ASSUME NEW s \in Sessions, Connect(s) PROVE SessionInv' /\ RegistryInv'
  BY <1>4 DEF SessionInv, RegistryInv, TypeOK, Connect, Goto, Attached
<1>5. ASSUME NEW s \in Sessions, NEW code \in Codes \cup {NoCode}, RecvSync(s, code)
      PROVE  SessionInv' /\ RegistryInv'
  <2>1. RegistryInv' BY <1>5 DEF RegistryInv, RecvSync
  <2>2. CASE \E u \in Users : code # NoCode /\ registered[u] = code
                              /\ user' = [user EXCEPT ![s] = u] /\ Goto(s, "mode")
    <3>1. PICK u \in Users : code # NoCode /\ registered[u] = code
                             /\ user' = [user EXCEPT ![s] = u] /\ Goto(s, "mode")
      BY <2>2
    <3>2. code \in Codes /\ holder[code] = u BY <3>1 DEF RegistryInv
    <3>3. QED BY <1>5, <2>1, <3>1, <3>2 DEF SessionInv, TypeOK, RecvSync, Goto, Attached
  <2>3. CASE Goto(s, "closed") /\ UNCHANGED user
    BY <1>5, <2>1, <2>3 DEF SessionInv, TypeOK, RecvSync, Goto, Attached
  <2>4. QED BY <1>5, <2>2, <2>3 DEF RecvSync
<1>6. ASSUME NEW s \in Sessions, NEW mode, RecvMode(s, mode) PROVE SessionInv' /\ RegistryInv'
  BY <1>6 DEF SessionInv, RegistryInv, TypeOK, RecvMode, Goto, Attached
<1>7. ASSUME NEW s \in Sessions, ReadRaises(s) PROVE SessionInv' /\ RegistryInv'
  BY <1>7 DEF SessionInv, RegistryInv, TypeOK, ReadRaises, Goto, Attached
<1>8. ASSUME NEW s \in Sessions, SyncWait(s) PROVE SessionInv' /\ RegistryInv'
  BY <1>8 DEF SessionInv, RegistryInv, TypeOK, SyncWait, Goto, Send, Attached
<1>9. ASSUME NEW s \in Sessions, SyncReply(s) PROVE SessionInv' /\ RegistryInv'
  BY <1>9 DEF SessionInv, RegistryInv, TypeOK, SyncReply, Goto, Attached
<1>10. ASSUME NEW s \in Sessions, AsyncTake(s) PROVE SessionInv' /\ RegistryInv'
  BY <1>10 DEF SessionInv, RegistryInv, TypeOK, AsyncTake, Send, Attached
<1>11. ASSUME NEW s \in Sessions, RecvAck(s) PROVE SessionInv' /\ RegistryInv'
  BY <1>11 DEF SessionInv, RegistryInv, TypeOK, RecvAck, Attached
<1>12. ASSUME NEW s \in Sessions, RecvReq(s) PROVE SessionInv' /\ RegistryInv'
  BY <1>12 DEF SessionInv, RegistryInv, RecvReq, Attached
<1>13. ASSUME NEW s \in Sessions, RecvIgnored(s) PROVE SessionInv' /\ RegistryInv'
  BY <1>13 DEF SessionInv, RegistryInv, RecvIgnored, Attached
<1>14. ASSUME NEW s \in Sessions, ListenerStops(s) PROVE SessionInv' /\ RegistryInv'
  BY <1>14 DEF SessionInv, RegistryInv, TypeOK, ListenerStops, Attached
<1>15. ASSUME NEW s \in Sessions, AckCleanup(s) PROVE SessionInv' /\ RegistryInv'
  BY <1>15 DEF SessionInv, RegistryInv, TypeOK, AckCleanup, Attached
<1>16. ASSUME NEW s \in Sessions, ClientRecv(s) PROVE SessionInv' /\ RegistryInv'
  BY <1>16 DEF SessionInv, RegistryInv, TypeOK, ClientRecv, Attached
<1>17. ASSUME NEW s \in Sessions, NEW kind, NEW id, ClientSend(s, kind, id)
       PROVE  SessionInv' /\ RegistryInv'
  BY <1>17 DEF SessionInv, RegistryInv, ClientSend, Attached
<1>18. ASSUME NEW s \in Sessions, Disconnect(s) PROVE SessionInv' /\ RegistryInv'
  BY <1>18 DEF SessionInv, RegistryInv, TypeOK, Disconnect, Attached
<1>19. ASSUME Restart PROVE SessionInv' /\ RegistryInv'
  BY <1>19 DEF SessionInv, RegistryInv, TypeOK, Restart, Attached
<1>20. CASE UNCHANGED vars
  BY <1>20 DEF vars, SessionInv, RegistryInv, Attached
<1>21. ASSUME NEW s \in Sessions, ClientStep(s) PROVE SessionInv' /\ RegistryInv'
  BY <1>16, <1>17, <1>18, <1>21 DEF ClientStep, ClientReply, ClientAck, ClientReq
<1>22. ASSUME NEW s \in Sessions, HandlerStep(s) PROVE SessionInv' /\ RegistryInv'
  BY <1>4, <1>5, <1>6, <1>7, <1>8, <1>9, <1>10, <1>11, <1>12, <1>13, <1>14, <1>15, <1>22 DEF HandlerStep
<1>23. QED
  BY <1>1, <1>2, <1>3, <1>19, <1>20, <1>21, <1>22 DEF Next, UserStep

LEMMA NextTInv == TInv /\ [Next]_vars => TInv'
  BY NextTypeOK, NextSession DEF TInv

\* Every variable of the model keeps its type, for any users, codes,
\* connections and bounds.
THEOREM TypeCorrect == Spec => []TypeOK
<1>1. TInv => TypeOK BY DEF TInv
<1>2. QED BY InitTInv, NextTInv, <1>1, PTL DEF Spec

-----------------------------------------------------------------------------
(* Isolation *)

\* The two halves of Isolation: of a queue, and of a session.
QueueIso(u) == \A e \in Elems(queue[u]) : added[e] = u
OnWire(s) == UNION {Elems(wire[s][i]) : i \in DOMAIN wire[s]}
Held(s) == InPending(s) \cup got[s] \cup OnWire(s) \cup ({offered[s]} \ {0})
SessionIso(s) == \A e \in Held(s) : Belongs(e, s)

IIso == (\A u \in Users : QueueIso(u)) /\ (\A s \in Sessions : SessionIso(s))

LEMMA IIsoIsolation == TInv /\ IIso => Isolation
<1> SUFFICES ASSUME TInv, IIso PROVE Isolation OBVIOUS
<1>1. \A u \in Users : \A e \in Elems(queue[u]) : added[e] = u BY DEF IIso, QueueIso
<1>2. ASSUME NEW s \in Sessions
      PROVE  /\ \A e \in InPending(s) \cup got[s] : Belongs(e, s)
             /\ \A i \in DOMAIN wire[s] : \A e \in Elems(wire[s][i]) : Belongs(e, s)
             /\ offered[s] # 0 => Belongs(offered[s], s)
  <2>1. \A e \in Held(s) : Belongs(e, s) BY DEF IIso, SessionIso
  <2>2. \A e \in InPending(s) \cup got[s] : Belongs(e, s) BY <2>1 DEF Held
  <2>3. \A e \in OnWire(s) : Belongs(e, s) BY <2>1 DEF Held
  <2>4. offered[s] # 0 => Belongs(offered[s], s) BY <2>1 DEF Held
  <2>5. \A i \in DOMAIN wire[s] : \A e \in Elems(wire[s][i]) : e \in OnWire(s) BY DEF OnWire
  <2>6. QED BY <2>2, <2>3, <2>4, <2>5
<1>3. QED BY <1>1, <1>2 DEF Isolation

LEMMA HeldTyped == ASSUME TypeOK, NEW s \in Sessions PROVE Held(s) \subseteq Ids
<1>1. InPending(s) \subseteq Ids BY DEF TypeOK, InPending, Elems
<1>2. \A i \in DOMAIN wire[s] : Elems(wire[s][i]) \subseteq Ids
  <2> SUFFICES ASSUME NEW i \in DOMAIN wire[s] PROVE Elems(wire[s][i]) \subseteq Ids OBVIOUS
  <2>1. wire[s] \in Seq(Seq(Ids)) BY DEF TypeOK
  <2>2. wire[s][i] \in Seq(Ids) BY <2>1
  <2>3. QED BY <2>2 DEF Elems
<1>3. got[s] \subseteq Ids /\ offered[s] \in Ids \cup {0} BY DEF TypeOK
<1>4. OnWire(s) \subseteq Ids BY <1>2 DEF OnWire
<1>5. QED BY <1>1, <1>3, <1>4 DEF Held

\* What a session holds belongs to some user.
LEMMA HeldOwner ==
    ASSUME TypeOK, NEW s \in Sessions, NEW e \in Held(s)
    PROVE  added[e] \in Users
<1>1. e \in Ids BY HeldTyped
<1>2. added \in Seq(Users) BY DEF TypeOK
<1>3. QED BY <1>1, <1>2 DEF Ids

\* A session that presents no new code keeps what it had a right to, and what
\* it takes from its user's queue.
LEMMA SessionIsoStep ==
    ASSUME TInv, NEW s \in Sessions, SessionIso(s),
           shown'[s] = shown[s],
           shown[s] # NoCode /\ Held(s) # {} => holder'[shown[s]] = holder[shown[s]],
           \A e \in Held(s) : added'[e] = added[e],
           Held(s)' \subseteq Held(s)
    PROVE  SessionIso(s)'
  BY DEF SessionIso, Belongs

\* Events put on a queue keep the owners of the others.
LEMMA AddedGrows ==
    ASSUME TypeOK, NEW u \in Users, PutEvent(u)
    PROVE  (\A e \in Ids : added'[e] = added[e]) /\ added'[Len(added) + 1] = u
  BY DEF TypeOK, PutEvent, Ids

LEMMA PutEventIso ==
    ASSUME TInv, IIso, NEW u \in Users, PutEvent(u),
           UNCHANGED <<hookVars, handlerVars, wire, got>>
    PROVE  IIso'
<1> TypeOK BY DEF TInv
<1> USE DEF hookVars, handlerVars
<1>1. \A v \in Users : QueueIso(v)' 
  <2> SUFFICES ASSUME NEW v \in Users, NEW e \in Elems(queue[v])' PROVE added'[e] = v
    BY DEF QueueIso
  <2>1. queue[v] \in Seq(Ids) /\ Elems(queue[v]) \subseteq Ids BY DEF TypeOK, Elems
  <2>2. \A f \in Elems(queue[v]) : added'[f] = v
    BY <2>1, AddedGrows DEF IIso, QueueIso
  <2>3. CASE v # u
    <3>1. queue'[v] = queue[v] BY <2>3 DEF PutEvent, TypeOK
    <3>2. QED BY <2>2, <3>1 DEF Elems
  <2>4. CASE v = u
    <3> DEFINE n == Len(added) + 1
    <3>1. queue'[u] = Put(queue[u], n) BY DEF PutEvent, TypeOK
    <3>2. queue[u] \in Seq(Nat) /\ n \in Nat BY <2>1, <2>4, SeqWiden DEF Ids, TypeOK
    <3>3. Elems(queue'[u]) = Elems(queue[u]) \cup {n}
      <4> HIDE DEF n
      <4>1. QED BY <3>1, <3>2, PutElems
    <3>4. e \in Elems(queue[u]) \/ e = n BY <2>4, <3>3 DEF Elems
    <3>5. QED BY <2>2, <2>4, <3>4, AddedGrows
  <2>5. QED BY <2>3, <2>4
<1>2. \A s \in Sessions : SessionIso(s)'
  <2> SUFFICES ASSUME NEW s \in Sessions PROVE SessionIso(s)' OBVIOUS
  <2>1. Held(s)' = Held(s) BY DEF Held, OnWire, InPending, Elems
  <2>2. \A e \in Held(s) : added'[e] = added[e] BY HeldTyped, AddedGrows
  <2>3. QED BY <2>1, <2>2, SessionIsoStep DEF IIso
<1>3. QED BY <1>1, <1>2 DEF IIso

\* What an attached session takes from the queue of its user belongs to it.
LEMMA TakenBelongs ==
    ASSUME TInv, IIso, NEW s \in Sessions, pc[s] \in Attached, NEW e \in Elems(queue[user[s]])
    PROVE  Belongs(e, s)
<1>1. user[s] \in Users BY DEF TInv, SessionInv
<1>2. shown[s] # NoCode /\ holder[shown[s]] = user[s]
  BY <1>1, HookAssumption DEF TInv, SessionInv, TypeOK
<1>3. added[e] = user[s] BY <1>1 DEF IIso, QueueIso
<1>4. QED BY <1>2, <1>3 DEF Belongs

\* Steps that leave the queues and the events alone, and show no new code:
\* no session comes to hold an event it did not hold.
LEMMA NoNewHeld ==
    ASSUME TInv, IIso, UNCHANGED <<added, queue, shown, holder>>,
           \A s \in Sessions : Held(s)' \subseteq Held(s)
    PROVE  IIso'
<1>1. \A u \in Users : QueueIso(u)' BY DEF IIso, QueueIso, Elems
<1>2. \A s \in Sessions : SessionIso(s)' BY SessionIsoStep DEF IIso
<1>3. QED BY <1>1, <1>2 DEF IIso

\* Sending adds the events to what is on the session's wire, and to no other.
LEMMA SendWire ==
    ASSUME TypeOK, NEW s \in Sessions, NEW events \in Seq(Ids), Send(s, events), NEW t \in Sessions
    PROVE  OnWire(t)' \subseteq OnWire(t) \cup (IF t = s THEN Elems(events) ELSE {})
<1> DEFINE w == wire[s]
<1>1. w \in Seq(Seq(Ids)) BY DEF TypeOK
<1>2. CASE conn[s] /\ t = s
  <2>1. wire'[s] = Append(w, events) BY <1>2 DEF Send, TypeOK
  <2>2. /\ DOMAIN wire'[s] = 1..(Len(w) + 1) /\ DOMAIN w = 1..Len(w) /\ Len(w) \in Nat
        /\ \A i \in 1..Len(w) : wire'[s][i] = w[i]
        /\ wire'[s][Len(w) + 1] = events
    BY <1>1, <2>1
  <2>3. ASSUME NEW i \in DOMAIN wire'[s] PROVE Elems(wire'[s][i]) \subseteq OnWire(s) \cup Elems(events)
    <3>1. CASE i = Len(w) + 1 BY <2>2, <3>1
    <3>2. CASE i \in 1..Len(w) BY <2>2, <3>2 DEF OnWire
    <3>3. QED BY <2>2, <2>3, <3>1, <3>2
  <2>4. OnWire(s)' = UNION {Elems(wire'[s][i]) : i \in DOMAIN wire'[s]} BY DEF OnWire, Elems
  <2>5. OnWire(s)' \subseteq OnWire(s) \cup Elems(events) BY <2>3, <2>4
  <2>6. QED BY <1>2, <2>5
<1>3. CASE ~(conn[s] /\ t = s)
  <2>1. wire'[t] = wire[t] BY <1>3 DEF Send, TypeOK
  <2>2. QED BY <2>1 DEF OnWire, Elems
<1>4. QED BY <1>2, <1>3

LEMMA SyncWaitIso == ASSUME TInv, IIso, NEW s \in Sessions, SyncWait(s) PROVE IIso'
<1> TypeOK BY DEF TInv
<1> DEFINE q == queue[user[s]]
<1>1. user[s] \in Users /\ pc[s] \in Attached BY DEF TInv, SessionInv, SyncWait, Attached
<1>2. q \in Seq(Ids) /\ q # <<>> BY <1>1 DEF TypeOK, SyncWait
<1>3. Rotate(q) \in Seq(Ids) /\ Elems(Rotate(q)) = Elems(q) /\ Head(q) \in Elems(q)
  BY <1>2, RotateElems
<1>4. Head(q) \in Ids /\ <<Head(q)>> \in Seq(Ids) /\ Elems(<<Head(q)>>) = {Head(q)}
  BY <1>2 DEF Elems
<1>5. queue' = [queue EXCEPT ![user[s]] = Rotate(q)] /\ UNCHANGED <<added, holder, shown, pending, got>>
  BY DEF SyncWait, hookVars
<1>6. \A u \in Users : Elems(queue[u])' = Elems(queue[u])
  <2> TAKE u \in Users
  <2>1. queue'[u] = IF u = user[s] THEN Rotate(q) ELSE queue[u] BY <1>5 DEF TypeOK
  <2>2. QED BY <1>3, <2>1 DEF Elems
<1>7. \A u \in Users : QueueIso(u)' BY <1>5, <1>6 DEF IIso, QueueIso
<1>8. ASSUME NEW t \in Sessions PROVE SessionIso(t)'
  <2>1. OnWire(t)' \subseteq OnWire(t) \cup (IF t = s THEN {Head(q)} ELSE {})
    BY <1>4, SendWire DEF SyncWait
  <2>2. offered'[t] = IF t = s THEN Head(q) ELSE offered[t] BY DEF SyncWait, TypeOK
  <2>3. InPending(t)' = InPending(t) /\ got'[t] = got[t] BY <1>5 DEF InPending, Elems
  <2>4. Held(t)' \subseteq Held(t) \cup (IF t = s THEN {Head(q)} ELSE {})
    BY <2>1, <2>2, <2>3 DEF Held
  <2>5. \A e \in Held(t) : Belongs(e, t) BY DEF IIso, SessionIso
  <2>6. t = s => Belongs(Head(q), t) BY <1>1, <1>3, TakenBelongs
  <2>7. \A e : Belongs(e, t) => Belongs(e, t)' BY <1>5 DEF Belongs
  <2>8. QED BY <2>4, <2>5, <2>6, <2>7 DEF SessionIso
<1>9. QED BY <1>7, <1>8 DEF IIso

LEMMA AsyncTakeIso == ASSUME TInv, IIso, NEW s \in Sessions, AsyncTake(s) PROVE IIso'
<1> TypeOK BY DEF TInv
<1> DEFINE q == queue[user[s]]
           b == Batch(q, MaxBatch)
           entry == [id |-> batches[s] + 1, events |-> b]
<1>1. user[s] \in Users /\ pc[s] \in Attached BY DEF TInv, SessionInv, AsyncTake, Attached
<1>2. q \in Seq(Ids) /\ MaxBatch \in Nat BY <1>1, HookAssumption DEF TypeOK
<1>3. /\ b \in Seq(Ids) /\ Elems(b) \subseteq Elems(q)
      /\ Elems(AfterBatch(q, MaxBatch)) \subseteq Elems(q)
  BY <1>2, BatchElems
<1>4. /\ queue' = [queue EXCEPT ![user[s]] = AfterBatch(q, MaxBatch)]
      /\ pending' = [pending EXCEPT ![s] = @ \cup {entry}]
      /\ UNCHANGED <<added, holder, shown, got, offered>>
  BY DEF AsyncTake, hookVars
<1>5. entry.events = b OBVIOUS
<1>6. Send(s, b) BY DEF AsyncTake
<1> HIDE DEF b, entry
<1>7. \A u \in Users : QueueIso(u)'
  <2> TAKE u \in Users
  <2>1. queue'[u] = IF u = user[s] THEN AfterBatch(q, MaxBatch) ELSE queue[u] BY <1>4 DEF TypeOK
  <2>2. Elems(queue'[u]) \subseteq Elems(queue[u]) BY <1>3, <2>1
  <2>3. QED BY <1>4, <2>2 DEF IIso, QueueIso, Elems
<1>8. ASSUME NEW t \in Sessions PROVE SessionIso(t)'
  <2>1. OnWire(t)' \subseteq OnWire(t) \cup (IF t = s THEN Elems(b) ELSE {})
    BY <1>3, <1>6, SendWire
  <2>2. pending'[t] = IF t = s THEN pending[t] \cup {entry} ELSE pending[t] BY <1>4 DEF TypeOK
  <2>3. InPending(t)' \subseteq InPending(t) \cup (IF t = s THEN Elems(b) ELSE {})
    BY <1>5, <2>2 DEF InPending, Elems
  <2>4. Held(t)' \subseteq Held(t) \cup (IF t = s THEN Elems(b) ELSE {})
    BY <1>4, <2>1, <2>3 DEF Held
  <2>5. \A e \in Held(t) : Belongs(e, t) BY DEF IIso, SessionIso
  <2>6. t = s => \A e \in Elems(b) : Belongs(e, t) BY <1>1, <1>3, TakenBelongs
  <2>7. \A e : Belongs(e, t) => Belongs(e, t)' BY <1>4 DEF Belongs
  <2>8. QED BY <2>4, <2>5, <2>6, <2>7 DEF SessionIso
<1>9. QED BY <1>7, <1>8 DEF IIso

\* A confirmation takes an event off the queue and gives it to nobody.
LEMMA SyncReplyIso == ASSUME TInv, IIso, NEW s \in Sessions, SyncReply(s) PROVE IIso'
<1> TypeOK BY DEF TInv
<1>1. user[s] \in Users BY DEF TInv, SessionInv, SyncReply, Attached
<1>2. \A u \in Users : Elems(queue[u])' \subseteq Elems(queue[u])
  <2> TAKE u \in Users
  <2>1. queue[user[s]] \in Seq(Ids) BY <1>1 DEF TypeOK
  <2>2. Elems(Pop(queue[user[s]])) \subseteq Elems(queue[user[s]]) BY <2>1, PopElems
  <2>3. queue'[u] = queue[u] \/ (u = user[s] /\ queue'[u] = Pop(queue[u]))
    BY DEF SyncReply, TypeOK
  <2>4. QED BY <2>2, <2>3 DEF Elems
<1>3. UNCHANGED <<added, holder, shown, pending, got, offered, wire>> BY DEF SyncReply, hookVars
<1>4. \A u \in Users : QueueIso(u)' BY <1>2, <1>3 DEF IIso, QueueIso
<1>5. \A t \in Sessions : Held(t)' = Held(t) BY <1>3 DEF Held, OnWire, InPending, Elems
<1>6. \A t \in Sessions : SessionIso(t)' BY <1>3, <1>5 DEF IIso, SessionIso, Belongs
<1>7. QED BY <1>4, <1>6 DEF IIso

LEMMA NextIIso == TInv /\ IIso /\ [Next]_vars => IIso'
<1> SUFFICES ASSUME TInv, IIso, [Next]_vars PROVE IIso' OBVIOUS
<1> TypeOK /\ SessionInv BY DEF TInv
<1> USE DEF hookVars, handlerVars, netVars, fateVars
\* A step that leaves what sessions hold alone.
<1>0. ASSUME UNCHANGED <<added, queue, shown, holder, pending, got, wire, offered>> PROVE IIso'
  <2>1. \A t \in Sessions : Held(t)' = Held(t) BY <1>0 DEF Held, OnWire, InPending, Elems
  <2>2. QED BY <1>0, <2>1, NoNewHeld
\* The new code was nobody's: no session that holds events presented it.
<1>1. ASSUME NEW u \in Users, RegisterHook(u) PROVE IIso'
  <2>1. PICK c \in Codes : holder[c] = NoUser /\ holder' = [holder EXCEPT ![c] = u]
    BY <1>1 DEF RegisterHook
  <2>2. UNCHANGED <<added, queue, shown, pending, got, wire, offered>> BY <1>1 DEF RegisterHook
  <2>3. \A v \in Users : QueueIso(v)' BY <2>2 DEF IIso, QueueIso, Elems
  <2>4. ASSUME NEW t \in Sessions, NEW e \in Held(t) PROVE Belongs(e, t)'
    <3>1. Belongs(e, t) BY <2>4 DEF IIso, SessionIso
    <3>2. added[e] \in Users BY <2>4, HeldOwner
    <3>3. holder[shown[t]] # NoUser BY <3>1, <3>2, HookAssumption DEF Belongs
    <3>4. shown[t] \in Codes BY <3>1 DEF Belongs, TypeOK
    <3>5. holder'[shown[t]] = holder[shown[t]] BY <2>1, <3>3, <3>4 DEF TypeOK
    <3>6. QED BY <2>2, <3>1, <3>5 DEF Belongs
  <2>5. \A t \in Sessions : Held(t)' = Held(t) BY <2>2 DEF Held, OnWire, InPending, Elems
  <2>6. QED BY <2>3, <2>4, <2>5 DEF IIso, SessionIso
<1>2. ASSUME NEW u \in Users, UnregisterHook(u) PROVE IIso'
  BY <1>0, <1>2 DEF UnregisterHook
<1>3. ASSUME NEW u \in Users, AddEvent(u) PROVE IIso'
  BY <1>3, PutEventIso DEF AddEvent
<1>4. ASSUME NEW s \in Sessions, Connect(s) PROVE IIso'
  BY <1>0, <1>4 DEF Connect
\* A session presents its code before it holds anything.
<1>5. ASSUME NEW s \in Sessions, NEW code, RecvSync(s, code) PROVE IIso'
  <2>1. UNCHANGED <<added, queue, holder, pending, got, wire, offered>> BY <1>5 DEF RecvSync
  <2>2. shown' = [shown EXCEPT ![s] = code] /\ pc[s] = "accepted" BY <1>5 DEF RecvSync
  <2>3. \A v \in Users : QueueIso(v)' BY <2>1 DEF IIso, QueueIso, Elems
  <2>4. \A t \in Sessions : Held(t)' = Held(t) BY <2>1 DEF Held, OnWire, InPending, Elems
  <2>5. Held(s) = {} BY <2>2 DEF SessionInv, Held, OnWire, InPending
  <2>6. \A t \in Sessions : t # s => shown'[t] = shown[t] BY <2>2 DEF TypeOK
  <2>7. ASSUME NEW t \in Sessions PROVE SessionIso(t)'
    <3>1. CASE t = s BY <2>4, <2>5, <3>1 DEF SessionIso
    <3>2. CASE t # s BY <2>1, <2>4, <2>6, <3>2 DEF IIso, SessionIso, Belongs
    <3>3. QED BY <3>1, <3>2
  <2>8. QED BY <2>3, <2>7 DEF IIso
<1>6. ASSUME NEW s \in Sessions, NEW mode, RecvMode(s, mode) PROVE IIso'
  BY <1>0, <1>6 DEF RecvMode
<1>7. ASSUME NEW s \in Sessions, ReadRaises(s) PROVE IIso'
  BY <1>0, <1>7 DEF ReadRaises
<1>8. ASSUME NEW s \in Sessions, RecvAck(s) PROVE IIso'
  <2>1. pending'[s] \subseteq pending[s] /\ \A t \in Sessions : t # s => pending'[t] = pending[t]
    BY <1>8 DEF RecvAck, TypeOK
  <2>2. \A t \in Sessions : InPending(t)' \subseteq InPending(t) BY <2>1 DEF InPending, Elems
  <2>3. UNCHANGED <<added, queue, shown, holder, got, wire, offered>> BY <1>8 DEF RecvAck
  <2>4. \A t \in Sessions : OnWire(t)' = OnWire(t) BY <2>3 DEF OnWire, Elems
  <2>5. \A t \in Sessions : Held(t)' \subseteq Held(t) BY <2>2, <2>3, <2>4 DEF Held
  <2>6. QED BY <2>3, <2>5, NoNewHeld
<1>9. ASSUME NEW s \in Sessions, RecvReq(s) PROVE IIso'
  <2>1. user[s] \in Users BY <1>9 DEF RecvReq, SessionInv, Attached
  <2>2. QED BY <1>9, <2>1, PutEventIso DEF RecvReq
<1>10. ASSUME NEW s \in Sessions, RecvIgnored(s) PROVE IIso'
  BY <1>0, <1>10 DEF RecvIgnored
<1>11. ASSUME NEW s \in Sessions, ListenerStops(s) PROVE IIso'
  BY <1>0, <1>11 DEF ListenerStops
<1>12. ASSUME NEW s \in Sessions, AckCleanup(s) PROVE IIso'
  <2>1. pending'[s] \subseteq pending[s] /\ \A t \in Sessions : t # s => pending'[t] = pending[t]
    BY <1>12 DEF AckCleanup, TypeOK
  <2>2. \A t \in Sessions : InPending(t)' \subseteq InPending(t) BY <2>1 DEF InPending, Elems
  <2>3. UNCHANGED <<added, queue, shown, holder, got, wire, offered>> BY <1>12 DEF AckCleanup
  <2>4. \A t \in Sessions : OnWire(t)' = OnWire(t) BY <2>3 DEF OnWire, Elems
  <2>5. \A t \in Sessions : Held(t)' \subseteq Held(t) BY <2>2, <2>3, <2>4 DEF Held
  <2>6. QED BY <2>3, <2>5, NoNewHeld
\* What a client reads was on its wire.
<1>13. ASSUME NEW s \in Sessions, ClientRecv(s) PROVE IIso'
  <2> DEFINE w == wire[s]
  <2>1. w \in Seq(Seq(Ids)) /\ w # <<>> BY <1>13 DEF TypeOK, ClientRecv
  <2>2. UNCHANGED <<added, queue, shown, holder, pending, offered>> BY <1>13 DEF ClientRecv
  <2>3. ASSUME NEW t \in Sessions PROVE Held(t)' \subseteq Held(t)
    <3>1. CASE t = s
      <4>1. wire'[s] = Tail(w) /\ got'[s] = got[s] \cup Elems(Head(w)) BY <1>13 DEF ClientRecv, TypeOK
      <4>2. Head(w) = w[1] /\ 1 \in DOMAIN w BY <2>1
      <4>3. Elems(Head(w)) \subseteq OnWire(s) BY <4>2 DEF OnWire
      <4>4. DOMAIN Tail(w) = 1..(Len(w) - 1) /\ \A i \in 1..(Len(w) - 1) : Tail(w)[i] = w[i + 1] /\ i + 1 \in DOMAIN w
        BY <2>1
      <4>5. \A i \in DOMAIN Tail(w) : Elems(Tail(w)[i]) \subseteq OnWire(s) BY <4>4 DEF OnWire
      <4>6. OnWire(s)' = UNION {Elems(wire'[s][i]) : i \in DOMAIN wire'[s]} BY DEF OnWire, Elems
      <4>7. OnWire(s)' \subseteq OnWire(s) BY <4>1, <4>5, <4>6
      <4>8. InPending(s)' = InPending(s) BY <2>2 DEF InPending, Elems
      <4>9. QED BY <2>2, <3>1, <4>1, <4>3, <4>7, <4>8 DEF Held
    <3>2. CASE t # s
      <4>1. wire'[t] = wire[t] /\ got'[t] = got[t] BY <1>13, <3>2 DEF ClientRecv, TypeOK
      <4>2. QED BY <2>2, <4>1 DEF Held, OnWire, InPending, Elems
    <3>3. QED BY <3>1, <3>2
  <2>4. QED BY <2>2, <2>3, NoNewHeld
<1>14. ASSUME NEW s \in Sessions, NEW kind, NEW id, ClientSend(s, kind, id) PROVE IIso'
  BY <1>0, <1>14 DEF ClientSend
<1>15. ASSUME NEW s \in Sessions, Disconnect(s) PROVE IIso'
  <2>1. UNCHANGED <<added, queue, shown, holder, pending, got, offered>> BY <1>15 DEF Disconnect
  <2>2. \A t \in Sessions : wire'[t] = wire[t] \/ wire'[t] = <<>> BY <1>15 DEF Disconnect, TypeOK
  <2>3. ASSUME NEW t \in Sessions PROVE OnWire(t)' \subseteq OnWire(t)
    BY <2>2 DEF OnWire, Elems
  <2>4. \A t \in Sessions : InPending(t)' = InPending(t) BY <2>1 DEF InPending, Elems
  <2>5. \A t \in Sessions : Held(t)' \subseteq Held(t) BY <2>1, <2>3, <2>4 DEF Held
  <2>6. QED BY <2>1, <2>5, NoNewHeld
<1>16. ASSUME Restart PROVE IIso'
  <2>1. UNCHANGED <<added, shown, holder, got, offered>> BY <1>16 DEF Restart
  <2>2. \A u \in Users : Elems(queue[u])' = {} BY <1>16 DEF Restart, Elems
  <2>3. \A u \in Users : QueueIso(u)' BY <2>2 DEF QueueIso
  <2>4. \A t \in Sessions : InPending(t)' = {} /\ OnWire(t)' = {}
    BY <1>16 DEF Restart, InPending, OnWire
  <2>5. \A t \in Sessions : Held(t)' \subseteq Held(t) BY <2>1, <2>4 DEF Held
  <2>6. \A t \in Sessions : SessionIso(t)' BY <2>1, <2>5 DEF IIso, SessionIso, Belongs
  <2>7. QED BY <2>3, <2>6 DEF IIso
<1>17. CASE UNCHANGED vars
  BY <1>0, <1>17 DEF vars
<1>18. ASSUME NEW s \in Sessions, ClientStep(s) PROVE IIso'
  BY <1>13, <1>14, <1>15, <1>18 DEF ClientStep, ClientReply, ClientAck, ClientReq
<1>19. ASSUME NEW s \in Sessions, HandlerStep(s) PROVE IIso'
  BY <1>4, <1>5, <1>6, <1>7, <1>8, <1>9, <1>10, <1>11, <1>12, <1>19,
     SyncWaitIso, SyncReplyIso, AsyncTakeIso DEF HandlerStep
<1>20. QED
  BY <1>1, <1>2, <1>3, <1>16, <1>17, <1>18, <1>19 DEF Next, UserStep

\* An event is only ever queued, pending, offered, on the wire or read where a
\* session presented a code that was generated for the event's own user,
\* whatever hooks are registered, revoked and registered again meanwhile.
THEOREM IsolationHolds == Spec => []Isolation
<1>1. Init => IIso
  BY DEF Init, IIso, QueueIso, SessionIso, Held, OnWire, InPending, Elems
<1>2. TInv /\ IIso /\ [Next]_vars => (TInv /\ IIso)' BY NextTInv, NextIIso
<1>3. TInv /\ IIso => Isolation BY IIsoIsolation
<1>4. QED BY InitTInv, <1>1, <1>2, <1>3, PTL DEF Spec

-----------------------------------------------------------------------------
(* The queue operators, event by event *)

Inj(q) == \A i, j \in DOMAIN q : q[i] = q[j] => i = j
Sorted(q) == \A i, j \in DOMAIN q : i < j => q[i] < q[j]

LEMMA ElemsOf == ASSUME NEW q, NEW e PROVE e \in Elems(q) <=> \E i \in DOMAIN q : q[i] = e
  BY DEF Elems

LEMMA PutInj == ASSUME NEW S, NEW q \in Seq(S), NEW e, e \notin Elems(q), Inj(q)
                PROVE  Inj(Put(q, e))
<1>1. \A i \in 1..Len(q) : q[i] # e BY DEF Elems
<1>2. /\ Len(Put(q, e)) = Len(q) + 1 /\ DOMAIN Put(q, e) = 1..(Len(q) + 1)
      /\ \A i \in 1..Len(q) : Put(q, e)[i] = q[i]
      /\ Put(q, e)[Len(q) + 1] = e
  BY DEF Put
<1> DEFINE p == Put(q, e)
<1> HIDE DEF p
<1>3. \A i, j \in 1..(Len(q) + 1) : p[i] = p[j] => i = j
  <2> SUFFICES ASSUME NEW i \in 1..(Len(q) + 1), NEW j \in 1..(Len(q) + 1), p[i] = p[j] PROVE i = j
    OBVIOUS
  <2>1. CASE i \in 1..Len(q) /\ j \in 1..Len(q) BY <1>2, <2>1 DEF Inj, p
  <2>2. CASE i = Len(q) + 1 /\ j \in 1..Len(q) BY <1>1, <1>2, <2>2 DEF p
  <2>3. CASE i \in 1..Len(q) /\ j = Len(q) + 1 BY <1>1, <1>2, <2>3 DEF p
  <2>4. QED BY <2>1, <2>2, <2>3
<1>4. QED BY <1>2, <1>3 DEF Inj, p

LEMMA TailInj == ASSUME NEW S, NEW q \in Seq(S), q # <<>>, Inj(q)
                 PROVE  Inj(Tail(q)) /\ Head(q) \notin Elems(Tail(q)) /\ Tail(q) \in Seq(S)
<1>1. /\ Tail(q) \in Seq(S) /\ DOMAIN Tail(q) = 1..(Len(q) - 1) /\ Head(q) = q[1]
      /\ \A i \in 1..(Len(q) - 1) : Tail(q)[i] = q[i + 1]
  OBVIOUS
<1>2. \A i \in 1..(Len(q) - 1) : i + 1 \in DOMAIN q /\ 1 \in DOMAIN q /\ i + 1 # 1 OBVIOUS
<1> DEFINE t == Tail(q)
<1> HIDE DEF t
<1>3. DOMAIN t = 1..(Len(q) - 1) /\ \A i \in 1..(Len(q) - 1) : t[i] = q[i + 1] BY <1>1 DEF t
<1>4. Inj(t) BY <1>2, <1>3 DEF Inj
<1>5. q[1] \notin Elems(t) BY <1>2, <1>3 DEF Inj, Elems
<1>6. QED BY <1>1, <1>4, <1>5 DEF t

LEMMA RotateInj == ASSUME NEW S, NEW q \in Seq(S), q # <<>>, Inj(q)
                   PROVE  Inj(Rotate(q))
<1>1. Inj(Tail(q)) /\ Head(q) \notin Elems(Tail(q)) /\ Tail(q) \in Seq(S) BY TailInj
<1>2. Inj(Put(Tail(q), Head(q))) BY <1>1, PutInj
<1>3. QED BY <1>2 DEF Put, Rotate

LEMMA PopInj == ASSUME NEW S, NEW q \in Seq(S), Inj(q)
                PROVE  Inj(Pop(q))
<1>1. CASE q = <<>> BY <1>1 DEF Pop
<1>2. CASE q # <<>> BY <1>2, TailInj DEF Pop
<1>3. QED BY <1>1, <1>2

\* A batch and what stays behind split the queue, the older events first.
LEMMA BatchSplit ==
    ASSUME NEW S, NEW q \in Seq(S), NEW max \in Nat
    PROVE  /\ Elems(q) = Elems(Batch(q, max)) \cup Elems(AfterBatch(q, max))
           /\ Inj(q) => /\ Inj(Batch(q, max)) /\ Inj(AfterBatch(q, max))
                        /\ Elems(Batch(q, max)) \cap Elems(AfterBatch(q, max)) = {}
           /\ Sorted(q) /\ S \subseteq Nat =>
                /\ Sorted(AfterBatch(q, max))
                /\ \A e \in Elems(Batch(q, max)) : \A f \in Elems(AfterBatch(q, max)) : e < f
<1> DEFINE n == BatchLen(q, max)
           a == Batch(q, max)
           b == AfterBatch(q, max)
<1>1. n \in 0..Len(q) BY DEF BatchLen
<1>2. DOMAIN a = 1..n /\ \A i \in 1..n : a[i] = q[i] BY <1>1 DEF Batch
<1>3. DOMAIN b = 1..(Len(q) - n) /\ \A i \in 1..(Len(q) - n) : b[i] = q[n + i]
  BY <1>1 DEF AfterBatch
<1> DEFINE L == Len(q)
<1>4. L \in Nat /\ DOMAIN q = 1..L /\ n \in 0..L BY <1>1
<1>5. Elems(a) \subseteq Elems(q) /\ Elems(b) \subseteq Elems(q) BY BatchElems
<1> HIDE DEF n, a, b, L
<1>6. \A i \in 1..(L - n) : n + i \in 1..L BY <1>4
<1>7. \A i \in 1..n : i \in 1..L BY <1>4
<1>8. \A i \in 1..L : i \in 1..n \/ (i - n \in 1..(L - n) /\ n + (i - n) = i) BY <1>4
<1>9. DOMAIN b = 1..(L - n) /\ \A i \in 1..(L - n) : b[i] = q[n + i] BY <1>3 DEF L
<1>10. ASSUME NEW e \in Elems(q) PROVE e \in Elems(a) \cup Elems(b)
  <2>1. PICK i \in 1..L : q[i] = e BY <1>4, ElemsOf
  <2>2. CASE i \in 1..n BY <1>2, <2>1, <2>2, ElemsOf
  <2>3. CASE i - n \in 1..(L - n) /\ n + (i - n) = i
    <3>1. b[i - n] = e BY <1>9, <2>1, <2>3
    <3>2. QED BY <1>9, <2>3, <3>1, ElemsOf
  <2>4. QED BY <1>8, <2>2, <2>3
<1>11. ASSUME NEW e \in Elems(a) PROVE \E i \in 1..n : q[i] = e
  <2>1. PICK i \in DOMAIN a : a[i] = e BY DEF Elems
  <2>2. QED BY <1>2, <2>1
<1>12. ASSUME NEW e \in Elems(b) PROVE \E j \in 1..(L - n) : q[n + j] = e
  <2>1. PICK i \in DOMAIN b : b[i] = e BY DEF Elems
  <2>2. QED BY <1>9, <2>1
<1>13. ASSUME Inj(q) PROVE Inj(a) /\ Inj(b) /\ Elems(a) \cap Elems(b) = {}
  <2>1. Inj(a) BY <1>2, <1>4, <1>7, <1>13 DEF Inj
  <2>2. Inj(b)
    <3> SUFFICES ASSUME NEW i \in 1..(L - n), NEW j \in 1..(L - n), b[i] = b[j] PROVE i = j
      BY <1>9 DEF Inj
    <3>1. q[n + i] = q[n + j] BY <1>9
    <3>2. n + i = n + j BY <1>4, <1>6, <1>13, <3>1 DEF Inj
    <3>3. QED BY <1>4, <3>2
  <2>3. ASSUME NEW e, e \in Elems(a), e \in Elems(b) PROVE FALSE
    <3>1. PICK i \in 1..n : q[i] = e BY <1>11, <2>3
    <3>2. PICK j \in 1..(L - n) : q[n + j] = e BY <1>12, <2>3
    <3>3. i = n + j BY <1>4, <1>6, <1>7, <1>13, <3>1, <3>2 DEF Inj
    <3>4. QED BY <1>4, <3>3
  <2>4. QED BY <2>1, <2>2, <2>3
<1>14. ASSUME Sorted(q), S \subseteq Nat PROVE Sorted(b) /\ \A e \in Elems(a) : \A f \in Elems(b) : e < f
  <2>1. Sorted(b)
    <3> SUFFICES ASSUME NEW i \in 1..(L - n), NEW j \in 1..(L - n), i < j PROVE b[i] < b[j]
      BY <1>9 DEF Sorted
    <3>1. n + i < n + j BY <1>4
    <3>2. QED BY <1>4, <1>6, <1>9, <1>14, <3>1 DEF Sorted
  <2>2. ASSUME NEW e \in Elems(a), NEW f \in Elems(b) PROVE e < f
    <3>1. PICK i \in 1..n : q[i] = e BY <1>11
    <3>2. PICK j \in 1..(L - n) : q[n + j] = f BY <1>12
    <3>3. i < n + j BY <1>4
    <3>4. QED BY <1>4, <1>6, <1>7, <1>14, <3>1, <3>2, <3>3 DEF Sorted
  <2>3. QED BY <2>1, <2>2
<1>15. QED BY <1>5, <1>10, <1>13, <1>14 DEF a, b

-----------------------------------------------------------------------------
(* One place for each event, of queues Q, pending batches P and the events G *)
(* that left                                                                 *)

Typed(Q, P, G, n) ==
    /\ n \in Nat
    /\ Q \in [Users -> Seq(1..n)]
    /\ P \in [Sessions -> SUBSET [id : Nat, events : Seq(1..n)]]
    /\ G \subseteq 1..n

Sound(Q, P, G, n) ==
    /\ \A u \in Users : Inj(Q[u])
    /\ \A s \in Sessions : \A b \in P[s] : Inj(b.events)
    /\ \A u, v \in Users : \A e \in Elems(Q[u]) : e \in Elems(Q[v]) => u = v
    /\ \A s, t \in Sessions : \A b \in P[s], c \in P[t] : \A e \in Elems(b.events) :
         e \in Elems(c.events) => s = t /\ b = c
    /\ \A u \in Users, s \in Sessions : \A b \in P[s] : \A e \in Elems(Q[u]) : e \notin Elems(b.events)
    /\ \A u \in Users : \A e \in Elems(Q[u]) : e \notin G
    /\ \A s \in Sessions : \A b \in P[s] : \A e \in Elems(b.events) : e \notin G
    /\ \A e \in 1..n : \/ e \in G
                       \/ \E u \in Users : e \in Elems(Q[u])
                       \/ \E s \in Sessions : \E b \in P[s] : e \in Elems(b.events)

LEMMA ElemsIn == ASSUME NEW S, NEW q \in Seq(S) PROVE Elems(q) \subseteq S
<1>1. \A i \in DOMAIN q : q[i] \in S OBVIOUS
<1>2. QED BY <1>1 DEF Elems

LEMMA TypedElems ==
    ASSUME NEW Q, NEW P, NEW G, NEW n, Typed(Q, P, G, n)
    PROVE  /\ \A u \in Users : Elems(Q[u]) \subseteq 1..n
           /\ \A s \in Sessions : \A b \in P[s] : Elems(b.events) \subseteq 1..n
  BY ElemsIn DEF Typed

\* A new event goes to one queue.
LEMMA SoundPut ==
    ASSUME NEW Q, NEW P, NEW G, NEW n, Typed(Q, P, G, n), Sound(Q, P, G, n), NEW u \in Users
    PROVE  Sound([Q EXCEPT ![u] = Put(@, n + 1)], P, G, n + 1)
<1> DEFINE p == Put(Q[u], n + 1)
           R == [Q EXCEPT ![u] = p]
<1>1. Q[u] \in Seq(1..n) /\ Q[u] \in Seq(1..(n + 1)) /\ n \in Nat /\ n + 1 \notin 1..n /\ n + 1 \in 1..(n + 1)
  BY DEF Typed
<1>2. Elems(p) = Elems(Q[u]) \cup {n + 1} BY <1>1, PutElems
<1>3. /\ \A v \in Users : n + 1 \notin Elems(Q[v])
      /\ \A s \in Sessions : \A b \in P[s] : n + 1 \notin Elems(b.events)
      /\ n + 1 \notin G
  BY <1>1, TypedElems DEF Typed
<1>4. Inj(p) BY <1>1, <1>3, PutInj DEF Sound
<1>5. \A v \in Users : R[v] = IF v = u THEN p ELSE Q[v] BY DEF Typed
<1>6. \A e \in 1..(n + 1) : e \in 1..n \/ e = n + 1 BY <1>1
<1> HIDE DEF p, R
<1>7. Sound(R, P, G, n + 1) BY <1>2, <1>3, <1>4, <1>5, <1>6 DEF Sound
<1>8. QED BY <1>7 DEF R, p

\* A queue changes its order, or loses events that leave.
LEMMA SoundQueue ==
    ASSUME NEW Q, NEW P, NEW G, NEW n, Typed(Q, P, G, n), Sound(Q, P, G, n), NEW u \in Users,
           NEW q, Inj(q), Elems(q) \subseteq Elems(Q[u])
    PROVE  Sound([Q EXCEPT ![u] = q], P, G \cup (Elems(Q[u]) \ Elems(q)), n)
<1> DEFINE R == [Q EXCEPT ![u] = q]
           H == G \cup (Elems(Q[u]) \ Elems(q))
<1>1. \A v \in Users : R[v] = IF v = u THEN q ELSE Q[v] BY DEF Typed
<1>2. \A e : e \in H <=> e \in G \/ (e \in Elems(Q[u]) /\ e \notin Elems(q)) OBVIOUS
<1> HIDE DEF R, H
<1>3. Sound(R, P, H, n) BY <1>1, <1>2 DEF Sound
<1>4. QED BY <1>3 DEF R, H

\* A batch moves from a queue to the batches of a session.
LEMMA SoundTake ==
    ASSUME NEW Q, NEW P, NEW G, NEW n, Typed(Q, P, G, n), Sound(Q, P, G, n), NEW u \in Users,
           NEW s \in Sessions, NEW q, NEW b, Inj(q), Inj(b.events),
           Elems(Q[u]) = Elems(b.events) \cup Elems(q), Elems(b.events) \cap Elems(q) = {}
    PROVE  Sound([Q EXCEPT ![u] = q], [P EXCEPT ![s] = @ \cup {b}], G, n)
<1> DEFINE R == [Q EXCEPT ![u] = q]
           O == [P EXCEPT ![s] = @ \cup {b}]
<1>1. \A v \in Users : R[v] = IF v = u THEN q ELSE Q[v] BY DEF Typed
<1>2. \A t \in Sessions : \A c : c \in O[t] <=> c \in P[t] \/ (t = s /\ c = b) BY DEF Typed
<1> HIDE DEF R, O
<1>3. /\ \A v \in Users : Inj(R[v])
      /\ \A t \in Sessions : \A c \in O[t] : Inj(c.events)
      /\ \A v, w \in Users : \A e \in Elems(R[v]) : e \in Elems(R[w]) => v = w
  BY <1>1, <1>2 DEF Sound
<1>4. \A x, t \in Sessions : \A a \in O[x], c \in O[t] : \A e \in Elems(a.events) :
        e \in Elems(c.events) => x = t /\ a = c
  BY <1>2 DEF Sound
<1>5. \A v \in Users, t \in Sessions : \A c \in O[t] : \A e \in Elems(R[v]) : e \notin Elems(c.events)
  BY <1>1, <1>2 DEF Sound
<1>6. /\ \A v \in Users : \A e \in Elems(R[v]) : e \notin G
      /\ \A t \in Sessions : \A c \in O[t] : \A e \in Elems(c.events) : e \notin G
  BY <1>1, <1>2 DEF Sound
<1>7. \A e \in 1..n : \/ e \in G
                      \/ \E v \in Users : e \in Elems(R[v])
                      \/ \E t \in Sessions : \E c \in O[t] : e \in Elems(c.events)
  BY <1>1, <1>2 DEF Sound
<1>8. Sound(R, O, G, n) BY <1>3, <1>4, <1>5, <1>6, <1>7 DEF Sound
<1>9. QED BY <1>8 DEF R, O

\* Batches of a session leave.
LEMMA SoundClear ==
    ASSUME NEW Q, NEW P, NEW G, NEW n, Typed(Q, P, G, n), Sound(Q, P, G, n),
           NEW s \in Sessions, NEW gone \in SUBSET P[s]
    PROVE  Sound(Q, [P EXCEPT ![s] = @ \ gone], G \cup UNION {Elems(b.events) : b \in gone}, n)
<1> DEFINE O == [P EXCEPT ![s] = @ \ gone]
           H == G \cup UNION {Elems(b.events) : b \in gone}
<1>1. \A t \in Sessions : \A c : c \in O[t] <=> c \in P[t] /\ ~(t = s /\ c \in gone) BY DEF Typed
<1>2. \A e : e \in H <=> e \in G \/ \E b \in gone : e \in Elems(b.events) OBVIOUS
<1> HIDE DEF O, H
<1>3. \A t \in Sessions : O[t] \subseteq P[t] BY <1>1
<1>4. /\ \A t \in Sessions : \A c \in O[t] : Inj(c.events)
      /\ \A x, t \in Sessions : \A a \in O[x], c \in O[t] : \A e \in Elems(a.events) :
           e \in Elems(c.events) => x = t /\ a = c
      /\ \A v \in Users, t \in Sessions : \A c \in O[t] : \A e \in Elems(Q[v]) : e \notin Elems(c.events)
  BY <1>3 DEF Sound
<1>5. \A v \in Users : \A e \in Elems(Q[v]) : e \notin H BY <1>2 DEF Sound
<1>6. \A t \in Sessions : \A c \in O[t] : \A e \in Elems(c.events) : e \notin H
  BY <1>1, <1>2 DEF Sound
<1>7. \A e \in 1..n : \/ e \in H
                      \/ \E v \in Users : e \in Elems(Q[v])
                      \/ \E t \in Sessions : \E c \in O[t] : e \in Elems(c.events)
  BY <1>1, <1>2 DEF Sound
<1>8. Sound(Q, O, H, n) BY <1>4, <1>5, <1>6, <1>7 DEF Sound
<1>9. QED BY <1>8 DEF O, H

\* Everything leaves at once.
LEMMA SoundLose ==
    ASSUME NEW Q, NEW P, NEW G, NEW n, Typed(Q, P, G, n), Sound(Q, P, G, n),
           NEW H, \A e \in 1..n : e \in H
    PROVE  Sound([u \in Users |-> <<>>], [s \in Sessions |-> {}], H, n)
  BY DEF Sound, Inj, Elems

-----------------------------------------------------------------------------
(* What a step does to the events *)

Gone == popped \cup acked \cup expired \cup lost
Apart == /\ popped \cap acked = {} /\ popped \cap expired = {} /\ popped \cap lost = {}
         /\ acked \cap expired = {} /\ acked \cap lost = {} /\ expired \cap lost = {}

Stays == UNCHANGED <<added, queue, pending, popped, acked, expired, lost>>
Puts(u) == PutEvent(u) /\ UNCHANGED <<pending, popped, acked, expired, lost>>
Rotates(u) ==
    /\ queue[u] # <<>>
    /\ queue' = [queue EXCEPT ![u] = Rotate(@)]
    /\ UNCHANGED <<added, pending, popped, acked, expired, lost>>
Pops(u) ==
    /\ queue' = [queue EXCEPT ![u] = Pop(@)]
    /\ popped' = popped \cup (Elems(queue[u]) \ Elems(queue'[u]))
    /\ UNCHANGED <<added, pending, acked, expired, lost>>
Takes(s, u) ==
    /\ queue' = [queue EXCEPT ![u] = AfterBatch(@, MaxBatch)]
    /\ pending' = [pending EXCEPT ![s] =
                     @ \cup {[id |-> batches[s] + 1, events |-> Batch(queue[u], MaxBatch)]}]
    /\ UNCHANGED <<added, popped, acked, expired, lost>>
Clears(s, gone) ==
    /\ pending' = [pending EXCEPT ![s] = @ \ gone]
    /\ UNCHANGED <<added, queue, popped, lost>>
    /\ LET events == UNION {Elems(b.events) : b \in gone}
       IN  \/ acked' = acked \cup events /\ UNCHANGED expired
           \/ expired' = expired \cup events /\ UNCHANGED acked
Loses ==
    /\ queue' = [u \in Users |-> <<>>]
    /\ pending' = [s \in Sessions |-> {}]
    /\ lost' = lost \cup UNION ({Elems(queue[u]) : u \in Users} \cup {InPending(s) : s \in Sessions})
    /\ UNCHANGED <<added, popped, acked, expired>>

EventStep ==
    \/ Stays
    \/ \E u \in Users : Puts(u) \/ Rotates(u) \/ Pops(u)
    \/ \E s \in Sessions, u \in Users : Takes(s, u)
    \/ \E s \in Sessions : \E gone \in SUBSET pending[s] : Clears(s, gone)
    \/ Loses

LEMMA NextIs == ASSUME TInv, [Next]_vars PROVE EventStep
<1> TypeOK /\ SessionInv BY DEF TInv
<1> USE DEF hookVars, handlerVars, netVars, fateVars
<1>1. ASSUME NEW u \in Users, UserStep(u) PROVE EventStep
  <2>1. CASE AddEvent(u) BY <2>1 DEF AddEvent, Puts, EventStep
  <2>2. CASE RegisterHook(u) \/ UnregisterHook(u)
    BY <2>2 DEF RegisterHook, UnregisterHook, Stays, EventStep
  <2>3. QED BY <1>1, <2>1, <2>2 DEF UserStep
<1>2. ASSUME NEW s \in Sessions, SyncWait(s) PROVE EventStep
  <2>1. user[s] \in Users BY <1>2 DEF SessionInv, SyncWait, Attached
  <2>2. Rotates(user[s]) BY <1>2 DEF SyncWait, Rotates
  <2>3. QED BY <2>1, <2>2 DEF EventStep
<1>3. ASSUME NEW s \in Sessions, SyncReply(s) PROVE EventStep
  <2>1. user[s] \in Users BY <1>3 DEF SessionInv, SyncReply, Attached
  <2>2. Pops(user[s]) \/ Stays BY <1>3 DEF SyncReply, Pops, Stays
  <2>3. QED BY <2>1, <2>2 DEF EventStep
<1>4. ASSUME NEW s \in Sessions, AsyncTake(s) PROVE EventStep
  <2>1. user[s] \in Users BY <1>4 DEF SessionInv, AsyncTake, Attached
  <2>2. Takes(s, user[s]) BY <1>4 DEF AsyncTake, Takes
  <2>3. QED BY <2>1, <2>2 DEF EventStep
<1>5. ASSUME NEW s \in Sessions, RecvAck(s) PROVE EventStep
  <2> DEFINE gone == AckedBy(s, Head(inbox[s]).id)
  <2>1. gone \in SUBSET pending[s] BY DEF AckedBy
  <2>2. Clears(s, gone) BY <1>5 DEF RecvAck, Clears
  <2>3. QED BY <2>1, <2>2 DEF EventStep
<1>6. ASSUME NEW s \in Sessions, AckCleanup(s) PROVE EventStep
  <2>1. PICK k \in 1..batches[s] :
          /\ pending' = [pending EXCEPT ![s] = @ \ SentUpTo(s, k)]
          /\ expired' = expired \cup UNION {Elems(b.events) : b \in SentUpTo(s, k)}
    BY <1>6 DEF AckCleanup
  <2>2. SentUpTo(s, k) \in SUBSET pending[s] BY DEF SentUpTo
  <2>3. Clears(s, SentUpTo(s, k)) BY <1>6, <2>1 DEF AckCleanup, Clears
  <2>4. QED BY <2>2, <2>3 DEF EventStep
<1>7. ASSUME NEW s \in Sessions, RecvReq(s) PROVE EventStep
  <2>1. user[s] \in Users BY <1>7 DEF RecvReq, SessionInv, Attached
  <2>2. Puts(user[s]) BY <1>7 DEF RecvReq, Puts
  <2>3. QED BY <2>1, <2>2 DEF EventStep
<1>8. ASSUME NEW s \in Sessions,
             \/ Connect(s) \/ (\E code \in Codes \cup {NoCode} : RecvSync(s, code))
             \/ (\E mode \in Modes \cup {"bad"} : RecvMode(s, mode))
             \/ ReadRaises(s) \/ RecvIgnored(s) \/ ListenerStops(s) \/ ClientStep(s)
      PROVE  Stays
  BY <1>8 DEF Connect, RecvSync, RecvMode, ReadRaises, RecvIgnored, ListenerStops, ClientStep,
     ClientRecv, ClientReply, ClientAck, ClientReq, ClientSend, Disconnect, Stays
<1>9. CASE Restart BY <1>9 DEF Restart, Loses, EventStep
<1>10. CASE UNCHANGED vars BY <1>10 DEF vars, Stays, EventStep
<1>11. ASSUME NEW s \in Sessions, HandlerStep(s) \/ ClientStep(s) PROVE EventStep
  BY <1>2, <1>3, <1>4, <1>5, <1>6, <1>7, <1>8, <1>11 DEF HandlerStep, EventStep
<1>12. QED BY <1>1, <1>9, <1>10, <1>11 DEF Next

IPlace == Sound(queue, pending, Gone, Len(added)) /\ Apart

LEMMA TypeIs == ASSUME TypeOK PROVE Typed(queue, pending, Gone, Len(added)) /\ Len(added) \in Nat
<1>1. Len(added) \in Nat BY DEF TypeOK
<1>2. QED BY <1>1 DEF TypeOK, Typed, Ids, Gone

LEMMA NextIPlace == ASSUME TInv, IPlace, [Next]_vars PROVE IPlace'
<1> TypeOK BY DEF TInv
<1> DEFINE n == Len(added)
<1>1. Typed(queue, pending, Gone, n) /\ n \in Nat BY TypeIs
<1>2. Sound(queue, pending, Gone, n) /\ Apart BY DEF IPlace
<1> HIDE DEF n
<1>3. CASE Stays BY <1>2, <1>3 DEF Stays, IPlace, Gone, Apart, n
<1>4. ASSUME NEW u \in Users, Puts(u) PROVE IPlace'
  <2>1. queue' = [queue EXCEPT ![u] = Put(@, n + 1)] /\ Len(added') = n + 1
    BY <1>4 DEF Puts, PutEvent, n, TypeOK
  <2>2. Sound(queue', pending, Gone, n + 1) BY <1>1, <1>2, <2>1, SoundPut
  <2>3. QED BY <1>2, <1>4, <2>1, <2>2 DEF Puts, IPlace, Gone, Apart
<1>5. ASSUME NEW u \in Users, Rotates(u) PROVE IPlace'
  <2>1. queue[u] \in Seq(1..n) /\ Inj(queue[u]) BY <1>1, <1>2 DEF Typed, Sound
  <2>2. Inj(Rotate(queue[u])) /\ Elems(Rotate(queue[u])) = Elems(queue[u])
    BY <1>5, <2>1, RotateInj, RotateElems DEF Rotates
  <2>3. queue' = [queue EXCEPT ![u] = Rotate(queue[u])] BY <1>5 DEF Rotates
  <2>4. Sound(queue', pending, Gone \cup (Elems(queue[u]) \ Elems(Rotate(queue[u]))), n)
    BY <1>1, <1>2, <2>2, <2>3, SoundQueue
  <2>5. Gone \cup (Elems(queue[u]) \ Elems(Rotate(queue[u]))) = Gone BY <2>2
  <2>6. QED BY <1>2, <1>5, <2>4, <2>5 DEF Rotates, IPlace, Gone, Apart, n
<1>6. ASSUME NEW u \in Users, Pops(u) PROVE IPlace'
  <2>1. queue[u] \in Seq(1..n) /\ Inj(queue[u]) BY <1>1, <1>2 DEF Typed, Sound
  <2>2. Inj(Pop(queue[u])) /\ Elems(Pop(queue[u])) \subseteq Elems(queue[u])
    BY <2>1, PopInj, PopElems
  <2>3. queue' = [queue EXCEPT ![u] = Pop(queue[u])] /\ queue'[u] = Pop(queue[u])
    BY <1>6 DEF Pops, TypeOK
  <2> DEFINE out == Elems(queue[u]) \ Elems(Pop(queue[u]))
  <2>4. Sound(queue', pending, Gone \cup out, n) BY <1>1, <1>2, <2>2, <2>3, SoundQueue
  <2>5. popped' = popped \cup out BY <1>6, <2>3 DEF Pops
  <2>6. \A e \in out : e \notin Gone BY <1>2 DEF Sound
  <2> HIDE DEF out
  <2>7. Gone' = Gone \cup out BY <1>6, <2>5 DEF Pops, Gone
  <2>8. Apart' BY <1>2, <1>6, <2>5, <2>6 DEF Pops, Apart, Gone
  <2>9. QED BY <1>6, <2>4, <2>7, <2>8 DEF Pops, IPlace, n
<1>7. ASSUME NEW s \in Sessions, NEW u \in Users, Takes(s, u) PROVE IPlace'
  <2> DEFINE a == Batch(queue[u], MaxBatch)
             b == AfterBatch(queue[u], MaxBatch)
             entry == [id |-> batches[s] + 1, events |-> a]
  <2>1. queue[u] \in Seq(1..n) /\ Inj(queue[u]) /\ MaxBatch \in Nat
    BY <1>1, <1>2, HookAssumption DEF Typed, Sound
  <2>2. /\ Elems(queue[u]) = Elems(a) \cup Elems(b)
        /\ Inj(a) /\ Inj(b) /\ Elems(a) \cap Elems(b) = {}
    BY <2>1, BatchSplit
  <2>3. entry.events = a OBVIOUS
  <2>4. /\ queue' = [queue EXCEPT ![u] = b]
        /\ pending' = [pending EXCEPT ![s] = @ \cup {entry}]
    BY <1>7 DEF Takes
  <2> HIDE DEF a, b, entry
  <2>5. Sound(queue', pending', Gone, n) BY <1>1, <1>2, <2>2, <2>3, <2>4, SoundTake
  <2>6. QED BY <1>2, <1>7, <2>5 DEF Takes, IPlace, Gone, Apart, n
<1>8. ASSUME NEW s \in Sessions, NEW gone \in SUBSET pending[s], Clears(s, gone) PROVE IPlace'
  <2> DEFINE out == UNION {Elems(b.events) : b \in gone}
  <2>1. Sound(queue, pending', Gone \cup out, n) BY <1>1, <1>2, <1>8, SoundClear DEF Clears
  <2>2. \A e \in out : e \notin Gone BY <1>2 DEF Sound
  <2>3. \/ acked' = acked \cup out /\ UNCHANGED expired
        \/ expired' = expired \cup out /\ UNCHANGED acked
    BY <1>8 DEF Clears
  <2> HIDE DEF out
  <2>4. UNCHANGED <<added, queue, popped, lost>> BY <1>8 DEF Clears
  <2>5. Gone' = Gone \cup out BY <2>3, <2>4 DEF Gone
  <2>6. Apart' BY <1>2, <2>2, <2>3, <2>4 DEF Apart, Gone
  <2>7. QED BY <2>1, <2>4, <2>5, <2>6 DEF IPlace, n
<1>9. CASE Loses
  <2> DEFINE out == UNION ({Elems(queue[u]) : u \in Users} \cup {InPending(s) : s \in Sessions})
  <2>1. /\ \A u \in Users : \A e \in Elems(queue[u]) : e \in out
        /\ \A s \in Sessions : \A b \in pending[s] : \A e \in Elems(b.events) : e \in out
    <3>1. \A u \in Users : \A e \in Elems(queue[u]) : e \in out OBVIOUS
    <3>2. \A s \in Sessions : \A e \in InPending(s) : e \in out OBVIOUS
    <3>3. \A s \in Sessions : \A b \in pending[s] : \A e \in Elems(b.events) : e \in InPending(s)
      BY DEF InPending
    <3>4. QED BY <3>1, <3>2, <3>3
  <2>2. \A e \in out : e \notin Gone
    <3>1. \A u \in Users : \A e \in Elems(queue[u]) : e \notin Gone BY <1>2 DEF Sound
    <3>2. \A s \in Sessions : \A e \in InPending(s) : e \notin Gone BY <1>2 DEF Sound, InPending
    <3>3. QED BY <3>1, <3>2
  <2>3. lost' = lost \cup out BY <1>9 DEF Loses
  <2> HIDE DEF out
  <2>4. Gone' = Gone \cup out BY <1>9, <2>3 DEF Loses, Gone
  <2>5. \A e \in 1..n : e \in Gone' BY <1>2, <2>1, <2>4 DEF Sound
  <2>6. Sound(queue', pending', Gone', n) BY <1>1, <1>2, <1>9, <2>5, SoundLose DEF Loses
  <2>7. Apart' BY <1>2, <1>9, <2>2, <2>3 DEF Loses, Apart, Gone
  <2>8. QED BY <1>9, <2>6, <2>7 DEF Loses, IPlace, n
<1>10. QED BY NextIs, <1>3, <1>4, <1>5, <1>6, <1>7, <1>8, <1>9 DEF EventStep

LEMMA SpecIPlace == Spec => [](TInv /\ IPlace)
<1>1. Init => IPlace
  <2> SUFFICES ASSUME Init PROVE IPlace OBVIOUS
  <2>1. Elems(<<>>) = {} /\ Inj(<<>>) BY DEF Elems, Inj
  <2>2. Len(added) = 0 /\ Gone = {} /\ Apart BY DEF Init, Gone, Apart
  <2>3. 1..Len(added) = {} BY <2>2
  <2>4. Sound(queue, pending, Gone, Len(added)) BY <2>1, <2>2, <2>3 DEF Init, Sound
  <2>5. QED BY <2>2, <2>4 DEF IPlace
<1>2. TInv /\ IPlace /\ [Next]_vars => (TInv /\ IPlace)' BY NextTInv, NextIPlace
<1>3. QED BY InitTInv, <1>1, <1>2, PTL DEF Spec

\* The four ways an event can have left, as Places lists them.
Left(e) == {f \in {"popped", "acked", "expired", "lost"} :
              e \in CASE f = "popped" -> popped [] f = "acked" -> acked
                      [] f = "expired" -> expired [] f = "lost" -> lost}

LEMMA LeftIs == ASSUME Apart, NEW e
                PROVE  IF e \in Gone THEN \E f : Left(e) = {f} ELSE Left(e) = {}
<1>1. /\ "popped" \in Left(e) <=> e \in popped
      /\ "acked" \in Left(e) <=> e \in acked
      /\ "expired" \in Left(e) <=> e \in expired
      /\ "lost" \in Left(e) <=> e \in lost
  BY DEF Left
<1>2. Left(e) \subseteq {"popped", "acked", "expired", "lost"} BY DEF Left
<1>3. CASE e \in popped
  <2>1. Left(e) = {"popped"} BY <1>1, <1>2, <1>3 DEF Apart
  <2>2. QED BY <1>3, <2>1 DEF Gone
<1>4. CASE e \in acked
  <2>1. Left(e) = {"acked"} BY <1>1, <1>2, <1>4 DEF Apart
  <2>2. QED BY <1>4, <2>1 DEF Gone
<1>5. CASE e \in expired
  <2>1. Left(e) = {"expired"} BY <1>1, <1>2, <1>5 DEF Apart
  <2>2. QED BY <1>5, <2>1 DEF Gone
<1>6. CASE e \in lost
  <2>1. Left(e) = {"lost"} BY <1>1, <1>2, <1>6 DEF Apart
  <2>2. QED BY <1>6, <2>1 DEF Gone
<1>7. CASE e \notin Gone
  <2>1. Left(e) = {} BY <1>1, <1>2, <1>7 DEF Gone
  <2>2. QED BY <1>7, <2>1
<1>8. QED BY <1>3, <1>4, <1>5, <1>6, <1>7 DEF Gone

LEMMA PlacesAre ==
    ASSUME NEW e, NEW x
    PROVE  x \in Places(e) <=>
             \/ \E u \in Users : \E i \in DOMAIN queue[u] : queue[u][i] = e /\ x = <<"queue", u, i>>
             \/ \E s \in Sessions : \E b \in pending[s] : \E i \in DOMAIN b.events :
                  b.events[i] = e /\ x = <<s, b.id, i>>
             \/ x \in Left(e)
<1> DEFINE M(u) == {<<"queue", u, i>> : i \in {j \in DOMAIN queue[u] : queue[u][j] = e}}
           B(s, b) == {<<s, b.id, i>> : i \in {j \in DOMAIN b.events : b.events[j] = e}}
           N(s) == UNION {B(s, b) : b \in pending[s]}
<1>1. \A u : x \in M(u) <=> \E i \in DOMAIN queue[u] : queue[u][i] = e /\ x = <<"queue", u, i>> OBVIOUS
<1>2. \A s, b : x \in B(s, b) <=> \E i \in DOMAIN b.events : b.events[i] = e /\ x = <<s, b.id, i>> OBVIOUS
<1>3. Places(e) = (UNION {M(u) : u \in Users}) \cup (UNION {N(s) : s \in Sessions}) \cup Left(e)
  BY DEF Places, Left
<1> HIDE DEF B
<1>4. \A s : x \in N(s) <=> \E b \in pending[s] : x \in B(s, b) OBVIOUS
<1> HIDE DEF M, N
<1>5. x \in UNION {M(u) : u \in Users} <=> \E u \in Users : x \in M(u) OBVIOUS
<1>6. x \in UNION {N(s) : s \in Sessions} <=> \E s \in Sessions : x \in N(s) OBVIOUS
<1>7. x \in Places(e) <=> \/ \E u \in Users : x \in M(u)
                          \/ \E s \in Sessions : x \in N(s)
                          \/ x \in Left(e)
  BY <1>3, <1>5, <1>6, Zenon
<1>8. QED BY <1>1, <1>2, <1>4, <1>7

LEMMA OneOf ==
    ASSUME NEW S, NEW x \in S, \A y \in S : y = x
    PROVE  Cardinality(S) = 1
<1>1. S = {x} OBVIOUS
<1>2. QED BY <1>1, FS_Singleton

\* Every event is in one queue slot, in one slot of one pending batch, or left
\* the server in one way, whatever hookers compete for its queue.
THEOREM OnePlaceHolds == Spec => []OnePlace
<1>1. ASSUME TypeOK, IPlace, NEW e \in Ids PROVE Cardinality(Places(e)) = 1
  <2>1. Sound(queue, pending, Gone, Len(added)) /\ Apart BY <1>1 DEF IPlace
  <2>2. CASE e \in Gone
    <3>1. PICK f : Left(e) = {f} BY <2>1, <2>2, LeftIs
    <3>2. /\ \A u \in Users : e \notin Elems(queue[u])
          /\ \A s \in Sessions : \A b \in pending[s] : e \notin Elems(b.events)
      BY <2>1, <2>2 DEF Sound
    <3>3. /\ \A u \in Users : \A i \in DOMAIN queue[u] : queue[u][i] # e
          /\ \A s \in Sessions : \A b \in pending[s] : \A i \in DOMAIN b.events : b.events[i] # e
      BY <3>2, ElemsOf
    <3>4. f \in Places(e) /\ \A x \in Places(e) : x = f BY <3>1, <3>3, PlacesAre
    <3>5. QED BY <3>4, OneOf
  <2>3. ASSUME e \notin Gone, NEW u \in Users, e \in Elems(queue[u]) PROVE Cardinality(Places(e)) = 1
    <3>1. PICK i \in DOMAIN queue[u] : queue[u][i] = e BY <2>3, ElemsOf
    <3>2. <<"queue", u, i>> \in Places(e) BY <3>1, PlacesAre
    <3>3. \A v \in Users : \A j \in DOMAIN queue[v] : queue[v][j] = e => v = u /\ j = i
      <4>1. \A v \in Users : e \in Elems(queue[v]) => v = u BY <2>1, <2>3 DEF Sound
      <4>2. \A j \in DOMAIN queue[u] : queue[u][j] = e => j = i BY <2>1, <3>1 DEF Sound, Inj
      <4>3. QED BY <4>1, <4>2, ElemsOf
    <3>4. \A s \in Sessions : \A b \in pending[s] : \A j \in DOMAIN b.events : b.events[j] # e
      <4>1. \A s \in Sessions : \A b \in pending[s] : e \notin Elems(b.events)
        BY <2>1, <2>3 DEF Sound
      <4>2. QED BY <4>1, ElemsOf
    <3>5. Left(e) = {} BY <2>1, <2>3, LeftIs
    <3>6. \A x \in Places(e) : x = <<"queue", u, i>> BY <3>3, <3>4, <3>5, PlacesAre
    <3>7. QED BY <3>2, <3>6, OneOf
  <2>4. ASSUME e \notin Gone, NEW s \in Sessions, NEW b \in pending[s], e \in Elems(b.events)
        PROVE  Cardinality(Places(e)) = 1
    <3>1. PICK i \in DOMAIN b.events : b.events[i] = e BY <2>4, ElemsOf
    <3>2. <<s, b.id, i>> \in Places(e) BY <3>1, PlacesAre
    <3>3. \A u \in Users : \A j \in DOMAIN queue[u] : queue[u][j] # e
      <4>1. \A u \in Users : e \notin Elems(queue[u]) BY <2>1, <2>4 DEF Sound
      <4>2. QED BY <4>1, ElemsOf
    <3>4. \A t \in Sessions : \A c \in pending[t] : \A j \in DOMAIN c.events :
            c.events[j] = e => t = s /\ c = b /\ j = i
      <4>1. \A t \in Sessions : \A c \in pending[t] : e \in Elems(c.events) => t = s /\ c = b
        BY <2>1, <2>4 DEF Sound
      <4>2. \A j \in DOMAIN b.events : b.events[j] = e => j = i BY <2>1, <3>1 DEF Sound, Inj
      <4>3. QED BY <4>1, <4>2, ElemsOf
    <3>5. Left(e) = {} BY <2>1, <2>4, LeftIs
    <3>6. \A x \in Places(e) : x = <<s, b.id, i>> BY <3>3, <3>4, <3>5, PlacesAre
    <3>7. QED BY <3>2, <3>6, OneOf
  <2>5. QED BY <2>1, <2>2, <2>3, <2>4 DEF Sound, Ids
<1>2. TInv /\ IPlace => OnePlace BY <1>1 DEF OnePlace, TInv
<1>3. QED BY <1>2, SpecIPlace, PTL

-----------------------------------------------------------------------------
(* The order of a queue that only ASYNC hookers read *)

\* No SYNC loop runs, and the queues are as AsyncInOrder says.
Fifo(Q, A, n) ==
    \A u \in Users :
      /\ Sorted(Q[u])
      /\ \A e \in (1..n) \ Elems(Q[u]) : \A f \in Elems(Q[u]) : A[e] = u => e < f
IOrder ==
    "sync" \notin Modes =>
      /\ \A s \in Sessions : pc[s] \notin {"syncWait", "syncReply"}
      /\ Fifo(queue, added, Len(added))

LEMMA PutSorted == ASSUME NEW n \in Nat, NEW q \in Seq(1..n), Sorted(q)
                   PROVE  Sorted(Put(q, n + 1))
<1>1. /\ DOMAIN Put(q, n + 1) = 1..(Len(q) + 1)
      /\ \A i \in 1..Len(q) : Put(q, n + 1)[i] = q[i]
      /\ Put(q, n + 1)[Len(q) + 1] = n + 1
  BY DEF Put
<1> DEFINE p == Put(q, n + 1)
           L == Len(q)
<1>2. L \in Nat /\ DOMAIN q = 1..L /\ \A i \in 1..L : q[i] \in 1..n OBVIOUS
<1>3. DOMAIN p = 1..(L + 1) /\ (\A i \in 1..L : p[i] = q[i]) /\ p[L + 1] = n + 1 BY <1>1
<1> HIDE DEF p, L
<1>4. ASSUME NEW i \in 1..(L + 1), NEW j \in 1..(L + 1), i < j PROVE p[i] < p[j]
  <2>1. i \in 1..L BY <1>2, <1>4
  <2>2. CASE j \in 1..L BY <1>2, <1>3, <1>4, <2>1, <2>2 DEF Sorted
  <2>3. CASE j = L + 1 BY <1>2, <1>3, <2>1, <2>3
  <2>4. QED BY <1>2, <2>2, <2>3
<1>5. Sorted(p) BY <1>3, <1>4 DEF Sorted
<1>6. QED BY <1>5 DEF p

LEMMA NextIOrder == ASSUME TInv, IOrder, [Next]_vars PROVE IOrder'
<1> TypeOK /\ SessionInv BY DEF TInv
<1> SUFFICES ASSUME "sync" \notin Modes
    PROVE /\ \A s \in Sessions : pc'[s] \notin {"syncWait", "syncReply"}
          /\ Fifo(queue', added', Len(added'))
  BY DEF IOrder
<1> DEFINE n == Len(added)
<1>1. (\A s \in Sessions : pc[s] \notin {"syncWait", "syncReply"}) /\ Fifo(queue, added, n) BY DEF IOrder
<1>2. n \in Nat /\ added \in Seq(Users) /\ queue \in [Users -> Seq(1..n)] BY DEF TypeOK, Ids
<1> HIDE DEF n
<1>3. \A s \in Sessions : pc'[s] \notin {"syncWait", "syncReply"}
  <2>1. ASSUME NEW s \in Sessions, HandlerStep(s) PROVE \A t \in Sessions : pc'[t] \notin {"syncWait", "syncReply"}
    BY <1>1, <2>1 DEF HandlerStep, Connect, RecvSync, RecvMode, ReadRaises, SyncWait, SyncReply,
       AsyncTake, RecvAck, RecvReq, RecvIgnored, ListenerStops, AckCleanup, Goto, handlerVars, TypeOK
  <2>2. ASSUME NEW s \in Sessions, ClientStep(s) PROVE pc' = pc
    BY <2>2 DEF ClientStep, ClientRecv, ClientReply, ClientAck, ClientReq, ClientSend, Disconnect, handlerVars
  <2>3. ASSUME NEW u \in Users, UserStep(u) PROVE pc' = pc
    BY <2>3 DEF UserStep, RegisterHook, UnregisterHook, AddEvent, handlerVars
  <2>4. Restart => \A s \in Sessions : pc'[s] \in {"free", "closed"} BY DEF Restart
  <2>5. UNCHANGED vars => pc' = pc BY DEF vars, handlerVars
  <2>6. QED BY <1>1, <2>1, <2>2, <2>3, <2>4, <2>5 DEF Next
\* With no SYNC loop a queue changes by a put, by a batch or by a restart.
<1>4. \/ UNCHANGED <<queue, added>>
      \/ \E u \in Users : PutEvent(u)
      \/ \E u \in Users : queue' = [queue EXCEPT ![u] = AfterBatch(@, MaxBatch)] /\ added' = added
      \/ Loses
  <2> USE DEF hookVars, handlerVars, netVars, fateVars
  <2>1. ASSUME NEW s \in Sessions, AsyncTake(s)
        PROVE \E u \in Users : queue' = [queue EXCEPT ![u] = AfterBatch(@, MaxBatch)] /\ added' = added
    BY <2>1 DEF AsyncTake, SessionInv, Attached
  <2>2. ASSUME NEW s \in Sessions, RecvReq(s) PROVE \E u \in Users : PutEvent(u)
    BY <2>2 DEF RecvReq, SessionInv, Attached
  <2>3. ASSUME NEW s \in Sessions, HandlerStep(s), ~AsyncTake(s), ~RecvReq(s) PROVE UNCHANGED <<queue, added>>
    BY <1>1, <2>3 DEF HandlerStep, Connect, RecvSync, RecvMode, ReadRaises, SyncWait, SyncReply,
       RecvAck, RecvIgnored, ListenerStops, AckCleanup
  <2>4. ASSUME NEW s \in Sessions, ClientStep(s) PROVE UNCHANGED <<queue, added>>
    BY <2>4 DEF ClientStep, ClientRecv, ClientReply, ClientAck, ClientReq, ClientSend, Disconnect
  <2>5. ASSUME NEW u \in Users, UserStep(u) PROVE PutEvent(u) \/ UNCHANGED <<queue, added>>
    BY <2>5 DEF UserStep, RegisterHook, UnregisterHook, AddEvent
  <2>6. CASE Restart BY <2>6 DEF Restart, Loses
  <2>7. CASE UNCHANGED vars BY <2>7 DEF vars
  <2>8. QED BY <2>1, <2>2, <2>3, <2>4, <2>5, <2>6, <2>7 DEF Next
<1>5. ASSUME NEW u \in Users, PutEvent(u) PROVE Fifo(queue', added', Len(added'))
  <2> DEFINE p == Put(queue[u], n + 1)
  <2>1. Len(added') = n + 1 /\ added'[n + 1] = u /\ \A e \in 1..n : added'[e] = added[e]
    BY <1>2, <1>5 DEF PutEvent, n
  <2>2. queue[u] \in Seq(1..n) /\ Sorted(queue[u]) BY <1>1, <1>2 DEF Fifo
  <2>3. Sorted(p) BY <1>2, <2>2, PutSorted
  <2>4. Elems(p) = Elems(queue[u]) \cup {n + 1}
    <3>1. queue[u] \in Seq(1..(n + 1)) /\ n + 1 \in 1..(n + 1) BY <1>2, <2>2
    <3>2. QED BY <3>1, PutElems
  <2>5. \A v \in Users : queue'[v] = IF v = u THEN p ELSE queue[v] BY <1>5 DEF PutEvent, TypeOK, n
  <2> HIDE DEF p
  <2>6. \A e \in 1..(n + 1) : e \in 1..n \/ e = n + 1 BY <1>2
  <2>7. \A e \in 1..n : e < n + 1 BY <1>2
  <2>8. ASSUME NEW v \in Users, NEW e \in (1..(n + 1)) \ Elems(queue'[v]), NEW f \in Elems(queue'[v]),
               added'[e] = v
        PROVE  e < f
    <3>1. CASE v = u
      <4>1. e \in 1..n /\ added[e] = u /\ e \notin Elems(queue[u]) BY <2>1, <2>4, <2>5, <2>6, <2>8, <3>1
      <4>2. CASE f = n + 1 BY <2>7, <4>1, <4>2
      <4>3. CASE f \in Elems(queue[u]) BY <1>1, <4>1, <4>3 DEF Fifo
      <4>4. QED BY <2>4, <2>5, <3>1, <4>2, <4>3
    <3>2. CASE v # u
      <4>1. e \in 1..n /\ added[e] = v /\ e \notin Elems(queue[v]) /\ f \in Elems(queue[v])
        BY <2>1, <2>5, <2>6, <2>8, <3>2
      <4>2. QED BY <1>1, <4>1 DEF Fifo
    <3>3. QED BY <3>1, <3>2
  <2>9. \A v \in Users : Sorted(queue'[v]) BY <1>1, <2>3, <2>5 DEF Fifo
  <2>10. QED BY <2>1, <2>8, <2>9 DEF Fifo
<1>6. ASSUME NEW u \in Users, queue' = [queue EXCEPT ![u] = AfterBatch(@, MaxBatch)], added' = added
      PROVE  Fifo(queue', added', Len(added'))
  <2> DEFINE a == Batch(queue[u], MaxBatch)
             b == AfterBatch(queue[u], MaxBatch)
  <2>1. queue[u] \in Seq(1..n) /\ Sorted(queue[u]) /\ 1..n \subseteq Nat /\ MaxBatch \in Nat
    BY <1>1, <1>2, HookAssumption DEF Fifo
  <2>2. /\ Elems(queue[u]) = Elems(a) \cup Elems(b) /\ Sorted(b)
        /\ \A e \in Elems(a) : \A f \in Elems(b) : e < f
    BY <2>1, BatchSplit
  <2>3. \A v \in Users : queue'[v] = IF v = u THEN b ELSE queue[v] BY <1>6 DEF TypeOK
  <2> HIDE DEF a, b
  <2>4. Fifo(queue', added, n) BY <1>1, <2>2, <2>3 DEF Fifo
  <2>5. QED BY <1>6, <2>4 DEF n
<1>7. ASSUME Loses PROVE Fifo(queue', added', Len(added'))
  <2>1. \A u \in Users : Elems(queue'[u]) = {} /\ Sorted(queue'[u]) BY <1>7 DEF Loses, Elems, Sorted
  <2>2. QED BY <2>1 DEF Fifo
<1>8. ASSUME UNCHANGED <<queue, added>> PROVE Fifo(queue', added', Len(added')) BY <1>1, <1>8 DEF n
<1>9. QED BY <1>3, <1>4, <1>5, <1>6, <1>7, <1>8

LEMMA SpecIOrder == Spec => []IOrder
<1>1. Init => IOrder
  <2> SUFFICES ASSUME Init PROVE IOrder OBVIOUS
  <2>1. \A u \in Users : Sorted(queue[u]) /\ Elems(queue[u]) = {} BY DEF Init, Sorted, Elems
  <2>2. QED BY <2>1 DEF Init, IOrder, Fifo
<1>2. TInv /\ IOrder /\ [Next]_vars => (TInv /\ IOrder)' BY NextTInv, NextIOrder
<1>3. QED BY InitTInv, <1>1, <1>2, PTL DEF Spec

\* Where every hooker uses ASYNC mode a queue is first-in first-out, however
\* many sessions compete for it.
THEOREM AsyncInOrderHolds == Spec => []AsyncInOrder
<1>1. IOrder => AsyncInOrder BY DEF IOrder, Fifo, Sorted, AsyncInOrder, Ids
<1>2. QED BY <1>1, SpecIOrder, PTL

-----------------------------------------------------------------------------
(* What a SYNC session has offered *)

\* A session's user never changes once it is known.
LEMMA UserKept == ASSUME TInv, [Next]_vars, NEW t \in Sessions
                  PROVE  user'[t] = user[t] \/ user[t] = NoUser
<1> TypeOK /\ SessionInv BY DEF TInv
<1> USE DEF hookVars, handlerVars, netVars, fateVars
<1>1. ASSUME NEW s \in Sessions, NEW code, RecvSync(s, code) PROVE user'[t] = user[t] \/ user[t] = NoUser
  BY <1>1 DEF RecvSync, SessionInv, TypeOK
<1>2. ASSUME NEW s \in Sessions, HandlerStep(s),
             ~\E code \in Codes \cup {NoCode} : RecvSync(s, code)
      PROVE  user' = user
  BY <1>2 DEF HandlerStep, Connect, RecvMode, ReadRaises, SyncWait, SyncReply,
     AsyncTake, RecvAck, RecvReq, RecvIgnored, ListenerStops, AckCleanup
<1>3. ASSUME NEW s \in Sessions, ClientStep(s) PROVE user' = user
  BY <1>3 DEF ClientStep, ClientRecv, ClientReply, ClientAck, ClientReq, ClientSend, Disconnect
<1>4. ASSUME NEW u \in Users, UserStep(u) PROVE user' = user
  BY <1>4 DEF UserStep, RegisterHook, UnregisterHook, AddEvent
<1>5. Restart \/ UNCHANGED vars => user' = user BY DEF Restart, vars
<1>6. QED BY <1>1, <1>2, <1>3, <1>4, <1>5 DEF Next

\* A queue loses events only to a session of its user, or to a restart.
LEMMA QueueKept ==
    ASSUME TInv, [Next]_vars, NEW u \in Users, NEW e \in Elems(queue[u])
    PROVE  \/ e \in Elems(queue'[u])
           \/ Restart
           \/ \E t \in Sessions : user[t] = u /\ (SyncReply(t) \/ AsyncTake(t))
<1> TypeOK /\ SessionInv BY DEF TInv
<1> USE DEF hookVars, handlerVars, netVars, fateVars
<1>1. ASSUME NEW v \in Users, PutEvent(v) PROVE e \in Elems(queue'[u])
  <2>1. queue[v] \in Seq(Ids') /\ Len(added) + 1 \in Ids'
    <3>1. Ids \subseteq Ids' /\ Len(added) + 1 \in Ids' BY <1>1 DEF PutEvent, TypeOK, Ids
    <3>2. QED BY <3>1, SeqWiden DEF TypeOK
  <2>2. Elems(Put(queue[v], Len(added) + 1)) = Elems(queue[v]) \cup {Len(added) + 1} BY <2>1, PutElems
  <2>3. queue'[u] = IF u = v THEN Put(queue[v], Len(added) + 1) ELSE queue[u]
    BY <1>1 DEF PutEvent, TypeOK
  <2>4. QED BY <2>2, <2>3
<1>2. ASSUME NEW t \in Sessions, SyncWait(t) PROVE e \in Elems(queue'[u])
  <2>1. user[t] \in Users BY <1>2 DEF SyncWait, SessionInv, Attached
  <2>2. queue[user[t]] \in Seq(Ids) /\ queue[user[t]] # <<>> BY <1>2, <2>1 DEF SyncWait, TypeOK
  <2>3. Elems(Rotate(queue[user[t]])) = Elems(queue[user[t]]) BY <2>2, RotateElems
  <2>4. queue'[u] = IF u = user[t] THEN Rotate(queue[u]) ELSE queue[u] BY <1>2 DEF SyncWait, TypeOK
  <2>5. QED BY <2>3, <2>4
<1>3. ASSUME NEW t \in Sessions, SyncReply(t) \/ AsyncTake(t), user[t] # u PROVE queue'[u] = queue[u]
  BY <1>3 DEF SyncReply, AsyncTake, TypeOK
<1>4. ASSUME NEW t \in Sessions, RecvReq(t) PROVE e \in Elems(queue'[u])
  <2>1. user[t] \in Users BY <1>4 DEF RecvReq, SessionInv, Attached
  <2>2. QED BY <1>1, <1>4, <2>1 DEF RecvReq
<1>5. ASSUME NEW t \in Sessions, HandlerStep(t), ~SyncWait(t), ~SyncReply(t), ~AsyncTake(t), ~RecvReq(t)
      PROVE  queue' = queue
  BY <1>5 DEF HandlerStep, Connect, RecvSync, RecvMode, ReadRaises,
     RecvAck, RecvIgnored, ListenerStops, AckCleanup
<1>6. ASSUME NEW t \in Sessions, ClientStep(t) PROVE queue' = queue
  BY <1>6 DEF ClientStep, ClientRecv, ClientReply, ClientAck, ClientReq, ClientSend, Disconnect
<1>7. ASSUME NEW v \in Users, UserStep(v) PROVE e \in Elems(queue'[u])
  BY <1>1, <1>7 DEF UserStep, RegisterHook, UnregisterHook, AddEvent
<1>8. UNCHANGED vars => queue' = queue BY DEF vars
<1>9. ASSUME NEW t \in Sessions, HandlerStep(t)
      PROVE  \/ e \in Elems(queue'[u])
             \/ \E x \in Sessions : user[x] = u /\ (SyncReply(x) \/ AsyncTake(x))
  BY <1>2, <1>3, <1>4, <1>5, <1>9
<1>10. QED BY <1>6, <1>7, <1>8, <1>9 DEF Next

\* A session that starts to wait for a reply has just put its event back.
LEMMA ReplyAwaited ==
    ASSUME TInv, [Next]_vars, NEW s \in Sessions, pc'[s] = "syncReply"
    PROVE  \/ pc[s] = "syncReply" /\ offered'[s] = offered[s] /\ ~SyncReply(s) /\ ~AsyncTake(s) /\ ~Restart
           \/ SyncWait(s)
<1> TypeOK /\ SessionInv BY DEF TInv
<1> USE DEF hookVars, handlerVars, netVars, fateVars
<1>1. ~Restart BY DEF Restart
<1>2. ~SyncReply(s) /\ ~AsyncTake(s)
  <2>1. SyncReply(s) => pc'[s] = "syncWait" BY DEF SyncReply, Goto, TypeOK
  <2>2. AsyncTake(s) => pc'[s] = "async" BY DEF AsyncTake, TypeOK
  <2>3. QED BY <2>1, <2>2
<1>3. ASSUME NEW t \in Sessions, HandlerStep(t), ~SyncWait(s) PROVE pc[s] = "syncReply" /\ offered'[s] = offered[s]
  BY <1>3 DEF HandlerStep, Connect, RecvSync, RecvMode, ReadRaises, SyncWait, SyncReply,
     AsyncTake, RecvAck, RecvReq, RecvIgnored, ListenerStops, AckCleanup, Goto, TypeOK
<1>4. ASSUME NEW t \in Sessions, ClientStep(t) PROVE pc' = pc /\ offered' = offered
  BY <1>4 DEF ClientStep, ClientRecv, ClientReply, ClientAck, ClientReq, ClientSend, Disconnect
<1>5. ASSUME NEW u \in Users, UserStep(u) PROVE pc' = pc /\ offered' = offered
  BY <1>5 DEF UserStep, RegisterHook, UnregisterHook, AddEvent
<1>6. UNCHANGED vars => pc' = pc /\ offered' = offered BY DEF vars
<1>7. QED BY <1>1, <1>2, <1>3, <1>4, <1>5, <1>6 DEF Next

LEMMA NextOffered == ASSUME TInv, OfferedStaysQueued, [Next]_vars PROVE OfferedStaysQueued'
<1> TypeOK /\ SessionInv BY DEF TInv
<1> SUFFICES ASSUME NEW s \in Sessions, pc'[s] = "syncReply", \A t \in Sessions \ {s} : user'[t] # user'[s]
             PROVE  offered'[s] \in Elems(queue'[user'[s]])
  BY DEF OfferedStaysQueued
<1>1. CASE SyncWait(s)
  <2>1. user[s] \in Users /\ user' = user BY <1>1 DEF SyncWait, SessionInv, Attached
  <2>2. queue[user[s]] \in Seq(Ids) /\ queue[user[s]] # <<>> BY <1>1, <2>1 DEF SyncWait, TypeOK
  <2>3. /\ Elems(Rotate(queue[user[s]])) = Elems(queue[user[s]])
        /\ Head(queue[user[s]]) \in Elems(queue[user[s]])
    BY <2>2, RotateElems
  <2>4. queue'[user[s]] = Rotate(queue[user[s]]) /\ offered'[s] = Head(queue[user[s]])
    BY <1>1, <2>1 DEF SyncWait, TypeOK
  <2>5. QED BY <2>1, <2>3, <2>4
<1>2. CASE /\ pc[s] = "syncReply" /\ offered'[s] = offered[s]
           /\ ~SyncReply(s) /\ ~AsyncTake(s) /\ ~Restart
  <2>1. user[s] \in Users /\ user[s] # NoUser BY <1>2, HookAssumption DEF SessionInv, Attached
  <2>2. user'[s] = user[s] BY <2>1, UserKept
  <2>3. \A t \in Sessions \ {s} : user[t] # user[s] BY <2>1, <2>2, UserKept
  <2>4. offered[s] \in Elems(queue[user[s]]) BY <1>2, <2>3 DEF OfferedStaysQueued
  <2>5. offered[s] \in Elems(queue'[user[s]])
    <3>1. \/ offered[s] \in Elems(queue'[user[s]])
          \/ \E t \in Sessions : user[t] = user[s] /\ (SyncReply(t) \/ AsyncTake(t))
      BY <1>2, <2>1, <2>4, QueueKept
    <3>2. QED BY <1>2, <2>3, <3>1
  <2>6. QED BY <1>2, <2>2, <2>5
<1>3. QED BY <1>1, <1>2, ReplyAwaited

\* A SYNC session that shares its user's queue with nobody finds the event it
\* offered still queued until its client has replied.
THEOREM OfferedStaysQueuedHolds == Spec => []OfferedStaysQueued
<1>1. Init => OfferedStaysQueued BY DEF Init, OfferedStaysQueued
<1>2. TInv /\ OfferedStaysQueued /\ [Next]_vars => (TInv /\ OfferedStaysQueued)' BY NextTInv, NextOffered
<1>3. QED BY InitTInv, <1>1, <1>2, PTL DEF Spec

-----------------------------------------------------------------------------
(* Acknowledgements.  Of a session with the batches p pending, n batches     *)
(* sent, w on the wire to a client that is there if c, the messages x unread *)
(* and the events g read: what a batch on the wire or an ACK under way says. *)

AckSound(p, n, w, c, x, g) ==
    /\ \A b \in p : b.id \in 1..n
    /\ c = TRUE => \A b \in p : IF b.id + Len(w) <= n THEN Elems(b.events) \subseteq g
                         ELSE w[b.id + Len(w) - n] = b.events
    /\ \A i \in DOMAIN x : x[i].kind = "ack" =>
         /\ x[i].id <= n
         /\ \A b \in p : b.id = x[i].id => Elems(b.events) \subseteq g

AckTyped(p, n, w, x) ==
    /\ p \subseteq [id : Nat, events : Seq(Nat)] /\ n \in Nat
    /\ w \in Seq(Seq(Nat)) /\ x \in Seq(Messages)

LEMMA AckTypes == ASSUME TypeOK, NEW s \in Sessions
                  PROVE  AckTyped(pending[s], batches[s], wire[s], inbox[s])
<1>1. Seq(Ids) \subseteq Seq(Nat)
  <2>1. Ids \subseteq Nat BY DEF TypeOK, Ids
  <2>2. QED BY <2>1, SeqWiden
<1>2. Seq(Seq(Ids)) \subseteq Seq(Seq(Nat)) BY <1>1, SeqWiden
<1>3. QED BY <1>1, <1>2 DEF TypeOK, AckTyped

LEMMA AppendIs == ASSUME NEW S, NEW q \in Seq(S), NEW e \in S
                  PROVE  /\ Len(Append(q, e)) = Len(q) + 1
                         /\ \A i \in 1..Len(q) : Append(q, e)[i] = q[i]
                         /\ Append(q, e)[Len(q) + 1] = e
  OBVIOUS

\* A new batch has a number of its own and is last on the wire.
LEMMA AckTake ==
    ASSUME NEW p, NEW n, NEW w, NEW c, NEW x, NEW g, NEW e,
           AckTyped(p, n, w, x), AckSound(p, n, w, c, x, g),
           NEW b, b = [id |-> n + 1, events |-> e], e \in Seq(Nat), NEW v, c = TRUE => v = Append(w, e)
    PROVE  AckSound(p \cup {b}, n + 1, v, c, x, g)
<1> DEFINE L == Len(w)
<1>1. b.id = n + 1 /\ b.events = e OBVIOUS
<1>2. L \in Nat /\ n \in Nat /\ \A a \in p : a.id \in Nat BY DEF AckTyped
<1>3. c = TRUE => Len(v) = L + 1 /\ (\A i \in 1..L : v[i] = w[i]) /\ v[L + 1] = e
  <2>1. w \in Seq(Seq(Nat)) BY DEF AckTyped
  <2>2. Len(w) = L OBVIOUS
  <2> HIDE DEF L
  <2>3. /\ Len(Append(w, e)) = L + 1 /\ Append(w, e)[L + 1] = e
        /\ \A i \in 1..L : Append(w, e)[i] = w[i]
    BY <2>1, <2>2, AppendIs
  <2>4. QED BY <2>3
<1> HIDE DEF L
<1>4. \A a \in p \cup {b} : a.id \in 1..(n + 1) BY <1>1, <1>2 DEF AckSound
<1>5. ASSUME c = TRUE, NEW a \in p
      PROVE  IF a.id + Len(v) <= n + 1 THEN Elems(a.events) \subseteq g
             ELSE v[a.id + Len(v) - (n + 1)] = a.events
  <2>1. a.id \in 1..n /\ IF a.id + L <= n THEN Elems(a.events) \subseteq g ELSE w[a.id + L - n] = a.events
    BY <1>5 DEF AckSound, L
  <2>2. a.id + Len(v) - (n + 1) = a.id + L - n BY <1>2, <1>3, <1>5
  <2>3. a.id + Len(v) <= n + 1 <=> a.id + L <= n BY <1>2, <1>3, <1>5
  <2>4. a.id + L > n => a.id + L - n \in 1..L BY <1>2, <2>1
  <2>5. QED BY <1>2, <1>3, <1>5, <2>1, <2>2, <2>3, <2>4
<1>6. ASSUME c = TRUE
      PROVE  IF b.id + Len(v) <= n + 1 THEN Elems(b.events) \subseteq g
             ELSE v[b.id + Len(v) - (n + 1)] = b.events
  <2>1. b.id + Len(v) - (n + 1) = L + 1 /\ ~(b.id + Len(v) <= n + 1)
    <3>1. b.id = n + 1 /\ Len(v) = L + 1 BY <1>1, <1>3, <1>6
    <3>2. QED BY <1>2, <3>1
  <2>2. QED BY <1>1, <1>3, <1>6, <2>1
<1>7. ASSUME NEW i \in DOMAIN x, x[i].kind = "ack"
      PROVE  x[i].id <= n + 1 /\ \A a \in p \cup {b} : a.id = x[i].id => Elems(a.events) \subseteq g
  <2>1. x[i].id <= n /\ \A a \in p : a.id = x[i].id => Elems(a.events) \subseteq g BY <1>7 DEF AckSound
  <2>2. x[i].id \in Nat
    <3>1. x \in Seq(Messages) BY DEF AckTyped
    <3>2. x[i] \in Messages BY <1>7, <3>1
    <3>3. QED BY <3>2 DEF Messages
  <2>3. b.id # x[i].id BY <1>1, <1>2, <2>1, <2>2
  <2>4. QED BY <1>2, <2>1, <2>2, <2>3
<1>8. QED BY <1>4, <1>5, <1>6, <1>7 DEF AckSound

\* The listener reads a message, and batches leave.
LEMMA AckShrink ==
    ASSUME NEW p, NEW n, NEW w, NEW c, NEW x, NEW g, AckTyped(p, n, w, x),
           AckSound(p, n, w, c, x, g), NEW q, q \subseteq p, NEW y, y = x \/ (x # <<>> /\ y = Tail(x))
    PROVE  AckSound(q, n, w, c, y, g)
<1>1. \A i \in DOMAIN y : \E j \in DOMAIN x : y[i] = x[j]
  <2>1. CASE y = x BY <2>1
  <2>2. CASE x # <<>> /\ y = Tail(x)
    <3>1. DOMAIN y = 1..(Len(x) - 1) /\ \A i \in 1..(Len(x) - 1) : y[i] = x[i + 1] /\ i + 1 \in DOMAIN x
      BY <2>2 DEF AckTyped
    <3>2. QED BY <3>1
  <2>3. QED BY <2>1, <2>2
<1>2. \A b \in q : b \in p OBVIOUS
<1>3. /\ \A b \in q : b.id \in 1..n
      /\ c = TRUE => \A b \in q : IF b.id + Len(w) <= n THEN Elems(b.events) \subseteq g
                           ELSE w[b.id + Len(w) - n] = b.events
  BY <1>2 DEF AckSound
<1>4. ASSUME NEW i \in DOMAIN y, y[i].kind = "ack"
      PROVE  y[i].id <= n /\ \A b \in q : b.id = y[i].id => Elems(b.events) \subseteq g
  <2>1. PICK j \in DOMAIN x : y[i] = x[j] BY <1>1
  <2>2. QED BY <1>2, <1>4, <2>1 DEF AckSound
<1>5. QED BY <1>3, <1>4 DEF AckSound

\* The client reads the oldest of what is on its wire.
LEMMA AckRead ==
    ASSUME NEW p, NEW n, NEW w, NEW c, NEW x, NEW g, AckTyped(p, n, w, x),
           AckSound(p, n, w, c, x, g), w # <<>>
    PROVE  AckSound(p, n, Tail(w), c, x, g \cup Elems(Head(w)))
<1> DEFINE v == Tail(w)
           h == g \cup Elems(Head(w))
           L == Len(w)
<1>1. L \in Nat \ {0} /\ Len(v) = L - 1 /\ Head(w) = w[1] /\ \A i \in 1..(L - 1) : v[i] = w[i + 1]
  BY DEF AckTyped
<1>2. n \in Nat /\ \A b \in p : b.id \in Nat BY DEF AckTyped
<1>3. g \subseteq h /\ Elems(w[1]) \subseteq h BY <1>1
<1> HIDE DEF v, h, L
<1>4. ASSUME c = TRUE, NEW b \in p
      PROVE  IF b.id + Len(v) <= n THEN Elems(b.events) \subseteq h
             ELSE v[b.id + Len(v) - n] = b.events
  <2>1. b.id \in 1..n /\ IF b.id + L <= n THEN Elems(b.events) \subseteq g ELSE w[b.id + L - n] = b.events
    BY <1>4 DEF AckSound, L
  <2>2. CASE b.id + L <= n
    <3>1. b.id + Len(v) <= n BY <1>1, <1>2, <2>1, <2>2
    <3>2. QED BY <1>3, <2>1, <2>2, <3>1
  <2>3. CASE b.id + L = n + 1
    <3>1. b.id + Len(v) <= n /\ b.id + L - n = 1 /\ ~(b.id + L <= n) BY <1>1, <1>2, <2>1, <2>3
    <3>2. QED BY <1>3, <2>1, <3>1
  <2>4. CASE b.id + L > n + 1
    <3>1. /\ ~(b.id + Len(v) <= n) /\ ~(b.id + L <= n)
          /\ b.id + Len(v) - n \in 1..(L - 1) /\ (b.id + Len(v) - n) + 1 = b.id + L - n
      BY <1>1, <1>2, <2>1, <2>4
    <3>2. QED BY <1>1, <2>1, <3>1
  <2>5. b.id + L <= n \/ b.id + L = n + 1 \/ b.id + L > n + 1 BY <1>1, <1>2, <2>1
  <2>6. QED BY <2>2, <2>3, <2>4, <2>5
<1>5. AckSound(p, n, v, c, x, h)
  <2>1. \A i \in DOMAIN x : x[i].kind = "ack" =>
          x[i].id <= n /\ \A b \in p : b.id = x[i].id => Elems(b.events) \subseteq h
    BY <1>3 DEF AckSound
  <2>2. QED BY <1>4, <2>1 DEF AckSound
<1>6. QED BY <1>5 DEF v, h

\* The client sends a message; it acknowledges only what it has read.
LEMMA AckSend ==
    ASSUME NEW p, NEW n, NEW w, NEW x, NEW g, AckTyped(p, n, w, x), AckSound(p, n, w, TRUE, x, g),
           NEW m, m.kind = "ack" => m.id \in Nat /\ m.id <= n - Len(w)
    PROVE  AckSound(p, n, w, TRUE, Append(x, m), g)
<1> DEFINE y == Append(x, m)
<1>1. /\ DOMAIN y = 1..(Len(x) + 1) /\ DOMAIN x = 1..Len(x)
      /\ \A i \in 1..Len(x) : y[i] = x[i]
      /\ y[Len(x) + 1] = m
  BY DEF AckTyped
<1>2. \A i \in 1..(Len(x) + 1) : i \in 1..Len(x) \/ i = Len(x) + 1 BY DEF AckTyped
<1> HIDE DEF y
<1>3. Len(w) \in Nat /\ n \in Nat /\ \A b \in p : b.id \in Nat BY DEF AckTyped
<1>4. ASSUME m.kind = "ack" PROVE m.id <= n /\ \A b \in p : b.id = m.id => Elems(b.events) \subseteq g
  <2>1. m.id + Len(w) <= n /\ m.id <= n BY <1>3, <1>4
  <2>2. QED BY <2>1 DEF AckSound
<1>5. \A i \in DOMAIN y : y[i].kind = "ack" =>
        y[i].id <= n /\ \A b \in p : b.id = y[i].id => Elems(b.events) \subseteq g
  BY <1>1, <1>2, <1>4 DEF AckSound
<1>6. AckSound(p, n, w, TRUE, y, g) BY <1>5 DEF AckSound
<1>7. QED BY <1>6 DEF y

AckInv ==
    /\ AckedWasRead
    /\ \A s \in Sessions :
         /\ pc[s] # "async" => pending[s] = {}
         /\ AckSound(pending[s], batches[s], wire[s], conn[s], inbox[s], got[s])

\* Everything AckInv says of a session.
SessionVars(s) == <<pc[s], pending[s], batches[s], wire[s], conn[s], inbox[s], got[s]>>

\* The other sessions are as they were.
LEMMA AckOne ==
    ASSUME AckInv, acked' \subseteq UNION {got'[s] : s \in Sessions}, NEW s \in Sessions,
           \A t \in Sessions \ {s} : UNCHANGED SessionVars(t),
           pc'[s] # "async" => pending'[s] = {},
           AckSound(pending'[s], batches'[s], wire'[s], conn'[s], inbox'[s], got'[s])
    PROVE  AckInv'
<1>1. ASSUME NEW t \in Sessions
      PROVE  /\ pc'[t] # "async" => pending'[t] = {}
             /\ AckSound(pending'[t], batches'[t], wire'[t], conn'[t], inbox'[t], got'[t])
  <2>1. CASE t = s BY <2>1
  <2>2. CASE t # s BY <2>2 DEF AckInv, SessionVars
  <2>3. QED BY <2>1, <2>2
<1>2. QED BY <1>1 DEF AckInv, AckedWasRead

LEMMA NoPending == ASSUME NEW n, NEW w, NEW c, NEW x, NEW g, NEW v, NEW d, NEW m,
                          AckSound({}, n, w, c, x, g)
                   PROVE  AckSound({}, n, v, d, x, m)
  BY DEF AckSound

LEMMA NextAckInv == ASSUME TInv, AckInv, [Next]_vars PROVE AckInv'
<1> TypeOK /\ SessionInv BY DEF TInv
<1> USE DEF hookVars, handlerVars, netVars, fateVars
<1>1. ASSUME NEW s \in Sessions
      PROVE  /\ AckTyped(pending[s], batches[s], wire[s], inbox[s]) /\ conn[s] \in BOOLEAN
             /\ pc[s] # "async" => pending[s] = {}
             /\ AckSound(pending[s], batches[s], wire[s], conn[s], inbox[s], got[s])
  BY AckTypes DEF AckInv, TypeOK
<1>2. acked \subseteq UNION {got[s] : s \in Sessions} BY DEF AckInv, AckedWasRead
<1>3. ASSUME UNCHANGED <<pending, batches, wire, conn, inbox, got, acked>>,
             \A s \in Sessions : pc'[s] # "async" => pc[s] # "async"
      PROVE  AckInv'
  BY <1>1, <1>2, <1>3 DEF AckInv, AckedWasRead
<1>4. ASSUME NEW s \in Sessions, AsyncTake(s) PROVE AckInv'
  <2> DEFINE e == Batch(queue[user[s]], MaxBatch)
  <2>1. pending'[s] = pending[s] \cup {[id |-> batches[s] + 1, events |-> e]} /\ batches'[s] = batches[s] + 1
    BY <1>4 DEF AsyncTake, TypeOK
  <2>2. conn[s] = TRUE => wire'[s] = Append(wire[s], e) BY <1>4 DEF AsyncTake, Send, TypeOK
  <2>3. pc' = pc /\ conn' = conn /\ inbox' = inbox /\ got' = got /\ acked' = acked /\ pc[s] = "async"
    BY <1>4 DEF AsyncTake
  <2>4. \A t \in Sessions \ {s} : UNCHANGED SessionVars(t)
    BY <1>4 DEF AsyncTake, Send, SessionVars, TypeOK
  <2>7. e \in Seq(Nat)
    <3>1. user[s] \in Users BY <2>3 DEF SessionInv, Attached
    <3>2. e \in Seq(Ids) BY <3>1, HookAssumption, BatchElems DEF TypeOK
    <3>3. Ids \subseteq Nat BY DEF TypeOK, Ids
    <3>4. QED BY <3>2, <3>3, SeqWiden
  <2> HIDE DEF e
  <2>5. AckSound(pending'[s], batches'[s], wire'[s], conn'[s], inbox'[s], got'[s])
    <3> DEFINE b == [id |-> batches[s] + 1, events |-> e]
    <3>1. b = [id |-> batches[s] + 1, events |-> e] /\ pending'[s] = pending[s] \cup {b} BY <2>1
    <3> HIDE DEF b
    <3>2. AckSound(pending[s] \cup {b}, batches[s] + 1, wire'[s], conn[s], inbox[s], got[s])
      <4> DEFINE p == pending[s]
                 n == batches[s]
                 w == wire[s]
                 v == wire'[s]
                 c == conn[s]
                 y == inbox[s]
                 g == got[s]
      <4>1. AckTyped(p, n, w, y) /\ AckSound(p, n, w, c, y, g) BY <1>1
      <4>2. b = [id |-> n + 1, events |-> e] /\ (c = TRUE => v = Append(w, e)) BY <2>2, <3>1
      <4> HIDE DEF p, n, w, v, c, y, g
      <4>3. AckSound(p \cup {b}, n + 1, v, c, y, g) BY <2>7, <4>1, <4>2, AckTake
      <4>4. QED BY <4>3 DEF p, n, w, v, c, y, g
    <3>3. QED BY <2>1, <2>2, <2>3, <3>1, <3>2
  <2>6. QED BY <1>2, <2>3, <2>4, <2>5, AckOne
<1>5. ASSUME NEW s \in Sessions, RecvAck(s) PROVE AckInv'
  <2> DEFINE x == inbox[s]
             gone == AckedBy(s, Head(x).id)
  <2>1. x # <<>> /\ Head(x) = x[1] /\ 1 \in DOMAIN x /\ Head(x).kind = "ack"
    BY <1>5 DEF RecvAck, TypeOK
  <2>2. \A b \in gone : Elems(b.events) \subseteq got[s]
    <3>1. \A b \in pending[s] : b.id = x[1].id => Elems(b.events) \subseteq got[s]
      <4>1. AckSound(pending[s], batches[s], wire[s], conn[s], x, got[s]) BY <1>1
      <4>2. 1 \in DOMAIN x /\ x[1].kind = "ack" BY <2>1
      <4> HIDE DEF x
      <4>3. QED BY <4>1, <4>2 DEF AckSound
    <3>2. \A b \in gone : b \in pending[s] /\ b.id = x[1].id BY <2>1 DEF AckedBy
    <3>3. QED BY <3>1, <3>2
  <2>3. /\ pending'[s] = pending[s] \ gone /\ inbox'[s] = Tail(x)
        /\ acked' = acked \cup UNION {Elems(b.events) : b \in gone}
    BY <1>5 DEF RecvAck, TypeOK
  <2>4. pc' = pc /\ conn' = conn /\ batches' = batches /\ got' = got /\ wire' = wire
    BY <1>5 DEF RecvAck
  <2>5. \A t \in Sessions \ {s} : UNCHANGED SessionVars(t) BY <1>5 DEF RecvAck, SessionVars, TypeOK
  <2> HIDE DEF x, gone
  <2>6. AckSound(pending'[s], batches'[s], wire'[s], conn'[s], inbox'[s], got'[s])
    <3>1. pending'[s] \subseteq pending[s] BY <2>3
    <3>2. inbox[s] # <<>> /\ inbox'[s] = Tail(inbox[s]) BY <2>1, <2>3 DEF x
    <3>3. AckSound(pending'[s], batches[s], wire[s], conn[s], inbox'[s], got[s])
      BY <1>1, <3>1, <3>2, AckShrink
    <3>4. QED BY <2>4, <3>3
  <2>7. acked' \subseteq UNION {got'[t] : t \in Sessions} BY <1>2, <2>2, <2>3, <2>4
  <2>8. pc'[s] # "async" => pending'[s] = {} BY <1>1, <2>3, <2>4
  <2>9. QED BY <2>5, <2>6, <2>7, <2>8, AckOne
<1>6. ASSUME NEW s \in Sessions, RecvReq(s) \/ RecvIgnored(s) \/ SyncReply(s) PROVE AckInv'
  <2>1. inbox[s] # <<>> /\ inbox'[s] = Tail(inbox[s])
    BY <1>6 DEF RecvReq, RecvIgnored, SyncReply, TypeOK
  <2>2. UNCHANGED <<pending, conn, batches, got, wire, acked>>
    BY <1>6 DEF RecvReq, RecvIgnored, SyncReply
  <2>3. \A t \in Sessions : (pc'[t] = "async" <=> pc[t] = "async") /\ (t # s => pc'[t] = pc[t] /\ inbox'[t] = inbox[t])
    BY <1>6 DEF RecvReq, RecvIgnored, SyncReply, Goto, TypeOK
  <2>4. \A t \in Sessions \ {s} : UNCHANGED SessionVars(t) BY <2>2, <2>3 DEF SessionVars
  <2>5. AckSound(pending'[s], batches'[s], wire'[s], conn'[s], inbox'[s], got'[s])
    <3>1. AckSound(pending[s], batches[s], wire[s], conn[s], inbox'[s], got[s])
      BY <1>1, <2>1, AckShrink
    <3>2. QED BY <2>2, <3>1
  <2>6. QED BY <1>1, <1>2, <2>2, <2>3, <2>4, <2>5, AckOne
<1>7. ASSUME NEW s \in Sessions, AckCleanup(s) PROVE AckInv'
  <2>1. pending'[s] \subseteq pending[s] /\ \A t \in Sessions : t # s => pending'[t] = pending[t]
    BY <1>7 DEF AckCleanup, TypeOK
  <2>2. UNCHANGED <<pc, conn, batches, got, wire, inbox, acked>> BY <1>7 DEF AckCleanup
  <2>3. \A t \in Sessions \ {s} : UNCHANGED SessionVars(t) BY <2>1, <2>2 DEF SessionVars
  <2>4. AckSound(pending'[s], batches'[s], wire'[s], conn'[s], inbox'[s], got'[s])
    <3>1. AckSound(pending'[s], batches[s], wire[s], conn[s], inbox[s], got[s])
      BY <1>1, <2>1, AckShrink
    <3>2. QED BY <2>2, <3>1
  <2>5. QED BY <1>1, <1>2, <2>1, <2>2, <2>3, <2>4, AckOne
\* A SYNC loop has no batches, so what it puts on the wire is none's.
<1>8. ASSUME NEW s \in Sessions, SyncWait(s) PROVE AckInv'
  <2>1. pending[s] = {} /\ pc'[s] = "syncReply" BY <1>1, <1>8 DEF SyncWait, Goto, TypeOK
  <2>2. UNCHANGED <<pending, conn, batches, got, inbox, acked>> BY <1>8 DEF SyncWait
  <2>3. \A t \in Sessions \ {s} : UNCHANGED SessionVars(t)
    BY <1>8 DEF SyncWait, Goto, Send, SessionVars, TypeOK
  <2>4. AckSound({}, batches[s], wire'[s], conn[s], inbox[s], got[s]) BY <1>1, <2>1, NoPending
  <2>5. QED BY <1>2, <2>1, <2>2, <2>3, <2>4, AckOne
<1>9. ASSUME NEW s \in Sessions, Connect(s) PROVE AckInv'
  <2>1. pending[s] = {} BY <1>9 DEF Connect, SessionInv
  <2>2. UNCHANGED <<pending, wire, batches, got, inbox, acked>> BY <1>9 DEF Connect
  <2>3. \A t \in Sessions \ {s} : UNCHANGED SessionVars(t)
    BY <1>9 DEF Connect, Goto, SessionVars, TypeOK
  <2>4. AckSound({}, batches[s], wire[s], conn'[s], inbox[s], got[s]) BY <1>1, <2>1, NoPending
  <2>5. QED BY <1>2, <2>1, <2>2, <2>3, <2>4, AckOne
<1>10. ASSUME NEW s \in Sessions, NEW code, RecvSync(s, code) PROVE AckInv'
  BY <1>3, <1>10 DEF RecvSync, Goto, TypeOK
<1>11. ASSUME NEW s \in Sessions, NEW mode, RecvMode(s, mode) PROVE AckInv'
  BY <1>3, <1>11 DEF RecvMode, Goto, TypeOK
<1>12. ASSUME NEW s \in Sessions, ReadRaises(s) \/ ListenerStops(s) PROVE AckInv'
  BY <1>3, <1>12 DEF ReadRaises, ListenerStops, Goto, TypeOK
<1>13. ASSUME NEW u \in Users, UserStep(u) PROVE AckInv'
  BY <1>3, <1>13 DEF UserStep, RegisterHook, UnregisterHook, AddEvent
<1>14. ASSUME NEW s \in Sessions, ClientRecv(s) PROVE AckInv'
  <2>1. wire[s] # <<>> /\ wire'[s] = Tail(wire[s]) /\ got'[s] = got[s] \cup Elems(Head(wire[s]))
    BY <1>14 DEF ClientRecv, TypeOK
  <2>2. UNCHANGED <<pc, pending, conn, batches, inbox, acked>> BY <1>14 DEF ClientRecv
  <2>3. \A t \in Sessions \ {s} : UNCHANGED SessionVars(t) BY <1>14 DEF ClientRecv, SessionVars, TypeOK
  <2>4. AckSound(pending'[s], batches'[s], wire'[s], conn'[s], inbox'[s], got'[s])
    BY <1>1, <2>1, <2>2, AckRead
  <2>5. \A t \in Sessions : got[t] \subseteq got'[t] BY <1>14 DEF ClientRecv, TypeOK
  <2>6. acked' \subseteq UNION {got'[t] : t \in Sessions} BY <1>2, <2>2, <2>5
  <2>7. QED BY <1>1, <2>2, <2>3, <2>4, <2>6, AckOne
<1>15. ASSUME NEW s \in Sessions, NEW kind, NEW id, ClientSend(s, kind, id),
              kind = "ack" => id \in Nat /\ id <= batches[s] - Len(wire[s])
       PROVE  AckInv'
  <2> DEFINE m == [kind |-> kind, id |-> id]
  <2>1. conn[s] = TRUE /\ inbox'[s] = Append(inbox[s], m) BY <1>15 DEF ClientSend, TypeOK
  <2>2. UNCHANGED <<pc, pending, conn, batches, wire, got, acked>> BY <1>15 DEF ClientSend
  <2>3. \A t \in Sessions \ {s} : UNCHANGED SessionVars(t) BY <1>15 DEF ClientSend, SessionVars, TypeOK
  <2>4. m.kind = "ack" => m.id \in Nat /\ m.id <= batches[s] - Len(wire[s]) BY <1>15
  <2> HIDE DEF m
  <2>5. AckSound(pending'[s], batches'[s], wire'[s], conn'[s], inbox'[s], got'[s])
    BY <1>1, <2>1, <2>2, <2>4, AckSend
  <2>6. QED BY <1>1, <1>2, <2>2, <2>3, <2>5, AckOne
<1>16. ASSUME NEW s \in Sessions, Disconnect(s) PROVE AckInv'
  <2>1. conn'[s] = FALSE /\ UNCHANGED <<pc, pending, batches, inbox, got, acked>>
    BY <1>16 DEF Disconnect, TypeOK
  <2>2. \A t \in Sessions \ {s} : UNCHANGED SessionVars(t) BY <1>16 DEF Disconnect, SessionVars, TypeOK
  <2>3. AckSound(pending'[s], batches'[s], wire'[s], conn'[s], inbox'[s], got'[s])
    BY <1>1, <2>1 DEF AckSound
  <2>4. QED BY <1>1, <1>2, <2>1, <2>2, <2>3, AckOne
<1>17. CASE Restart
  <2>1. \A s \in Sessions : /\ pending'[s] = {} /\ inbox'[s] = <<>> /\ conn'[s] = FALSE
                            /\ AckSound({}, batches'[s], wire'[s], FALSE, <<>>, got'[s])
    BY <1>17 DEF Restart, AckSound
  <2>2. got' = got /\ acked' = acked BY <1>17 DEF Restart
  <2>3. QED BY <1>2, <2>1, <2>2 DEF AckInv, AckedWasRead
<1>18. CASE UNCHANGED vars BY <1>3, <1>18 DEF vars
<1>19. ASSUME NEW s \in Sessions, ClientStep(s) PROVE AckInv'
  <2>1. ASSUME NEW kind \in {"done", "other"}, ClientReply(s, kind) PROVE AckInv'
    BY <1>15, <2>1 DEF ClientReply
  <2>2. ASSUME NEW id \in 1..MaxEvents, ClientAck(s, id) PROVE AckInv'
    BY <1>15, <2>2, HookAssumption DEF ClientAck
  <2>3. ASSUME NEW kind \in {"req", "other"}, ClientReq(s, kind) PROVE AckInv'
    BY <1>15, <2>3 DEF ClientReq
  <2>4. QED BY <1>14, <1>16, <1>19, <2>1, <2>2, <2>3 DEF ClientStep
<1>20. ASSUME NEW s \in Sessions, HandlerStep(s) PROVE AckInv'
  BY <1>4, <1>5, <1>6, <1>7, <1>8, <1>9, <1>10, <1>11, <1>12, <1>20 DEF HandlerStep
<1>21. QED BY <1>13, <1>17, <1>18, <1>19, <1>20 DEF Next

LEMMA SpecAckInv == Spec => []AckInv
<1>1. Init => AckInv BY DEF Init, AckInv, AckSound, AckedWasRead
<1>2. TInv /\ AckInv /\ [Next]_vars => (TInv /\ AckInv)' BY NextTInv, NextAckInv
<1>3. QED BY InitTInv, <1>1, <1>2, PTL DEF Spec

\* Every event that was acknowledged had been read by a client: an ACK never
\* clears a batch that is still on the wire, or that a broken connection lost.
THEOREM AckedWasReadHolds == Spec => []AckedWasRead
<1>1. AckInv => AckedWasRead BY DEF AckInv
<1>2. QED BY <1>1, SpecAckInv, PTL

-----------------------------------------------------------------------------
(* Towards the end: what EventSettles rests on besides fairness *)

\* The events of its queue that leave it with e or before.
UpTo(e) == {f \in Elems(queue[added[e]]) : f <= e}
\* The batches of a session that expire with the one that holds e or before.
InFront(e, s) == {b \in pending[s] : \E c \in pending[s] : e \in Elems(c.events) /\ b.id <= c.id}

\* Nothing gets in front of an event, in its queue or, once it was sent, among the
\* batches of the session; each batch that a session of its user takes (no SYNC
\* session reads the queue), and each round of the cleanup, takes some away.
EventNearsItsEnd ==
    [][\A e \in Ids : \A s \in Sessions :
         /\ UpTo(e)' \subseteq UpTo(e)
         /\ AsyncTake(s) /\ user[s] = added[e] /\ e \in UpTo(e) /\ "sync" \notin Modes => UpTo(e)' # UpTo(e)
         /\ e \in InPending(s) => InFront(e, s)' \subseteq InFront(e, s)
         /\ e \in InPending(s) /\ AckCleanup(s) => InFront(e, s)' # InFront(e, s)]_vars

\* A queue gets no other event than the next one; a session gets no other batch
\* than its next one, with events of a queue.
LEMMA StepAdds ==
    ASSUME TInv, [Next]_vars
    PROVE  /\ \A e \in Ids : added'[e] = added[e]
           /\ \A u \in Users : \A f \in Elems(queue'[u]) : f \in Elems(queue[u]) \/ f = Len(added) + 1
           /\ \A s \in Sessions : \A b \in pending'[s] :
                \/ b \in pending[s]
                \/ b.id = batches[s] + 1 /\ \E u \in Users : Elems(b.events) \subseteq Elems(queue[u])
<1> TypeOK BY DEF TInv
<1> DEFINE Goal == /\ \A e \in Ids : added'[e] = added[e]
                   /\ \A u \in Users : \A f \in Elems(queue'[u]) : f \in Elems(queue[u]) \/ f = Len(added) + 1
                   /\ \A s \in Sessions : \A b \in pending'[s] :
                        \/ b \in pending[s]
                        \/ b.id = batches[s] + 1 /\ \E u \in Users : Elems(b.events) \subseteq Elems(queue[u])
<1>1. /\ queue \in [Users -> Seq(Ids)] /\ pending \in [Sessions -> SUBSET [id : Nat, events : Seq(Ids)]]
      /\ \A u \in Users : queue[u] \in Seq(Ids)
  BY DEF TypeOK
<1>2. MaxBatch \in Nat BY HookAssumption
<1>3. ASSUME NEW u \in Users, NEW q, queue' = [queue EXCEPT ![u] = q], added' = added,
             \A f \in Elems(q) : f \in Elems(queue[u]), pending' = pending
      PROVE  Goal
  BY <1>1, <1>3
<1>4. CASE Stays BY <1>4 DEF Stays
<1>5. ASSUME NEW u \in Users, Puts(u) PROVE Goal
  <2> DEFINE n == Len(added) + 1
             q == Put(queue[u], n)
  <2>1. queue' = [queue EXCEPT ![u] = q] /\ pending' = pending BY <1>5 DEF Puts, PutEvent
  <2>2. Elems(q) = Elems(queue[u]) \cup {n}
    <3> DEFINE S == Ids \cup {n}
    <3>1. Ids \subseteq S /\ n \in S OBVIOUS
    <3> HIDE DEF S, n
    <3>2. queue[u] \in Seq(S) BY <1>1, <3>1, SeqWiden
    <3>3. QED BY <3>1, <3>2, PutElems
  <2>3. \A e \in Ids : added'[e] = added[e] BY <1>5, AddedGrows DEF Puts
  <2> HIDE DEF q
  <2>4. \A v \in Users : queue'[v] = IF v = u THEN q ELSE queue[v] BY <1>1, <2>1
  <2>5. QED BY <2>1, <2>2, <2>3, <2>4
<1>6. ASSUME NEW u \in Users, Rotates(u) PROVE Goal
  <2>1. Elems(Rotate(queue[u])) = Elems(queue[u]) BY <1>1, <1>6, RotateElems DEF Rotates
  <2>2. QED BY <1>3, <1>6, <2>1 DEF Rotates
<1>7. ASSUME NEW u \in Users, Pops(u) PROVE Goal
  <2>1. Elems(Pop(queue[u])) \subseteq Elems(queue[u]) BY <1>1, PopElems
  <2>2. QED BY <1>3, <1>7, <2>1 DEF Pops
<1>8. ASSUME NEW s \in Sessions, NEW u \in Users, Takes(s, u) PROVE Goal
  <2> DEFINE a == Batch(queue[u], MaxBatch)
             q == AfterBatch(queue[u], MaxBatch)
             entry == [id |-> batches[s] + 1, events |-> a]
  <2>1. Elems(a) \subseteq Elems(queue[u]) /\ Elems(q) \subseteq Elems(queue[u]) BY <1>1, <1>2, BatchElems
  <2>2. entry.id = batches[s] + 1 /\ entry.events = a OBVIOUS
  <2>3. /\ queue' = [queue EXCEPT ![u] = q] /\ added' = added
        /\ pending' = [pending EXCEPT ![s] = pending[s] \cup {entry}]
    BY <1>8 DEF Takes
  <2> HIDE DEF a, q, entry
  <2>4. \A v \in Users : queue'[v] = IF v = u THEN q ELSE queue[v] BY <1>1, <2>3
  <2>5. \A t \in Sessions : pending'[t] = IF t = s THEN pending[s] \cup {entry} ELSE pending[t] BY <1>1, <2>3
  <2>6. QED BY <2>1, <2>2, <2>3, <2>4, <2>5
<1>9. ASSUME NEW s \in Sessions, NEW gone \in SUBSET pending[s], Clears(s, gone) PROVE Goal
  <2>1. pending' = [pending EXCEPT ![s] = pending[s] \ gone] /\ added' = added /\ queue' = queue
    BY <1>9 DEF Clears
  <2>2. \A t \in Sessions : \A b \in pending'[t] : b \in pending[t] BY <1>1, <2>1
  <2>3. QED BY <2>1, <2>2
<1>10. CASE Loses BY <1>10 DEF Loses, Elems
<1>11. QED BY NextIs, <1>4, <1>5, <1>6, <1>7, <1>8, <1>9, <1>10 DEF EventStep

\* A batch takes the first event, which is the oldest of a queue in order.
LEMMA TakesOldest ==
    ASSUME NEW S, S \subseteq Nat, NEW q \in Seq(S), NEW max \in Nat \ {0}, q # <<>>, Inj(q), Sorted(q)
    PROVE  /\ Head(q) \in Elems(q) \ Elems(AfterBatch(q, max))
           /\ \A e \in Elems(q) : Head(q) <= e
<1>1. Len(q) \in Nat \ {0} /\ DOMAIN q = 1..Len(q) /\ Head(q) = q[1] /\ \A i \in 1..Len(q) : q[i] \in Nat
  <2>1. Len(q) \in Nat \ {0} /\ DOMAIN q = 1..Len(q) /\ Head(q) = q[1] OBVIOUS
  <2>2. \A i \in 1..Len(q) : q[i] \in S OBVIOUS
  <2>3. QED BY <2>1, <2>2
<1>2. Head(q) \in Elems(q) BY <1>1 DEF Elems
<1>3. BatchLen(q, max) \in 1..Len(q) BY <1>1 DEF BatchLen
<1>4. Head(q) \in Elems(Batch(q, max))
  <2>1. 1 \in DOMAIN Batch(q, max) /\ Batch(q, max)[1] = q[1] BY <1>1, <1>3 DEF Batch
  <2>2. QED BY <1>1, <2>1 DEF Elems
<1>5. Elems(Batch(q, max)) \cap Elems(AfterBatch(q, max)) = {} BY BatchSplit
<1>6. ASSUME NEW e \in Elems(q) PROVE Head(q) <= e
  <2>1. PICK i \in 1..Len(q) : q[i] = e BY <1>1 DEF Elems
  <2>2. CASE i = 1 BY <1>1, <2>1, <2>2
  <2>3. CASE i # 1
    <3>1. 1 \in DOMAIN q /\ i \in DOMAIN q /\ 1 < i BY <1>1, <2>3
    <3>2. q[1] < q[i] /\ q[1] \in Nat /\ q[i] \in Nat BY <1>1, <3>1 DEF Sorted
    <3>3. QED BY <1>1, <2>1, <3>2
  <2>4. QED BY <2>2, <2>3
<1>7. QED BY <1>2, <1>4, <1>5, <1>6

LEMMA EventNears ==
    ASSUME TInv, IPlace, IOrder, AckInv, [Next]_vars, NEW CONSTANT e, e \in Ids, NEW CONSTANT s \in Sessions
    PROVE  /\ UpTo(e)' \subseteq UpTo(e)
           /\ AsyncTake(s) /\ user[s] = added[e] /\ e \in UpTo(e) /\ "sync" \notin Modes => UpTo(e)' # UpTo(e)
           /\ e \in InPending(s) => InFront(e, s)' \subseteq InFront(e, s)
           /\ e \in InPending(s) /\ AckCleanup(s) => InFront(e, s)' # InFront(e, s)
<1> TypeOK /\ SessionInv BY DEF TInv
<1> DEFINE n == Len(added)
<1>1. /\ n \in Nat /\ Ids = 1..n /\ e \in 1..n /\ added[e] \in Users
      /\ \A u \in Users : queue[u] \in Seq(1..n) /\ Elems(queue[u]) \subseteq 1..n
  <2>1. n \in Nat /\ Ids = 1..n /\ e \in 1..n /\ added[e] \in Users BY DEF TypeOK, Ids
  <2>2. \A u \in Users : queue[u] \in Seq(1..n) BY <2>1 DEF TypeOK
  <2>3. QED BY <2>1, <2>2, ElemsIn
<1>2. /\ added'[e] = added[e]
      /\ \A u \in Users : \A f \in Elems(queue'[u]) : f \in Elems(queue[u]) \/ f = n + 1
      /\ \A b \in pending'[s] :
           \/ b \in pending[s]
           \/ b.id = batches[s] + 1 /\ \E u \in Users : Elems(b.events) \subseteq Elems(queue[u])
  BY StepAdds
<1> HIDE DEF n
<1>3. /\ UpTo(e)' = {f \in Elems(queue'[added[e]]) : f <= e}
      /\ InFront(e, s)' = {b \in pending'[s] : \E c \in pending'[s] : e \in Elems(c.events) /\ b.id <= c.id}
  BY <1>2 DEF UpTo, InFront, Elems
<1>4. UpTo(e)' \subseteq UpTo(e)
  <2>1. ~(n + 1 <= e) BY <1>1
  <2>2. QED BY <1>1, <1>2, <1>3, <2>1 DEF UpTo
<1>5. ASSUME AsyncTake(s), user[s] = added[e], e \in UpTo(e), "sync" \notin Modes PROVE UpTo(e)' # UpTo(e)
  <2> DEFINE q == queue[added[e]]
             h == Head(q)
  <2>1. q \in Seq(1..n) /\ q # <<>> /\ 1..n \subseteq Nat /\ MaxBatch \in Nat \ {0} /\ e \in Elems(q)
    BY <1>1, <1>5, HookAssumption DEF AsyncTake, UpTo
  <2>2. Inj(q) /\ Sorted(q) BY <1>1, <1>5 DEF IPlace, Sound, IOrder, Fifo
  <2>3. queue'[added[e]] = AfterBatch(q, MaxBatch) BY <1>1, <1>5 DEF AsyncTake, TypeOK
  <2> HIDE DEF q
  <2>4. h \in Elems(q) \ Elems(AfterBatch(q, MaxBatch)) /\ h <= e BY <2>1, <2>2, TakesOldest
  <2> HIDE DEF h
  <2>5. h \in UpTo(e) BY <2>4 DEF UpTo, q
  <2>6. h \notin UpTo(e)' BY <1>3, <2>3, <2>4
  <2>7. QED BY <2>5, <2>6
<1>6. /\ batches[s] \in Nat /\ \A b \in pending[s] : b.id \in 1..batches[s] /\ b.id \in Nat
  BY DEF AckInv, AckSound, TypeOK
<1>7. ASSUME e \in InPending(s) PROVE InFront(e, s)' \subseteq InFront(e, s)
  <2>1. \A u \in Users : e \notin Elems(queue[u]) BY <1>7 DEF IPlace, Sound, InPending
  <2>2. \A c \in pending'[s] : e \in Elems(c.events) => c \in pending[s] BY <1>2, <2>1
  <2>3. \A b \in pending'[s], c \in pending[s] : b.id <= c.id => b \in pending[s]
    <3>1. \A c \in pending[s] : ~(batches[s] + 1 <= c.id) BY <1>6
    <3>2. QED BY <1>2, <3>1
  <2>4. QED BY <1>3, <2>2, <2>3 DEF InFront
<1>8. ASSUME e \in InPending(s), AckCleanup(s) PROVE InFront(e, s)' # InFront(e, s)
  <2>1. PICK k \in 1..batches[s] : SentUpTo(s, k) # {} /\ pending' = [pending EXCEPT ![s] = @ \ SentUpTo(s, k)]
    BY <1>8 DEF AckCleanup
  <2>2. pending'[s] = pending[s] \ SentUpTo(s, k) BY <2>1 DEF TypeOK
  <2>3. PICK c \in pending[s] : e \in Elems(c.events) BY <1>8 DEF InPending
  <2>4. PICK b \in SentUpTo(s, k) : TRUE BY <2>1
  <2>5. b \in pending[s] /\ b.id <= k /\ b.id \in Nat /\ c.id \in Nat /\ k \in Nat BY <1>6, <2>3, <2>4 DEF SentUpTo
  <2>6. CASE c.id <= k
    <3>1. c \in InFront(e, s) /\ c \notin pending'[s]
      <4>1. c.id <= c.id BY <2>5
      <4>2. QED BY <2>2, <2>3, <2>6, <4>1 DEF InFront, SentUpTo
    <3>2. QED BY <1>3, <3>1
  <2>7. CASE ~(c.id <= k)
    <3>1. b.id <= c.id BY <2>5, <2>7
    <3>2. b \in InFront(e, s) /\ b \notin pending'[s] BY <2>2, <2>3, <2>4, <2>5, <3>1 DEF InFront
    <3>3. QED BY <1>3, <3>2
  <2>8. QED BY <2>6, <2>7
<1>9. QED BY <1>4, <1>5, <1>7, <1>8

\* An event gets nearer to being settled with each turn of an ASYNC session's loop
\* and cleanup, whatever comes behind it: new events, other sessions and clients
\* that leave never get in front of it.
THEOREM EventNearsItsEndHolds == Spec => EventNearsItsEnd
<1>1. TInv /\ IPlace /\ IOrder /\ AckInv /\ [Next]_vars =>
        [\A e \in Ids : \A s \in Sessions :
           /\ UpTo(e)' \subseteq UpTo(e)
           /\ AsyncTake(s) /\ user[s] = added[e] /\ e \in UpTo(e) /\ "sync" \notin Modes => UpTo(e)' # UpTo(e)
           /\ e \in InPending(s) => InFront(e, s)' \subseteq InFront(e, s)
           /\ e \in InPending(s) /\ AckCleanup(s) => InFront(e, s)' # InFront(e, s)]_vars
  BY EventNears
<1>2. QED BY <1>1, SpecIPlace, SpecIOrder, SpecAckInv, PTL DEF Spec, EventNearsItsEnd

=============================================================================
