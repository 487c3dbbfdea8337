---------------------------- MODULE OMailProofs -----------------------------
(***************************************************************************)
(* Proofs about OMail, for any users, requests, ids and attachments: the   *)
(* type invariant, that attachments have their files, that the counts of   *)
(* the threads add up, and that the handlers implement Mailbox.            *)
(***************************************************************************)
EXTENDS OMail, FiniteSetTheorems, TLAPS

-----------------------------------------------------------------------------
(* The type invariant, and how far a send has come *)

Sending == tx \in Send
Numbered == {"labels", "attach", "commit"}

\* The message replied to is there; a send past its thread has it, one past its
\* message has that too, as it was asked; and it counts its attachments, of which
\* some decode.
Progress ==
    /\ tx.good \subseteq 1..tx.n
    /\ tx.reply # None => tx.reply \in Messages(work)
    /\ tx.at # "thread" => tx.thread \in Threads(work)
    /\ tx.at \in Numbered =>
         /\ tx.message \in Messages(work)
         /\ work.messages[tx.message] =
              [thread |-> tx.thread, from |-> tx.from, to |-> tx.to, reply |-> tx.reply, good |-> tx.good]
    /\ tx.at \in {"thread", "message", "labels"} => tx.done = 0
    /\ tx.at = "attach" => tx.done < tx.n
    /\ tx.at = "commit" => tx.done = tx.n

TInv == TypeOK /\ (Sending => Progress)

\* What each step of a send does, field by field.
LEMMA CountsThreadDoes ==
    ASSUME TInv, CountsThread
    PROVE  /\ Sending /\ tx.at = "thread" /\ UNCHANGED <<db, waiting, disk, bounds>>
           /\ work' \in Database /\ Sending'
           /\ work'.messages = work.messages /\ work'.links = work.links
           /\ work'.attachments = work.attachments
           /\ \E t \in ThreadFor :
                /\ t \in Ids
                /\ work'.threads[t] = OneMore(work.threads[t])
                /\ work'.threads[t] \in Thread
                /\ \A s \in Ids : s # t => work'.threads[s] = work.threads[s]
                /\ tx' = [tx EXCEPT !.at = "message", !.thread = t]
<1>1. Sending /\ tx.at = "thread" /\ UNCHANGED <<db, waiting, disk, bounds>>
  BY DEF CountsThread, At, TInv, TypeOK, Sending, Send, Batch, List
<1>2. PICK t \in ThreadFor : work' = Counted(t) /\ tx' = [tx EXCEPT !.at = "message", !.thread = t]
  BY DEF CountsThread
<1>3. work \in Database BY DEF TInv, TypeOK
<1>4. t \in Ids
  <2>1. CASE tx.reply = None BY <2>1 DEF ThreadFor
  <2>2. CASE tx.reply # None
    <3>1. tx.reply \in Ids /\ work.messages[tx.reply] \in Message
      BY <1>1, <1>3, <2>2 DEF TInv, Progress, Messages, Database
    <3>2. QED BY <2>2, <3>1 DEF ThreadFor, Message
  <2>3. QED BY <2>1, <2>2
<1> DEFINE new == OneMore(work.threads[t])
<1>5. work.threads \in [Ids -> {None} \cup Thread] BY <1>3 DEF Database
<1>6. work.threads[t] \in {None} \cup Thread BY <1>4, <1>5
<1>7. new \in Thread
  <2>1. CASE work.threads[t] = None BY <2>1 DEF OneMore, Thread
  <2>2. CASE work.threads[t] # None BY <1>6, <2>2 DEF OneMore, Thread
  <2>3. QED BY <2>1, <2>2
<1>8. work' = [work EXCEPT !.threads[t] = new] BY <1>2 DEF Counted
<1> HIDE DEF new
<1>9. /\ work'.messages = work.messages /\ work'.links = work.links
      /\ work'.attachments = work.attachments
      /\ work'.threads = [work.threads EXCEPT ![t] = new]
  BY <1>3, <1>8 DEF Database
<1>10. work'.threads[t] = new /\ \A s \in Ids : s # t => work'.threads[s] = work.threads[s]
  BY <1>4, <1>5, <1>9
<1>11. work'.threads \in [Ids -> {None} \cup Thread] BY <1>5, <1>7, <1>9
<1>12. work' \in Database BY <1>3, <1>8, <1>9, <1>11 DEF Database
<1>13. Sending' BY <1>1, <1>2, <1>4 DEF Sending, Send
<1>14. QED BY <1>1, <1>2, <1>4, <1>7, <1>9, <1>10, <1>12, <1>13 DEF new

LEMMA InsertsMessageDoes ==
    ASSUME TInv, InsertsMessage
    PROVE  /\ Sending /\ tx.at = "message" /\ UNCHANGED <<db, waiting, disk, bounds>>
           /\ work' \in Database /\ Sending'
           /\ work'.threads = work.threads /\ work'.links = work.links
           /\ work'.attachments = work.attachments
           /\ \E m \in Ids \ Messages(work) :
                /\ work'.messages[m] =
                     [thread |-> tx.thread, from |-> tx.from, to |-> tx.to, reply |-> tx.reply, good |-> tx.good]
                /\ work'.messages[m] \in Message
                /\ \A k \in Ids : k # m => work'.messages[k] = work.messages[k]
                /\ tx' = [tx EXCEPT !.at = "labels", !.message = m]
<1>1. Sending /\ tx.at = "message" /\ UNCHANGED <<db, waiting, disk, bounds>>
  BY DEF InsertsMessage, At, TInv, TypeOK, Sending, Send, Batch, List
<1> DEFINE new == [thread |-> tx.thread, from |-> tx.from, to |-> tx.to, reply |-> tx.reply, good |-> tx.good]
<1>2. PICK m \in Ids \ Messages(work) :
        work' = [work EXCEPT !.messages[m] = new] /\ tx' = [tx EXCEPT !.at = "labels", !.message = m]
  BY DEF InsertsMessage
<1>3. work \in Database BY DEF TInv, TypeOK
<1>4. new \in Message
  BY <1>1 DEF TInv, Progress, Threads, Sending, Send, Message
<1> HIDE DEF new
<1>5. /\ work'.threads = work.threads /\ work'.links = work.links
      /\ work'.attachments = work.attachments
      /\ work'.messages = [work.messages EXCEPT ![m] = new]
  BY <1>2, <1>3 DEF Database
<1>6. work.messages \in [Ids -> {None} \cup Message] BY <1>3 DEF Database
<1>7. work'.messages[m] = new /\ \A k \in Ids : k # m => work'.messages[k] = work.messages[k]
  BY <1>5, <1>6
<1>8. work'.messages \in [Ids -> {None} \cup Message] BY <1>4, <1>5, <1>6
<1>9. work' \in Database BY <1>2, <1>3, <1>5, <1>8 DEF Database
<1>10. Sending' BY <1>1, <1>2 DEF Sending, Send
<1>11. QED BY <1>1, <1>2, <1>4, <1>5, <1>7, <1>9, <1>10 DEF new

LEMMA DrawsTakenIdDoes ==
    ASSUME TInv, DrawsTakenId
    PROVE  /\ Sending /\ tx.at = "message" /\ UNCHANGED <<db, waiting, disk>>
           /\ work' \in Database /\ Sending'
           /\ work'.messages = work.messages /\ work'.links = work.links
           /\ work'.attachments = work.attachments
           /\ tx.thread \in Threads(work)
           /\ work'.threads[tx.thread] = [work.threads[tx.thread] EXCEPT !.lost = @ + 1]
           /\ work'.threads[tx.thread] \in Thread
           /\ \A s \in Ids : s # tx.thread => work'.threads[s] = work.threads[s]
           /\ tx' = [tx EXCEPT !.at = "thread"]
           /\ taken' \in 0..MaxTaken /\ UNCHANGED failures
<1>1. Sending /\ tx.at = "message" /\ UNCHANGED <<db, waiting, disk>>
  BY DEF DrawsTakenId, At, TInv, TypeOK, Sending, Send, Batch, List
<1>2. work' = [work EXCEPT !.threads[tx.thread].lost = @ + 1] /\ tx' = [tx EXCEPT !.at = "thread"]
  BY DEF DrawsTakenId, Goes
<1>3. work \in Database BY DEF TInv, TypeOK
<1>4. tx.thread \in Threads(work) BY <1>1 DEF TInv, Progress
<1>5. work.threads \in [Ids -> {None} \cup Thread] BY <1>3 DEF Database
<1>6. tx.thread \in Ids /\ work.threads[tx.thread] \in Thread BY <1>4, <1>5 DEF Threads
<1>7. /\ work'.messages = work.messages /\ work'.links = work.links
      /\ work'.attachments = work.attachments
      /\ work'.threads = [work.threads EXCEPT ![tx.thread] =
            [work.threads[tx.thread] EXCEPT !.lost = work.threads[tx.thread].lost + 1]]
  BY <1>2, <1>3, <1>5, <1>6 DEF Database, Thread
<1>8. /\ work'.threads[tx.thread] =
            [work.threads[tx.thread] EXCEPT !.lost = work.threads[tx.thread].lost + 1]
      /\ \A s \in Ids : s # tx.thread => work'.threads[s] = work.threads[s]
  BY <1>5, <1>6, <1>7
<1>9. work'.threads[tx.thread] \in Thread BY <1>6, <1>8 DEF Thread
<1>10. work'.threads \in [Ids -> {None} \cup Thread] BY <1>5, <1>6, <1>7, <1>8, <1>9
<1>11. work' \in Database BY <1>2, <1>3, <1>7, <1>10 DEF Database
<1>12. Sending' BY <1>1, <1>2 DEF Sending, Send
<1>13. taken' \in 0..MaxTaken /\ UNCHANGED failures
  BY OMailAssumption DEF DrawsTakenId, TInv, TypeOK
<1>14. QED BY <1>1, <1>2, <1>4, <1>7, <1>8, <1>9, <1>11, <1>12, <1>13

LEMMA AddsLabelsDoes ==
    ASSUME TInv, AddsLabels
    PROVE  /\ Sending /\ tx.at = "labels" /\ UNCHANGED <<db, waiting, disk, bounds>>
           /\ work' \in Database /\ Sending'
           /\ work'.threads = work.threads /\ work'.messages = work.messages
           /\ work'.links = work.links \cup Links(tx.message, tx.from, tx.to)
           /\ work'.attachments = work.attachments
           /\ tx' = [tx EXCEPT !.at = AfterLabels]
<1>1. Sending /\ tx.at = "labels" /\ UNCHANGED <<db, waiting, disk, bounds>>
  BY DEF AddsLabels, At, TInv, TypeOK, Sending, Send, Batch, List
<1>2. work' = [work EXCEPT !.links = @ \cup Links(tx.message, tx.from, tx.to)]
      /\ tx' = [tx EXCEPT !.at = AfterLabels]
  BY DEF AddsLabels, Labelled, Goes
<1>3. work \in Database BY DEF TInv, TypeOK
<1>4. tx.message \in Ids /\ tx.from \in Users /\ tx.to \in Users
  BY <1>1 DEF TInv, Progress, Numbered, Messages, Sending, Send
<1>5. Links(tx.message, tx.from, tx.to) \subseteq Ids \X Users \X LabelNames
  BY <1>4 DEF Links, LabelNames
<1>6. work.links \cup Links(tx.message, tx.from, tx.to) \in SUBSET (Ids \X Users \X LabelNames)
  BY <1>3, <1>5 DEF Database
<1> HIDE DEF Links
<1>7. /\ work'.threads = work.threads /\ work'.messages = work.messages
      /\ work'.links = work.links \cup Links(tx.message, tx.from, tx.to)
      /\ work'.attachments = work.attachments
      /\ work' \in Database
  BY <1>2, <1>3, <1>6 DEF Database
<1>8. Sending' BY <1>1, <1>2 DEF Sending, Send, AfterLabels
<1>9. QED BY <1>1, <1>2, <1>7, <1>8

\* The row, and the file, of the next attachment of the send, if it decodes.
NewRow == IF tx.done + 1 \in tx.good THEN {<<tx.message, tx.done + 1>>} ELSE {}

LEMMA AttachesDoes ==
    ASSUME TInv, Attaches
    PROVE  /\ Sending /\ tx.at = "attach" /\ UNCHANGED <<db, waiting, bounds>>
           /\ NewRow \subseteq Attachment
           /\ work' \in Database /\ Sending'
           /\ work'.threads = work.threads /\ work'.messages = work.messages
           /\ work'.links = work.links
           /\ work'.attachments = work.attachments \cup NewRow
           /\ disk' = disk \cup NewRow
           /\ tx' = [tx EXCEPT !.done = tx.done + 1,
                               !.at = IF tx.done + 1 = tx.n THEN "commit" ELSE "attach"]
<1>1. Sending /\ tx.at = "attach" /\ UNCHANGED <<db, waiting, bounds>>
  BY DEF Attaches, At, TInv, TypeOK, Sending, Send, Batch, List
<1>2. /\ work' = [work EXCEPT !.attachments = @ \cup NewRow]
      /\ disk' = disk \cup NewRow
      /\ tx' = [tx EXCEPT !.done = tx.done + 1,
                          !.at = IF tx.done + 1 = tx.n THEN "commit" ELSE "attach"]
  BY DEF Attaches, NewRow
<1>3. work \in Database BY DEF TInv, TypeOK
<1>4. tx.message \in Ids /\ tx.done \in Nat /\ tx.n \in 0..MaxAttachments /\ tx.done < tx.n
  BY <1>1, OMailAssumption DEF TInv, Progress, Numbered, Messages, Sending, Send
<1>5. tx.done + 1 \in 1..MaxAttachments BY <1>4, OMailAssumption
<1>6. NewRow \subseteq Attachment BY <1>4, <1>5 DEF Attachment, NewRow
<1>7. Sending'
  <2> DEFINE next == IF tx.done + 1 = tx.n THEN "commit" ELSE "attach"
  <2>1. next \in {"commit", "attach"} OBVIOUS
  <2>2. tx.done + 1 \in 0..MaxAttachments BY <1>5, OMailAssumption
  <2>3. tx' = [tx EXCEPT !.done = tx.done + 1, !.at = next] BY <1>2
  <2> HIDE DEF next
  <2>4. QED BY <1>1, <2>1, <2>2, <2>3 DEF Sending, Send
<1>8. /\ work'.threads = work.threads /\ work'.messages = work.messages
      /\ work'.links = work.links
      /\ work'.attachments = work.attachments \cup NewRow
      /\ work' \in Database
  BY <1>2, <1>3, <1>6 DEF Database
<1>9. QED BY <1>1, <1>2, <1>6, <1>7, <1>8

\* The links a batch adds and those it removes.
Added == tx.messages \X {tx.from} \X tx.add
Removed == tx.messages \X {tx.from} \X tx.remove

LEMMA ChangesLabelsDoes ==
    ASSUME TInv, ChangesLabels
    PROVE  /\ tx \in Batch /\ tx' \in Batch /\ UNCHANGED <<db, waiting, disk, bounds>>
           /\ work' \in Database
           /\ work'.threads = work.threads /\ work'.messages = work.messages
           /\ work'.attachments = work.attachments
           /\ tx.at = "change" /\ tx' = [tx EXCEPT !.at = "commit"]
           /\ work'.links = (work.links \cup Added) \ Removed
<1>1. tx \in Batch /\ UNCHANGED <<db, waiting, disk, bounds>>
      /\ tx.at = "change" /\ tx' = [tx EXCEPT !.at = "commit"]
  BY DEF ChangesLabels, At, Goes, TInv, TypeOK, Send, Batch, List
<1>2. tx' \in Batch BY <1>1 DEF Batch
<1>3. work' = [work EXCEPT !.links = (@ \cup Added) \ Removed] BY DEF ChangesLabels, Added, Removed
<1>4. work \in Database BY DEF TInv, TypeOK
<1>5. Added \subseteq Ids \X Users \X LabelNames BY <1>1 DEF Batch, Added
<1>6. (work.links \cup Added) \ Removed \in SUBSET (Ids \X Users \X LabelNames)
  BY <1>4, <1>5 DEF Database
<1>7. /\ work'.links = (work.links \cup Added) \ Removed
      /\ work' \in Database
      /\ work'.threads = work.threads /\ work'.messages = work.messages
      /\ work'.attachments = work.attachments
  BY <1>3, <1>4, <1>6 DEF Database
<1>8. QED BY <1>1, <1>2, <1>7

\* The steps that end a transaction, begin one, or do nothing to it.
LEMMA CommitsDoes ==
    ASSUME Commits
    PROVE  /\ tx # None /\ tx.at = "commit" /\ tx' = None
           /\ db' = work /\ UNCHANGED <<work, waiting, disk, bounds>>
BY DEF Commits, At

LEMMA RollsBackDoes ==
    ASSUME TypeOK, ListEnds \/ Fails \/ Restart
    PROVE  /\ tx' = None /\ work' = db /\ UNCHANGED <<db, disk, taken>>
           /\ waiting' \subseteq Requests /\ failures' \in 0..MaxFailures
BY OMailAssumption DEF ListEnds, Fails, Restart, RollsBack, TypeOK

LEMMA BeginsDoes ==
    ASSUME TypeOK, NEW r \in Requests, BeginsSend(r) \/ BeginsBatch(r) \/ BeginsList(r)
    PROVE  /\ tx = None /\ work = db /\ UNCHANGED <<db, work, disk, bounds>>
           /\ waiting' \subseteq Requests
           /\ \/ tx' \in Send /\ tx'.at = "thread" /\ tx'.done = 0
                   /\ (tx'.reply # None => tx'.reply \in Messages(db)) /\ tx'.good \subseteq 1..tx'.n
              \/ tx' \in Batch /\ tx'.at = "change" /\ tx'.messages \subseteq Messages(db)
              \/ tx' \in List
<1>1. CASE BeginsSend(r)
  <2>1. PICK from \in Users, to \in Users, reply \in Messages(db) \cup {None}, n \in 0..MaxAttachments :
          \E good \in SUBSET (1..n) :
            Locks(r, [op |-> "send", from |-> from, to |-> to, reply |-> reply, n |-> n, good |-> good,
                      at |-> "thread", thread |-> None, message |-> None, done |-> 0])
    BY <1>1 DEF BeginsSend
  <2>2. PICK good \in SUBSET (1..n) :
          Locks(r, [op |-> "send", from |-> from, to |-> to, reply |-> reply, n |-> n, good |-> good,
                    at |-> "thread", thread |-> None, message |-> None, done |-> 0])
    BY <2>1
  <2>3. tx' = [op |-> "send", from |-> from, to |-> to, reply |-> reply, n |-> n, good |-> good,
               at |-> "thread", thread |-> None, message |-> None, done |-> 0]
    BY <2>2 DEF Locks
  <2>4. good \in SUBSET (1..MaxAttachments) BY OMailAssumption
  <2>5. tx' \in Send BY <2>3, <2>4, OMailAssumption DEF Send, Messages
  <2>6. /\ tx'.at = "thread" /\ tx'.done = 0 /\ tx'.reply = reply
        /\ tx'.good = good /\ tx'.n = n
    BY <2>3
  <2>7. tx = None /\ UNCHANGED <<db, work, disk, bounds>> /\ waiting' \subseteq waiting BY <2>2 DEF Locks
  <2>8. QED BY <2>5, <2>6, <2>7 DEF TypeOK
<1>2. CASE BeginsBatch(r)
  <2>1. PICK u \in Users, messages \in SUBSET Messages(db) \ {{}},
             add \in SUBSET BatchNames, remove \in SUBSET BatchNames :
          Locks(r, [op |-> "batch", from |-> u, messages |-> messages, add |-> add, remove |-> remove,
                    at |-> "change"])
    BY <1>2 DEF BeginsBatch
  <2>2. tx' \in Batch /\ tx'.at = "change" /\ tx'.messages = messages
    BY <2>1, OMailAssumption DEF Locks, Batch, Messages
  <2>3. tx = None /\ UNCHANGED <<db, work, disk, bounds>> /\ waiting' \subseteq waiting BY <2>1 DEF Locks
  <2>4. QED BY <2>2, <2>3 DEF TypeOK
<1>3. CASE BeginsList(r)
  BY <1>3 DEF BeginsList, Locks, List, TypeOK
<1>4. QED BY <1>1, <1>2, <1>3

LEMMA WaitingDoes ==
    ASSUME TypeOK, NEW r \in Requests, Ask(r) \/ GivesUp(r)
    PROVE  waiting' \subseteq Requests /\ UNCHANGED <<db, work, tx, disk, bounds>>
BY DEF Ask, GivesUp, TypeOK

\* Every step is one of the lemmas'.
LEMMA Steps ==
    ASSUME [Next]_vars
    PROVE  \/ CountsThread \/ InsertsMessage \/ DrawsTakenId \/ AddsLabels \/ Attaches \/ ChangesLabels
           \/ Commits
           \/ ListEnds \/ Fails \/ Restart
           \/ \E r \in Requests : BeginsSend(r) \/ BeginsBatch(r) \/ BeginsList(r)
           \/ \E r \in Requests : Ask(r) \/ GivesUp(r)
           \/ UNCHANGED vars
BY DEF Next

LEMMA InitTInv == Init => TInv
<1> SUFFICES ASSUME Init PROVE TInv OBVIOUS
<1>1. TypeOK BY OMailAssumption DEF Init, TypeOK, Database
<1>2. ~Sending BY OMailAssumption DEF Init, Sending
<1>3. QED BY <1>1, <1>2 DEF TInv

LEMMA NextTInv == TInv /\ [Next]_vars => TInv'
<1> SUFFICES ASSUME TInv, [Next]_vars PROVE TInv' OBVIOUS
<1> USE DEF bounds
<1>0. Sending <=> tx # None /\ tx \notin Batch \cup List
  BY OMailAssumption DEF TInv, TypeOK, Sending, Send, Batch, List
<1>1. CASE CountsThread
  <2>1. PICK t \in ThreadFor :
          /\ t \in Ids /\ work'.threads[t] \in Thread
          /\ \A s \in Ids : s # t => work'.threads[s] = work.threads[s]
          /\ tx' = [tx EXCEPT !.at = "message", !.thread = t]
    BY <1>1, CountsThreadDoes
  <2>2. /\ Sending /\ tx.at = "thread" /\ UNCHANGED <<db, waiting, disk, bounds>>
        /\ work' \in Database /\ Sending' /\ work'.messages = work.messages
    BY <1>1, CountsThreadDoes
  <2>3. TypeOK' BY <2>2, OMailAssumption DEF TInv, TypeOK, Sending
  <2>4. t \in Threads(work)' BY <2>1, OMailAssumption DEF Threads
  <2>5. /\ tx'.at = "message" /\ tx'.thread = t /\ tx'.reply = tx.reply /\ tx'.done = tx.done
        /\ tx'.n = tx.n /\ tx'.good = tx.good
    BY <2>1, <2>2 DEF Sending, Send
  <2>6. Progress' BY <2>2, <2>4, <2>5 DEF TInv, Progress, Messages, Numbered
  <2>7. QED BY <2>3, <2>6 DEF TInv
<1>2. CASE InsertsMessage
  <2>1. PICK m \in Ids \ Messages(work) :
          /\ work'.messages[m] =
               [thread |-> tx.thread, from |-> tx.from, to |-> tx.to, reply |-> tx.reply, good |-> tx.good]
          /\ work'.messages[m] \in Message
          /\ \A k \in Ids : k # m => work'.messages[k] = work.messages[k]
          /\ tx' = [tx EXCEPT !.at = "labels", !.message = m]
    BY <1>2, InsertsMessageDoes
  <2>2. /\ Sending /\ tx.at = "message" /\ UNCHANGED <<db, waiting, disk, bounds>>
        /\ work' \in Database /\ Sending' /\ work'.threads = work.threads
    BY <1>2, InsertsMessageDoes
  <2>3. TypeOK' BY <2>2, OMailAssumption DEF TInv, TypeOK, Sending
  <2>4. m \in Messages(work)' /\ Messages(work) \subseteq Messages(work)'
    BY <2>1, OMailAssumption DEF Messages
  <2>5. /\ tx'.at = "labels" /\ tx'.message = m /\ tx'.done = tx.done /\ tx'.thread = tx.thread
        /\ tx'.from = tx.from /\ tx'.to = tx.to /\ tx'.reply = tx.reply
        /\ tx'.n = tx.n /\ tx'.good = tx.good
    BY <2>1, <2>2 DEF Sending, Send
  <2>6. Progress BY <2>2 DEF TInv
  <2>7. Progress' BY <2>1, <2>2, <2>4, <2>5, <2>6 DEF Progress, Threads
  <2>8. QED BY <2>3, <2>7 DEF TInv
<1>3. CASE DrawsTakenId
  <2>1. /\ Sending /\ tx.at = "message" /\ UNCHANGED <<db, waiting, disk>>
        /\ work' \in Database /\ Sending' /\ work'.messages = work.messages
        /\ tx' = [tx EXCEPT !.at = "thread"]
        /\ taken' \in 0..MaxTaken /\ UNCHANGED failures
    BY <1>3, DrawsTakenIdDoes
  <2>2. TypeOK' BY <2>1, OMailAssumption DEF TInv, TypeOK, Sending
  <2>3. /\ tx'.at = "thread" /\ tx'.reply = tx.reply /\ tx'.done = tx.done
        /\ tx'.n = tx.n /\ tx'.good = tx.good
    BY <2>1 DEF Sending, Send
  <2>4. Progress' BY <2>1, <2>3 DEF TInv, Progress, Messages, Numbered
  <2>5. QED BY <2>2, <2>4 DEF TInv
<1>4. CASE AddsLabels
  <2>1. /\ Sending /\ tx.at = "labels" /\ UNCHANGED <<db, waiting, disk, bounds>>
        /\ work' \in Database /\ Sending'
        /\ work'.threads = work.threads /\ work'.messages = work.messages
        /\ tx' = [tx EXCEPT !.at = AfterLabels]
    BY <1>4, AddsLabelsDoes
  <2>2. TypeOK' BY <2>1, OMailAssumption DEF TInv, TypeOK, Sending
  <2>3. /\ tx'.at = (IF tx.n = 0 THEN "commit" ELSE "attach")
        /\ tx'.message = tx.message /\ tx'.done = tx.done /\ tx'.thread = tx.thread
        /\ tx'.from = tx.from /\ tx'.to = tx.to /\ tx'.reply = tx.reply
        /\ tx'.n = tx.n /\ tx'.good = tx.good
        /\ tx.n \in Nat
    BY <2>1, OMailAssumption DEF Sending, Send, AfterLabels
  <2>4. Progress BY <2>1 DEF TInv
  <2>5. Progress' BY <2>1, <2>3, <2>4 DEF Progress, Messages, Threads, Numbered
  <2>6. QED BY <2>2, <2>5 DEF TInv
<1>5. CASE Attaches
  <2>1. /\ Sending /\ tx.at = "attach" /\ UNCHANGED <<db, waiting, bounds>>
        /\ NewRow \subseteq Attachment /\ disk' = disk \cup NewRow
        /\ work' \in Database /\ Sending'
        /\ work'.threads = work.threads /\ work'.messages = work.messages
        /\ tx' = [tx EXCEPT !.done = tx.done + 1,
                            !.at = IF tx.done + 1 = tx.n THEN "commit" ELSE "attach"]
    BY <1>5, AttachesDoes
  <2>2. TypeOK' BY <2>1, OMailAssumption DEF TInv, TypeOK, Sending
  <2>3. /\ tx'.at = (IF tx.done + 1 = tx.n THEN "commit" ELSE "attach")
        /\ tx'.message = tx.message /\ tx'.done = tx.done + 1 /\ tx'.thread = tx.thread
        /\ tx'.from = tx.from /\ tx'.to = tx.to /\ tx'.reply = tx.reply
        /\ tx'.n = tx.n /\ tx'.good = tx.good
        /\ tx.n \in Nat /\ tx.done \in Nat
    BY <2>1, OMailAssumption DEF Sending, Send
  <2>4. Progress BY <2>1 DEF TInv
  <2>5. Progress' BY <2>1, <2>3, <2>4 DEF Progress, Messages, Threads, Numbered
  <2>6. QED BY <2>2, <2>5 DEF TInv
<1>6. CASE ChangesLabels
  <2>1. tx' \in Batch /\ UNCHANGED <<db, waiting, disk, bounds>> /\ work' \in Database
    BY <1>6, ChangesLabelsDoes
  <2>2. TypeOK' BY <2>1, OMailAssumption DEF TInv, TypeOK
  <2>3. ~Sending' BY <2>1 DEF Sending, Send, Batch
  <2>4. QED BY <2>2, <2>3 DEF TInv
<1>7. CASE Commits
  <2>1. TypeOK' BY <1>7, CommitsDoes DEF TInv, TypeOK
  <2>2. ~Sending' BY <1>7, CommitsDoes, OMailAssumption DEF Sending
  <2>3. QED BY <2>1, <2>2 DEF TInv
<1>8. CASE ListEnds \/ Fails \/ Restart
  <2>1. TypeOK' BY <1>8, RollsBackDoes DEF TInv, TypeOK
  <2>2. ~Sending' BY <1>8, RollsBackDoes, OMailAssumption DEF Sending, TInv
  <2>3. QED BY <2>1, <2>2 DEF TInv
<1>9. ASSUME NEW r \in Requests, BeginsSend(r) \/ BeginsBatch(r) \/ BeginsList(r) PROVE TInv'
  <2>0. TypeOK BY DEF TInv
  <2>1. /\ work = db /\ UNCHANGED <<db, work, disk, bounds>> /\ waiting' \subseteq Requests
        /\ tx' \in Send \cup Batch \cup List
    BY <2>0, <1>9, BeginsDoes
  <2>2. TypeOK' BY <2>0, <2>1, OMailAssumption DEF TypeOK
  <2>3. ASSUME Sending' PROVE Progress'
    <3>1. /\ tx'.at = "thread" /\ tx'.done = 0 /\ (tx'.reply # None => tx'.reply \in Messages(db))
          /\ tx'.good \subseteq 1..tx'.n
      BY <2>0, <2>3, <1>9, BeginsDoes DEF Sending, Send, Batch, List
    <3>2. QED BY <2>1, <3>1 DEF Progress, Numbered, Messages
  <2>4. QED BY <2>2, <2>3 DEF TInv
<1>10. ASSUME NEW r \in Requests, Ask(r) \/ GivesUp(r) PROVE TInv'
  <2>1. waiting' \subseteq Requests /\ UNCHANGED <<db, work, tx, disk, bounds>>
    BY <1>10, WaitingDoes DEF TInv
  <2>2. QED BY <2>1 DEF TInv, TypeOK, Sending, Progress, Messages, Threads
<1>11. CASE UNCHANGED vars
  BY <1>11 DEF vars, TInv, TypeOK, Sending, Progress, Messages, Threads
<1>12. QED BY <1>1, <1>2, <1>3, <1>4, <1>5, <1>6, <1>7, <1>8, <1>9, <1>10, <1>11, Steps

\* The tables, the transaction that holds the lock and the files on the disk
\* keep their types; with nobody at the lock there is nothing uncommitted.
THEOREM TypeCorrect == Spec => []TypeOK
<1>1. TInv => TypeOK BY DEF TInv
<1>2. QED BY <1>1, InitTInv, NextTInv, PTL DEF Spec

-----------------------------------------------------------------------------
(* Every attachment has its file *)

IOnDisk == db.attachments \subseteq disk /\ work.attachments \subseteq disk

LEMMA NextIOnDisk == TInv /\ IOnDisk /\ [Next]_vars => IOnDisk'
<1> SUFFICES ASSUME TInv, IOnDisk, [Next]_vars PROVE IOnDisk' OBVIOUS
<1> USE DEF IOnDisk
<1>1. CASE Attaches
  <2>1. /\ db' = db /\ disk' = disk \cup NewRow
        /\ work'.attachments = work.attachments \cup NewRow
    BY <1>1, AttachesDoes
  <2>2. QED BY <2>1
<1>2. ASSUME UNCHANGED <<db, disk>>, work'.attachments = work.attachments PROVE IOnDisk'
  BY <1>2
<1>3. CASE CountsThread \/ InsertsMessage \/ DrawsTakenId
  BY <1>2, <1>3, CountsThreadDoes, InsertsMessageDoes, DrawsTakenIdDoes
<1>4. CASE AddsLabels \/ ChangesLabels BY <1>2, <1>4, AddsLabelsDoes, ChangesLabelsDoes
<1>5. CASE Commits BY <1>5, CommitsDoes
<1>6. CASE ListEnds \/ Fails \/ Restart BY <1>6, RollsBackDoes DEF TInv
<1>7. ASSUME NEW r \in Requests, BeginsSend(r) \/ BeginsBatch(r) \/ BeginsList(r) PROVE IOnDisk'
  BY <1>7, BeginsDoes DEF TInv
<1>8. ASSUME NEW r \in Requests, Ask(r) \/ GivesUp(r) PROVE IOnDisk'
  BY <1>8, WaitingDoes DEF TInv
<1>9. CASE UNCHANGED vars BY <1>9 DEF vars
<1>10. QED BY <1>1, <1>3, <1>4, <1>5, <1>6, <1>7, <1>8, <1>9, Steps

\* A row of moha_attachments is committed only once its file is written, and
\* no rollback takes a file a committed row names.
THEOREM AttachmentsOnDiskHolds == Spec => []AttachmentsOnDisk
<1>1. Init => IOnDisk BY DEF Init, IOnDisk
<1>2. IOnDisk => AttachmentsOnDisk BY DEF IOnDisk, AttachmentsOnDisk
<1>3. QED BY <1>1, <1>2, InitTInv, NextTInv, NextIOnDisk, PTL DEF Spec

-----------------------------------------------------------------------------
(* The counts of the threads *)

In(d, t) == {m \in Messages(d) : d.messages[m].thread = t}

\* The thread a send has counted its message in, before the message is there.
Owed == IF Sending /\ tx.at = "message" THEN {tx.thread} ELSE {}

AddsUp(d, owed) ==
    \A t \in Threads(d) :
      d.threads[t].count = Cardinality(In(d, t)) + d.threads[t].lost + (IF t \in owed THEN 1 ELSE 0)
RepliesStay(d) ==
    \A m \in Messages(d) :
      LET p == d.messages[m].reply
      IN  /\ d.messages[m].thread \in Threads(d)
          /\ p # None => p \in Messages(d) /\ d.messages[p].thread = d.messages[m].thread

ICounts ==
    /\ IsFiniteSet(Messages(db)) /\ IsFiniteSet(Messages(work))
    /\ AddsUp(db, {}) /\ AddsUp(work, Owed)
    /\ RepliesStay(db) /\ RepliesStay(work)
    /\ Sending /\ tx.at = "message" /\ tx.reply # None =>
         tx.thread = work.messages[tx.reply].thread

\* The same messages in the same threads.
LEMMA InSame ==
    ASSUME NEW d, NEW e, e.messages = d.messages
    PROVE  Messages(e) = Messages(d) /\ \A t : In(e, t) = In(d, t)
BY DEF Messages, In

LEMMA InFinite ==
    ASSUME NEW d, IsFiniteSet(Messages(d)), NEW t
    PROVE  IsFiniteSet(In(d, t)) /\ Cardinality(In(d, t)) \in Nat
BY FS_Subset, FS_CardinalityType DEF In

\* Committed counts, and replies, when the tables are as they were.
LEMMA SameTables ==
    ASSUME NEW d, NEW e, NEW owed, e.messages = d.messages, e.threads = d.threads,
           AddsUp(d, owed), RepliesStay(d), IsFiniteSet(Messages(d))
    PROVE  AddsUp(e, owed) /\ RepliesStay(e) /\ IsFiniteSet(Messages(e))
BY InSame DEF AddsUp, RepliesStay, Threads, Messages

LEMMA NextICounts == TInv /\ TInv' /\ ICounts /\ [Next]_vars => ICounts'
<1> SUFFICES ASSUME TInv, TInv', ICounts, [Next]_vars PROVE ICounts' OBVIOUS
<1> USE DEF bounds
<1>0. work \in Database /\ (tx.at # "message" => Owed = {})
  BY DEF TInv, TypeOK, Owed
<1>1. CASE CountsThread
  <2>1. PICK t \in ThreadFor :
          /\ t \in Ids /\ work'.threads[t] = OneMore(work.threads[t])
          /\ \A s \in Ids : s # t => work'.threads[s] = work.threads[s]
          /\ work'.threads[t] \in Thread
          /\ tx' = [tx EXCEPT !.at = "message", !.thread = t]
    BY <1>1, CountsThreadDoes
  <2>2. /\ Sending /\ tx.at = "thread" /\ db' = db /\ Sending'
        /\ work'.messages = work.messages
    BY <1>1, CountsThreadDoes
  <2>3. tx'.at = "message" /\ tx'.thread = t /\ tx'.reply = tx.reply /\ Owed = {} /\ Owed' = {t}
    BY <2>1, <2>2 DEF Sending, Send, Owed
  <2>4. /\ Messages(work)' = Messages(work)
        /\ \A s : In(work', s) = In(work, s)
        /\ Threads(work)' = Threads(work) \cup {t}
    BY <2>1, <2>2, InSame, OMailAssumption DEF Threads, Messages
  <2>5. RepliesStay(work)' BY <2>2, <2>4 DEF ICounts, RepliesStay
  <2>6. ASSUME NEW s \in Threads(work)'
        PROVE  work'.threads[s].count =
                 Cardinality(In(work', s)) + work'.threads[s].lost + (IF s \in {t} THEN 1 ELSE 0)
    <3>1. CASE s # t
      BY <2>1, <2>3, <2>4, <2>6, <3>1 DEF ICounts, AddsUp, Threads
    <3>2. CASE s = t /\ t \in Threads(work)
      <4>1. work.threads[t] \in Thread BY <1>0, <3>2 DEF Threads, Database
      <4>2. work'.threads[t] = [work.threads[t] EXCEPT !.count = @ + 1]
        BY <2>1, <3>2 DEF OneMore, Threads
      <4>3. work.threads[t].count = Cardinality(In(work, t)) + work.threads[t].lost
        BY <2>3, <3>2, <4>1, InFinite DEF ICounts, AddsUp, Thread
      <4>4. /\ work'.threads[t].count = work.threads[t].count + 1
            /\ work'.threads[t].lost = work.threads[t].lost
            /\ work.threads[t].lost \in Nat
        BY <4>1, <4>2 DEF Thread
      <4>5. Cardinality(In(work, t)) \in Nat BY InFinite DEF ICounts
      <4>6. QED BY <2>4, <3>2, <4>3, <4>4, <4>5
    <3>3. CASE s = t /\ t \notin Threads(work)
      <4>1. work'.threads[t] = [count |-> 1, lost |-> 0]
        BY <2>1, <3>3 DEF OneMore, Threads
      <4>2. In(work, t) = {} BY <3>3 DEF ICounts, RepliesStay, In
      <4>3. Cardinality(In(work', t)) = 0 BY <2>4, <4>2, FS_EmptySet
      <4>4. QED BY <3>3, <4>1, <4>3
    <3>4. QED BY <3>1, <3>2, <3>3
  <2>7. AddsUp(work', Owed') BY <2>3, <2>6 DEF AddsUp, Threads
  <2>8. ASSUME tx.reply # None PROVE t = work.messages[tx.reply].thread
    BY <2>1, <2>8 DEF ThreadFor
  <2>9. QED BY <2>2, <2>3, <2>4, <2>5, <2>7, <2>8 DEF ICounts
<1>2. CASE InsertsMessage
  <2>1. PICK m \in Ids \ Messages(work) :
          /\ work'.messages[m] =
               [thread |-> tx.thread, from |-> tx.from, to |-> tx.to, reply |-> tx.reply, good |-> tx.good]
          /\ work'.messages[m] \in Message
          /\ \A k \in Ids : k # m => work'.messages[k] = work.messages[k]
          /\ tx' = [tx EXCEPT !.at = "labels", !.message = m]
    BY <1>2, InsertsMessageDoes
  <2>2. /\ Sending /\ tx.at = "message" /\ db' = db /\ Sending' /\ work'.threads = work.threads
    BY <1>2, InsertsMessageDoes
  <2>3. tx'.at = "labels" /\ Owed = {tx.thread} /\ Owed' = {}
    BY <2>1, <2>2 DEF Sending, Send, Owed
  <2>4. /\ Messages(work)' = Messages(work) \cup {m} /\ Threads(work)' = Threads(work)
        /\ work'.messages[m].thread = tx.thread /\ work'.messages[m].reply = tx.reply
    BY <2>1, <2>2, OMailAssumption DEF Messages, Threads
  <2>5. IsFiniteSet(Messages(work)') BY <2>4, FS_AddElement DEF ICounts
  <2>6. Progress /\ tx.thread \in Threads(work) BY <2>2 DEF TInv, Progress
  <2>7. RepliesStay(work)'
    <3> SUFFICES ASSUME NEW k \in Messages(work)'
                 PROVE  /\ work'.messages[k].thread \in Threads(work)'
                        /\ work'.messages[k].reply # None =>
                             /\ work'.messages[k].reply \in Messages(work)'
                             /\ work'.messages[work'.messages[k].reply].thread = work'.messages[k].thread
      BY DEF RepliesStay, Messages, Threads
    <3>1. CASE k = m
      <4>1. tx.reply # None => /\ tx.reply \in Messages(work)
                               /\ tx.thread = work.messages[tx.reply].thread
        BY <2>2, <2>6 DEF Progress, ICounts
      <4>2. tx.reply # None => work'.messages[tx.reply] = work.messages[tx.reply]
        BY <2>1, <4>1 DEF Messages
      <4>3. QED BY <2>4, <2>6, <3>1, <4>1, <4>2
    <3>2. CASE k # m
      <4>1. k \in Messages(work) /\ work'.messages[k] = work.messages[k]
        BY <2>1, <2>4, <3>2 DEF Messages
      <4>2. work.messages[k].reply # None =>
              work'.messages[work.messages[k].reply] = work.messages[work.messages[k].reply]
        BY <2>1, <4>1 DEF ICounts, RepliesStay, Messages
      <4>3. QED BY <2>4, <4>1, <4>2 DEF ICounts, RepliesStay
    <3>3. QED BY <3>1, <3>2
  <2>8. ASSUME NEW s \in Threads(work)
        PROVE  work'.threads[s].count = Cardinality(In(work', s)) + work'.threads[s].lost
    <3>1. IsFiniteSet(In(work, s)) /\ Cardinality(In(work, s)) \in Nat BY InFinite DEF ICounts
    <3>2. work.threads[s] \in Thread BY <1>0, <2>8 DEF Threads, Database
    <3>3. m \notin In(work, s) BY <2>1 DEF In
    <3>4. CASE s = tx.thread
      <4>1. In(work', s) = In(work, s) \cup {m}
        BY <2>1, <2>4, <3>4 DEF In, Messages
      <4>2. Cardinality(In(work', s)) = Cardinality(In(work, s)) + 1
        BY <3>1, <3>3, <4>1, FS_AddElement
      <4>3. work.threads[s].count = Cardinality(In(work, s)) + work.threads[s].lost + 1
        BY <2>3, <3>4 DEF ICounts, AddsUp
      <4>4. QED BY <2>2, <3>1, <3>2, <4>2, <4>3 DEF Thread
    <3>5. CASE s # tx.thread
      <4>1. In(work', s) = In(work, s) BY <2>1, <2>4, <3>5 DEF In, Messages
      <4>2. work.threads[s].count = Cardinality(In(work, s)) + work.threads[s].lost
        BY <2>3, <3>1, <3>2, <3>5 DEF ICounts, AddsUp, Thread
      <4>3. QED BY <2>2, <4>1, <4>2
    <3>6. QED BY <3>4, <3>5
  <2>9. AddsUp(work', Owed')
    <3> SUFFICES ASSUME NEW s \in Threads(work)'
                 PROVE  work'.threads[s].count = Cardinality(In(work', s)) + work'.threads[s].lost + 0
      BY <2>3 DEF AddsUp, Threads
    <3>1. s \in Threads(work) /\ work'.threads[s].lost \in Nat
      BY <1>0, <2>2, <2>4 DEF Threads, Database, Thread
    <3>2. Cardinality(In(work', s)) \in Nat BY <2>5, InFinite DEF Messages
    <3>3. QED BY <2>8, <3>1, <3>2
  <2>10. QED BY <2>2, <2>3, <2>5, <2>7, <2>9 DEF ICounts
<1>3. CASE DrawsTakenId
  <2>1. /\ Sending /\ tx.at = "message" /\ db' = db /\ work'.messages = work.messages
        /\ tx.thread \in Threads(work)
        /\ work'.threads[tx.thread] = [work.threads[tx.thread] EXCEPT !.lost = @ + 1]
        /\ work'.threads[tx.thread] \in Thread
        /\ \A s \in Ids : s # tx.thread => work'.threads[s] = work.threads[s]
        /\ tx' = [tx EXCEPT !.at = "thread"]
    BY <1>3, DrawsTakenIdDoes
  <2>2. tx'.at = "thread" /\ Owed = {tx.thread} /\ Owed' = {}
    BY <2>1 DEF Sending, Send, Owed
  <2>3. /\ Messages(work)' = Messages(work) /\ \A s : In(work', s) = In(work, s)
        /\ Threads(work)' = Threads(work)
    BY <2>1, InSame, OMailAssumption DEF Threads, Messages
  <2>4. RepliesStay(work)' BY <2>1, <2>3 DEF ICounts, RepliesStay
  <2>5. ASSUME NEW s \in Threads(work)
        PROVE  work'.threads[s].count = Cardinality(In(work', s)) + work'.threads[s].lost + 0
    <3>1. Cardinality(In(work, s)) \in Nat BY InFinite DEF ICounts
    <3>2. work.threads[s] \in Thread BY <1>0, <2>5 DEF Threads, Database
    <3>3. CASE s = tx.thread
      <4>1. work.threads[s].count = Cardinality(In(work, s)) + work.threads[s].lost + 1
        BY <2>2, <3>3 DEF ICounts, AddsUp
      <4>2. /\ work'.threads[s].count = work.threads[s].count
            /\ work'.threads[s].lost = work.threads[s].lost + 1
            /\ work.threads[s].lost \in Nat
        BY <2>1, <3>2, <3>3 DEF Thread
      <4>3. QED BY <2>3, <3>1, <4>1, <4>2
    <3>4. CASE s # tx.thread
      BY <2>1, <2>2, <2>3, <2>5, <3>4 DEF ICounts, AddsUp, Threads
    <3>5. QED BY <3>3, <3>4
  <2>6. AddsUp(work', Owed') BY <2>2, <2>3, <2>5 DEF AddsUp, Threads
  <2>7. QED BY <2>1, <2>2, <2>3, <2>4, <2>6 DEF ICounts
<1>4. ASSUME db' = db, work'.messages = work.messages, work'.threads = work.threads,
             Owed' = Owed, Owed' = {}
      PROVE  ICounts'
  <2>1. AddsUp(work', Owed') /\ RepliesStay(work') /\ IsFiniteSet(Messages(work'))
    BY <1>4, SameTables DEF ICounts
  <2>2. ~(Sending' /\ tx'.at = "message") BY <1>4 DEF Owed
  <2>3. QED BY <1>4, <2>1, <2>2 DEF ICounts, AddsUp, RepliesStay, Messages, Threads, In
<1>5. CASE AddsLabels
  <2>1. tx.at = "labels" /\ tx'.at \in {"attach", "commit"}
    BY <1>5, AddsLabelsDoes DEF Sending, Send, AfterLabels
  <2>2. Owed = {} /\ Owed' = {} BY <2>1 DEF Owed
  <2>3. QED BY <1>4, <1>5, <2>2, AddsLabelsDoes
<1>6. CASE Attaches
  <2>1. tx.at = "attach" /\ tx'.at \in {"attach", "commit"}
    BY <1>6, AttachesDoes DEF Sending, Send
  <2>2. Owed = {} /\ Owed' = {} BY <2>1 DEF Owed
  <2>3. QED BY <1>4, <1>6, <2>2, AttachesDoes
<1>7. CASE ChangesLabels
  <2>1. Owed = {} /\ Owed' = {} BY <1>7, ChangesLabelsDoes DEF Owed, Sending, Send, Batch
  <2>2. QED BY <1>4, <1>7, <2>1, ChangesLabelsDoes
<1>8. CASE Commits
  <2>1. tx.at = "commit" /\ tx' = None /\ db' = work /\ work' = work BY <1>8, CommitsDoes
  <2>2. ~Sending' /\ Owed = {} /\ Owed' = {} BY <2>1, OMailAssumption DEF Sending, Owed
  <2>3. QED BY <2>1, <2>2 DEF ICounts
<1>9. CASE ListEnds \/ Fails \/ Restart
  <2>1. tx' = None /\ work' = db /\ db' = db BY <1>9, RollsBackDoes DEF TInv
  <2>2. ~Sending' /\ Owed' = {} BY <2>1, OMailAssumption DEF Sending, Owed
  <2>3. QED BY <2>1, <2>2 DEF ICounts
<1>10. ASSUME NEW r \in Requests, BeginsSend(r) \/ BeginsBatch(r) \/ BeginsList(r) PROVE ICounts'
  <2>1. work = db /\ db' = db /\ work' = work
        /\ ((tx' \in Send /\ tx'.at = "thread") \/ tx' \in Batch \cup List)
    BY <1>10, BeginsDoes DEF TInv
  <2>2. ~(Sending' /\ tx'.at = "message") BY <2>1 DEF Sending, Send, Batch, List
  <2>3. Owed' = {} BY <2>2 DEF Owed
  <2>4. QED BY <2>1, <2>2, <2>3 DEF ICounts
<1>11. ASSUME UNCHANGED <<db, work, tx>> PROVE ICounts'
  BY <1>11 DEF ICounts, AddsUp, RepliesStay, In, Messages, Threads, Owed, Sending
<1>12. CASE \E r \in Requests : Ask(r) \/ GivesUp(r) BY <1>11, <1>12, WaitingDoes DEF TInv
<1>13. CASE UNCHANGED vars BY <1>11, <1>13 DEF vars
<1>14. QED
  BY <1>1, <1>2, <1>3, <1>5, <1>6, <1>7, <1>8, <1>9, <1>10, <1>12, <1>13, Steps

LEMMA InitICounts == Init => ICounts
<1> SUFFICES ASSUME Init PROVE ICounts OBVIOUS
<1>1. Messages(db) = {} /\ Threads(db) = {} /\ work = db /\ ~Sending
  BY OMailAssumption DEF Init, Messages, Threads, Sending
<1>2. QED BY <1>1, FS_EmptySet DEF ICounts, AddsUp, RepliesStay

\* However often an id is taken, and whatever is rolled back, a thread's
\* message_count is off by the tries that met a taken id and by no more, and a
\* reply is in the thread of what it replies to.
THEOREM ThreadsAddUpHolds == Spec => []ThreadsAddUp
<1>1. Init => ICounts BY InitICounts
<1>2. TInv /\ ICounts => ThreadsAddUp
  <2> SUFFICES ASSUME TInv, ICounts PROVE ThreadsAddUp OBVIOUS
  <2>1. ASSUME NEW t \in Threads(db)
        PROVE  db.threads[t].count = Cardinality(In(db, t)) + db.threads[t].lost
    <3>1. db.threads[t] \in Thread BY DEF TInv, TypeOK, Threads, Database
    <3>2. Cardinality(In(db, t)) \in Nat BY InFinite DEF ICounts
    <3>3. QED BY <3>1, <3>2 DEF ICounts, AddsUp, Thread
  <2>2. QED BY <2>1 DEF ICounts, RepliesStay, ThreadsAddUp, In
<1>3. QED BY <1>1, <1>2, InitTInv, NextTInv, NextICounts, PTL DEF Spec

-----------------------------------------------------------------------------
(* What is delivered *)

Rows(d, m) == {i \in 1..MaxAttachments : <<m, i>> \in d.attachments}
LabelsOf(d, m) == {l \in Users \X LabelNames : <<m, l[1], l[2]>> \in d.links}
AllRows(m, good, n) == {<<m, i>> : i \in good \cap (1..n)}

\* Nothing belongs to a message that is not there.
NoneBelongs == \A m \in Ids : m \notin Messages(db) => Rows(db, m) = {} /\ LabelsOf(db, m) = {}

\* The copy differs from what is committed by what the send has done so far,
\* and by nothing before its message is in.
SendSoFar ==
    IF tx.at \in Numbered
      THEN /\ tx.message \notin Messages(db)
           /\ \A k \in Ids : k # tx.message => work.messages[k] = db.messages[k]
           /\ work.attachments = db.attachments \cup AllRows(tx.message, tx.good, tx.done)
           /\ work.links = IF tx.at = "labels" THEN db.links
                           ELSE db.links \cup Links(tx.message, tx.from, tx.to)
      ELSE /\ work.messages = db.messages /\ work.links = db.links
           /\ work.attachments = db.attachments

\* The thread is the one of the message replied to, or one without messages.
SendThread ==
    tx.at # "thread" =>
      IF tx.reply = None THEN \A k \in Messages(db) : db.messages[k].thread # tx.thread
      ELSE tx.reply \in Messages(db) /\ db.messages[tx.reply].thread = tx.thread

BatchSoFar ==
    /\ tx.messages \subseteq Messages(db)
    /\ work.messages = db.messages /\ work.attachments = db.attachments
    /\ work.links = IF tx.at = "change" THEN db.links ELSE (db.links \cup Added) \ Removed

IBox ==
    /\ NoneBelongs
    /\ Sending => SendSoFar /\ SendThread
    /\ tx \in Batch => BatchSoFar

\* What a send, or a batch, is about to commit, message by message.
LEMMA SentIs ==
    ASSUME TInv, IBox, Sending, tx.at = "commit"
    PROVE  LET m == tx.message
           IN  /\ m \in Ids \ Messages(db) /\ m \in Messages(work)
               /\ \A k \in Ids : k # m => /\ work.messages[k] = db.messages[k]
                                          /\ Rows(work, k) = Rows(db, k)
                                          /\ LabelsOf(work, k) = LabelsOf(db, k)
               /\ Rows(work, m) = tx.good
               /\ LabelsOf(work, m) = {<<tx.from, "sent">>, <<tx.to, "inbox">>, <<tx.to, "unread">>}
<1> DEFINE m == tx.message
<1>1. Progress /\ SendSoFar /\ tx \in Send BY DEF TInv, IBox, Sending
<1>2. m \in Ids /\ m \in Messages(work) /\ m \notin Messages(db) /\ tx.done = tx.n
  BY <1>1 DEF Progress, SendSoFar, Numbered, Messages
<1>3. /\ tx.from \in Users /\ tx.to \in Users /\ tx.good \subseteq 1..MaxAttachments
      /\ tx.good \subseteq 1..tx.n
  BY <1>1 DEF Send, Progress
<1>4. Rows(db, m) = {} /\ LabelsOf(db, m) = {} BY <1>2 DEF IBox, NoneBelongs
<1>5. /\ \A k \in Ids : k # m => work.messages[k] = db.messages[k]
      /\ work.attachments = db.attachments \cup AllRows(m, tx.good, tx.n)
      /\ work.links = db.links \cup Links(m, tx.from, tx.to)
  BY <1>1, <1>2 DEF SendSoFar, Numbered
<1> HIDE DEF m
<1>6. ASSUME NEW k \in Ids, k # m PROVE Rows(work, k) = Rows(db, k) /\ LabelsOf(work, k) = LabelsOf(db, k)
  <2>1. \A i : <<k, i>> \in work.attachments <=> <<k, i>> \in db.attachments BY <1>5, <1>6 DEF AllRows
  <2>2. \A u, l : <<k, u, l>> \in work.links <=> <<k, u, l>> \in db.links BY <1>5, <1>6 DEF Links
  <2>3. QED BY <2>1, <2>2 DEF Rows, LabelsOf
<1>7. Rows(work, m) = tx.good
  <2>1. tx.good \cap (1..tx.n) = tx.good BY <1>3
  <2>2. work.attachments = db.attachments \cup {<<m, i>> : i \in tx.good} BY <1>5, <2>1 DEF AllRows
  <2>3. \A i \in 1..MaxAttachments : <<m, i>> \in work.attachments <=> i \in tx.good
    BY <1>4, <2>2 DEF Rows
  <2>4. QED BY <1>3, <2>3 DEF Rows
<1>8. LabelsOf(work, m) = {<<tx.from, "sent">>, <<tx.to, "inbox">>, <<tx.to, "unread">>}
  <2>1. \A u \in Users, l \in LabelNames : <<m, u, l>> \notin db.links
    <3> SUFFICES ASSUME NEW u \in Users, NEW l \in LabelNames, <<m, u, l>> \in db.links PROVE FALSE OBVIOUS
    <3>1. <<u, l>> \in LabelsOf(db, m) BY DEF LabelsOf
    <3>2. QED BY <1>4, <3>1
  <2>2. \A u \in Users, l \in LabelNames :
          <<m, u, l>> \in work.links <=> <<u, l>> \in {<<tx.from, "sent">>, <<tx.to, "inbox">>, <<tx.to, "unread">>}
    BY <1>5, <2>1 DEF Links
  <2>3. {<<tx.from, "sent">>, <<tx.to, "inbox">>, <<tx.to, "unread">>} \subseteq Users \X LabelNames
    BY <1>3 DEF LabelNames
  <2>4. QED BY <2>2, <2>3 DEF LabelsOf
<1>9. QED BY <1>2, <1>5, <1>6, <1>7, <1>8 DEF m

LEMMA BatchIs ==
    ASSUME TInv, IBox, tx \in Batch, tx.at = "commit"
    PROVE  /\ tx.messages \subseteq Messages(db) /\ work.messages = db.messages
           /\ \A k \in Ids :
                /\ Rows(work, k) = Rows(db, k)
                /\ k \notin tx.messages => LabelsOf(work, k) = LabelsOf(db, k)
                /\ k \in tx.messages =>
                     LabelsOf(work, k) =
                       (LabelsOf(db, k) \cup {tx.from} \X tx.add) \ ({tx.from} \X tx.remove)
<1>1. /\ tx.messages \subseteq Messages(db) /\ work.messages = db.messages
      /\ work.attachments = db.attachments /\ work.links = (db.links \cup Added) \ Removed
  BY DEF IBox, BatchSoFar
<1>2. tx.from \in Users /\ tx.add \subseteq LabelNames BY DEF Batch
<1> SUFFICES ASSUME NEW k \in Ids
             PROVE  /\ Rows(work, k) = Rows(db, k)
                    /\ k \notin tx.messages => LabelsOf(work, k) = LabelsOf(db, k)
                    /\ k \in tx.messages =>
                         LabelsOf(work, k) =
                           (LabelsOf(db, k) \cup {tx.from} \X tx.add) \ ({tx.from} \X tx.remove)
  BY <1>1
<1>3. Rows(work, k) = Rows(db, k) BY <1>1 DEF Rows
<1>4. ASSUME k \notin tx.messages PROVE LabelsOf(work, k) = LabelsOf(db, k)
  <2>1. \A u, l : <<k, u, l>> \in work.links <=> <<k, u, l>> \in db.links
    BY <1>1, <1>4 DEF Added, Removed
  <2>2. QED BY <2>1 DEF LabelsOf
<1>5. ASSUME k \in tx.messages
      PROVE  LabelsOf(work, k) =
               (LabelsOf(db, k) \cup {tx.from} \X tx.add) \ ({tx.from} \X tx.remove)
  <2>1. \A u, l : <<k, u, l>> \in work.links <=>
                    /\ <<k, u, l>> \in db.links \/ (u = tx.from /\ l \in tx.add)
                    /\ ~(u = tx.from /\ l \in tx.remove)
    BY <1>1, <1>5 DEF Added, Removed
  <2>2. \A u \in Users, l \in LabelNames :
          <<u, l>> \in LabelsOf(work, k) <=>
            /\ <<u, l>> \in LabelsOf(db, k) \/ (u = tx.from /\ l \in tx.add)
            /\ ~(u = tx.from /\ l \in tx.remove)
    BY <2>1 DEF LabelsOf
  <2>3. LabelsOf(work, k) \subseteq Users \X LabelNames /\ LabelsOf(db, k) \subseteq Users \X LabelNames
        /\ {tx.from} \X tx.add \subseteq Users \X LabelNames
    BY <1>2 DEF LabelsOf
  <2>4. \A u, l : <<u, l>> \in {tx.from} \X tx.add <=> u = tx.from /\ l \in tx.add OBVIOUS
  <2>5. \A u, l : <<u, l>> \in {tx.from} \X tx.remove <=> u = tx.from /\ l \in tx.remove OBVIOUS
  <2>6. QED BY <2>2, <2>3, <2>4, <2>5
<1>6. QED BY <1>3, <1>4, <1>5

LEMMA NextIBox == TInv /\ TInv' /\ ICounts /\ IBox /\ [Next]_vars => IBox'
<1> SUFFICES ASSUME TInv, TInv', ICounts, IBox, [Next]_vars PROVE IBox' OBVIOUS
<1> USE DEF bounds
<1>1. ASSUME Sending', db' = db, SendSoFar', SendThread' PROVE IBox'
  <2>1. tx' \notin Batch BY <1>1 DEF Sending, Send, Batch
  <2>2. NoneBelongs' BY <1>1 DEF IBox, NoneBelongs, Rows, LabelsOf, Messages
  <2>3. QED BY <1>1, <2>1, <2>2 DEF IBox
<1>2. CASE CountsThread
  <2>1. PICK t \in ThreadFor : tx' = [tx EXCEPT !.at = "message", !.thread = t]
    BY <1>2, CountsThreadDoes
  <2>2. /\ Sending /\ Sending' /\ tx.at = "thread" /\ db' = db /\ work'.messages = work.messages
        /\ work'.links = work.links /\ work'.attachments = work.attachments
    BY <1>2, CountsThreadDoes
  <2>3. tx'.at = "message" /\ tx'.thread = t /\ tx'.reply = tx.reply BY <2>1, <2>2 DEF Sending, Send
  <2>4. SendSoFar' BY <2>2, <2>3 DEF IBox, SendSoFar, Numbered
  <2>5. work.messages = db.messages BY <2>2 DEF IBox, SendSoFar, Numbered
  <2>6. CASE tx.reply = None
    <3>1. t \notin Threads(work) BY <2>1, <2>6 DEF ThreadFor
    <3>2. \A k \in Messages(db) : db.messages[k].thread # t
      BY <2>5, <3>1 DEF ICounts, RepliesStay, Messages
    <3>3. QED BY <1>1, <2>2, <2>3, <2>4, <2>6, <3>2 DEF SendThread, Messages
  <2>7. CASE tx.reply # None
    <3>1. tx.reply \in Messages(db) /\ t = db.messages[tx.reply].thread
      BY <2>1, <2>2, <2>5, <2>7 DEF ThreadFor, TInv, Progress, Messages
    <3>2. QED BY <1>1, <2>2, <2>3, <2>4, <2>7, <3>1 DEF SendThread, Messages
  <2>8. QED BY <2>6, <2>7
<1>3. ASSUME Sending, db' = db, tx'.thread = tx.thread, tx'.reply = tx.reply, tx.at # "thread"
      PROVE  SendThread'
  BY <1>3 DEF IBox, SendThread, Messages
<1>4. CASE InsertsMessage
  <2>1. PICK m \in Ids \ Messages(work) :
          /\ \A k \in Ids : k # m => work'.messages[k] = work.messages[k]
          /\ tx' = [tx EXCEPT !.at = "labels", !.message = m]
    BY <1>4, InsertsMessageDoes
  <2>2. /\ Sending /\ Sending' /\ tx.at = "message" /\ db' = db
        /\ work'.links = work.links /\ work'.attachments = work.attachments
    BY <1>4, InsertsMessageDoes
  <2>3. /\ tx'.at = "labels" /\ tx'.message = m /\ tx'.done = 0 /\ tx'.good = tx.good
        /\ tx'.thread = tx.thread /\ tx'.reply = tx.reply
    BY <2>1, <2>2 DEF Sending, Send, TInv, Progress
  <2>4. work.messages = db.messages /\ work.links = db.links /\ work.attachments = db.attachments
    BY <2>2 DEF IBox, SendSoFar, Numbered
  <2>5. AllRows(m, tx.good, 0) = {} BY DEF AllRows
  <2>6. m \notin Messages(db) BY <2>1, <2>4 DEF Messages
  <2>7. SendSoFar' BY <2>1, <2>2, <2>3, <2>4, <2>5, <2>6 DEF SendSoFar, Numbered, Messages
  <2>8. QED BY <1>1, <1>3, <2>2, <2>3, <2>7
<1>5. CASE DrawsTakenId
  <2>1. /\ Sending /\ Sending' /\ tx.at = "message" /\ db' = db /\ work'.messages = work.messages
        /\ work'.links = work.links /\ work'.attachments = work.attachments
        /\ tx' = [tx EXCEPT !.at = "thread"]
    BY <1>5, DrawsTakenIdDoes
  <2>2. tx'.at = "thread" BY <2>1 DEF Sending, Send
  <2>3. SendSoFar' /\ SendThread' BY <2>1, <2>2 DEF IBox, SendSoFar, SendThread, Numbered
  <2>4. QED BY <1>1, <2>1, <2>3
<1>6. CASE AddsLabels
  <2>1. /\ Sending /\ Sending' /\ tx.at = "labels" /\ db' = db /\ work'.messages = work.messages
        /\ work'.links = work.links \cup Links(tx.message, tx.from, tx.to)
        /\ work'.attachments = work.attachments /\ tx' = [tx EXCEPT !.at = AfterLabels]
    BY <1>6, AddsLabelsDoes
  <2>2. /\ tx'.at \in {"attach", "commit"} /\ tx'.message = tx.message
        /\ tx'.done = tx.done /\ tx'.good = tx.good
        /\ tx'.from = tx.from /\ tx'.to = tx.to /\ tx'.thread = tx.thread /\ tx'.reply = tx.reply
    BY <2>1 DEF Sending, Send, AfterLabels
  <2>3. SendSoFar' BY <2>1, <2>2 DEF IBox, SendSoFar, Numbered, Messages
  <2>4. QED BY <1>1, <1>3, <2>1, <2>2, <2>3
<1>7. CASE Attaches
  <2>1. /\ Sending /\ Sending' /\ tx.at = "attach" /\ db' = db /\ work'.messages = work.messages
        /\ work'.links = work.links
        /\ work'.attachments = work.attachments \cup NewRow
        /\ tx' = [tx EXCEPT !.done = tx.done + 1,
                            !.at = IF tx.done + 1 = tx.n THEN "commit" ELSE "attach"]
    BY <1>7, AttachesDoes
  <2>2. /\ tx'.at \in {"attach", "commit"} /\ tx'.message = tx.message
        /\ tx'.done = tx.done + 1 /\ tx'.good = tx.good
        /\ tx'.from = tx.from /\ tx'.to = tx.to /\ tx'.thread = tx.thread /\ tx'.reply = tx.reply
        /\ tx.done \in Nat
    BY <2>1 DEF Sending, Send
  <2>3. AllRows(tx.message, tx.good, tx.done + 1) = AllRows(tx.message, tx.good, tx.done) \cup NewRow
    <3>1. 1..(tx.done + 1) = (1..tx.done) \cup {tx.done + 1} BY <2>2
    <3>2. QED BY <3>1 DEF AllRows, NewRow
  <2>4. SendSoFar' BY <2>1, <2>2, <2>3 DEF IBox, SendSoFar, Numbered, Messages
  <2>5. QED BY <1>1, <1>3, <2>1, <2>2, <2>4
<1>8. CASE ChangesLabels
  <2>1. /\ tx \in Batch /\ tx' \in Batch /\ tx.at = "change" /\ tx' = [tx EXCEPT !.at = "commit"]
        /\ db' = db /\ work'.messages = work.messages /\ work'.attachments = work.attachments
        /\ work'.links = (work.links \cup Added) \ Removed
    BY <1>8, ChangesLabelsDoes
  <2>2. /\ tx'.at = "commit" /\ tx'.messages = tx.messages /\ tx'.from = tx.from
        /\ tx'.add = tx.add /\ tx'.remove = tx.remove
    BY <2>1 DEF Batch
  <2>3. BatchSoFar' BY <2>1, <2>2 DEF IBox, BatchSoFar, Messages, Added, Removed
  <2>4. ~Sending' BY <2>1 DEF Sending, Send, Batch
  <2>5. QED BY <2>1, <2>3, <2>4 DEF IBox, NoneBelongs, Rows, LabelsOf, Messages
<1>9. CASE Commits
  <2>1. tx.at = "commit" /\ tx # None /\ tx' = None /\ db' = work BY <1>9, CommitsDoes
  <2>2. ~Sending' /\ tx' \notin Batch BY <2>1, OMailAssumption DEF Sending
  <2>3. tx \in Send \cup Batch BY <2>1 DEF TInv, TypeOK, List
  <2> SUFFICES ASSUME NEW k \in Ids, k \notin Messages(work)
               PROVE  Rows(work, k) = {} /\ LabelsOf(work, k) = {}
    BY <2>1, <2>2 DEF IBox, NoneBelongs, Rows, LabelsOf, Messages
  <2>4. CASE Sending BY <2>1, <2>4, SentIs DEF IBox, NoneBelongs, Messages
  <2>5. CASE tx \in Batch BY <2>1, <2>5, BatchIs DEF IBox, NoneBelongs, Messages
  <2>6. QED BY <2>3, <2>4, <2>5 DEF Sending
<1>10. CASE ListEnds \/ Fails \/ Restart
  <2>1. tx' = None /\ db' = db BY <1>10, RollsBackDoes DEF TInv
  <2>2. ~Sending' /\ tx' \notin Batch BY <2>1, OMailAssumption DEF Sending
  <2>3. QED BY <2>1, <2>2 DEF IBox, NoneBelongs, Rows, LabelsOf, Messages
<1>11. ASSUME NEW r \in Requests, BeginsSend(r) \/ BeginsBatch(r) \/ BeginsList(r) PROVE IBox'
  <2>1. /\ work = db /\ db' = db /\ work' = work
        /\ \/ tx' \in Send /\ tx'.at = "thread"
           \/ tx' \in Batch /\ tx'.at = "change" /\ tx'.messages \subseteq Messages(db)
           \/ tx' \in List
    BY <1>11, BeginsDoes DEF TInv
  <2>2. CASE tx' \in Send /\ tx'.at = "thread"
    BY <1>1, <2>1, <2>2 DEF Sending, SendSoFar, SendThread, Numbered
  <2>3. CASE tx' \in Batch /\ tx'.at = "change" /\ tx'.messages \subseteq Messages(db)
    <3>1. BatchSoFar' BY <2>1, <2>3 DEF BatchSoFar, Messages
    <3>2. ~Sending' BY <2>3 DEF Sending, Send, Batch
    <3>3. QED BY <2>1, <3>1, <3>2 DEF IBox, NoneBelongs, Rows, LabelsOf, Messages
  <2>4. CASE tx' \in List
    <3>1. ~Sending' /\ tx' \notin Batch BY <2>4 DEF Sending, Send, Batch, List
    <3>2. QED BY <2>1, <3>1 DEF IBox, NoneBelongs, Rows, LabelsOf, Messages
  <2>5. QED BY <2>1, <2>2, <2>3, <2>4
<1>12. ASSUME UNCHANGED <<db, work, tx>> PROVE IBox'
  BY <1>12 DEF IBox, NoneBelongs, Rows, LabelsOf, Messages, Sending, SendSoFar, SendThread,
               BatchSoFar, Added, Removed
<1>13. CASE \E r \in Requests : Ask(r) \/ GivesUp(r) BY <1>12, <1>13, WaitingDoes DEF TInv
<1>14. CASE UNCHANGED vars BY <1>12, <1>14 DEF vars
<1>15. QED
  BY <1>2, <1>4, <1>5, <1>6, <1>7, <1>8, <1>9, <1>10, <1>11, <1>13, <1>14, Steps

\* A message as it can be read.
LEMMA BoxAt ==
    ASSUME NEW d, NEW m \in Ids
    PROVE  Box(d)[m] =
             IF d.messages[m] = None THEN None
             ELSE [thread |-> d.messages[m].thread, from |-> d.messages[m].from,
                   to |-> d.messages[m].to, reply |-> d.messages[m].reply, sent |-> d.messages[m].good,
                   attachments |-> Rows(d, m), labels |-> LabelsOf(d, m)]
BY DEF Box, Rows, LabelsOf

LEMMA BoxThere ==
    ASSUME NEW d, NEW m \in Ids, d.messages[m] # None
    PROVE  Box(d)[m].thread = d.messages[m].thread /\ Box(d)[m].labels = LabelsOf(d, m)
<1>1. Box(d)[m] = [thread |-> d.messages[m].thread, from |-> d.messages[m].from,
                   to |-> d.messages[m].to, reply |-> d.messages[m].reply, sent |-> d.messages[m].good,
                   attachments |-> Rows(d, m), labels |-> LabelsOf(d, m)]
  BY BoxAt
<1>2. QED BY <1>1

LEMMA BoxSame ==
    ASSUME NEW d, NEW e, NEW m \in Ids, d.messages[m] = e.messages[m], Rows(d, m) = Rows(e, m),
           LabelsOf(d, m) = LabelsOf(e, m)
    PROVE  Box(d)[m] = Box(e)[m]
<1>1. CASE d.messages[m] = None BY <1>1, BoxAt
<1>2. CASE d.messages[m] # None
  <2>1. Box(d)[m] = [thread |-> d.messages[m].thread, from |-> d.messages[m].from,
                     to |-> d.messages[m].to, reply |-> d.messages[m].reply, sent |-> d.messages[m].good,
                     attachments |-> Rows(d, m), labels |-> LabelsOf(d, m)]
    BY <1>2, BoxAt
  <2>2. Box(e)[m] = [thread |-> e.messages[m].thread, from |-> e.messages[m].from,
                     to |-> e.messages[m].to, reply |-> e.messages[m].reply, sent |-> e.messages[m].good,
                     attachments |-> Rows(e, m), labels |-> LabelsOf(e, m)]
    BY <1>2, BoxAt
  <2>3. QED BY <2>1, <2>2
<1>3. QED BY <1>1, <1>2

LEMMA BoxNone ==
    ASSUME TypeOK, NEW m \in Ids, NEW d \in {db, work}
    PROVE  Box(d)[m] # None <=> m \in Messages(d)
<1>1. d.messages[m] \in {None} \cup Message BY DEF TypeOK, Database
<1>2. d.messages[m] # None =>
      [thread |-> d.messages[m].thread, from |-> d.messages[m].from,
       to |-> d.messages[m].to, reply |-> d.messages[m].reply, sent |-> d.messages[m].good,
       attachments |-> Rows(d, m), labels |-> LabelsOf(d, m)] \in Letter
  <2> SUFFICES ASSUME d.messages[m] # None PROVE  [thread |-> d.messages[m].thread, from |-> d.messages[m].from,
                 to |-> d.messages[m].to, reply |-> d.messages[m].reply, sent |-> d.messages[m].good,
                 attachments |-> Rows(d, m), labels |-> LabelsOf(d, m)] \in Letter
    OBVIOUS
  <2>1. d.messages[m] \in Message BY <1>1
  <2>2. Rows(d, m) \subseteq 1..MaxAttachments /\ LabelsOf(d, m) \subseteq Users \X LabelNames
    BY DEF Rows, LabelsOf
  <2>3. QED BY <2>1, <2>2 DEF Message, Letter
<1>3. QED BY <1>1, <1>2, BoxAt, OMailAssumption DEF Messages

\* The commit of a send is a delivery, the commit of a batch a relabelling, and
\* nothing else changes what can be read.
LEMMA Delivery ==
    ASSUME TInv, ICounts, IBox, Commits, Sending
    PROVE  M!Deliver
<1> DEFINE m == tx.message
           whole == M!Whole(tx.thread, tx.from, tx.to, tx.reply, tx.good)
<1>1. tx.at = "commit" /\ db' = work BY CommitsDoes
<1>2. /\ m \in Ids \ Messages(db) /\ m \in Messages(work)
      /\ \A k \in Ids : k # m => /\ work.messages[k] = db.messages[k]
                                 /\ Rows(work, k) = Rows(db, k)
                                 /\ LabelsOf(work, k) = LabelsOf(db, k)
      /\ Rows(work, m) = tx.good
      /\ LabelsOf(work, m) = {<<tx.from, "sent">>, <<tx.to, "inbox">>, <<tx.to, "unread">>}
  BY <1>1, SentIs
<1>3. /\ tx \in Send /\ tx.thread \in Ids
      /\ work.messages[m] =
           [thread |-> tx.thread, from |-> tx.from, to |-> tx.to, reply |-> tx.reply, good |-> tx.good]
  BY <1>1 DEF TInv, Progress, Numbered, Sending, Threads
<1>4. /\ tx.from \in Users /\ tx.to \in Users /\ tx.reply \in Ids \cup {None}
      /\ tx.good \in SUBSET (1..MaxAttachments)
  BY <1>3 DEF Send
<1>5. TypeOK BY DEF TInv
<1>6. Box(work)[m] = whole
  <2>1. work.messages[m] # None BY <1>2 DEF Messages
  <2>2. Box(work)[m] =
          [thread |-> work.messages[m].thread, from |-> work.messages[m].from,
           to |-> work.messages[m].to, reply |-> work.messages[m].reply, sent |-> work.messages[m].good,
           attachments |-> Rows(work, m), labels |-> LabelsOf(work, m)]
    BY <1>2, <2>1, BoxAt
  <2>3. /\ work.messages[m].thread = tx.thread /\ work.messages[m].from = tx.from
        /\ work.messages[m].to = tx.to /\ work.messages[m].reply = tx.reply
        /\ work.messages[m].good = tx.good
    BY <1>3
  <2>4. QED BY <1>2, <2>2, <2>3 DEF M!Whole
<1>7. \A k \in Ids : k # m => Box(work)[k] = Box(db)[k] BY <1>2, BoxSame
<1> HIDE DEF whole, m
<1>8. Box(work) = [Box(db) EXCEPT ![m] = whole]
  <2>1. Box(work) = [k \in Ids |-> Box(work)[k]] /\ Box(db) = [k \in Ids |-> Box(db)[k]] BY DEF Box
  <2>2. QED BY <1>2, <1>6, <1>7, <2>1
<1>9. Box(db)[m] = None /\ Box(work)[m] # None BY <1>2, <1>5, BoxNone
<1>10. M!RightThread(tx.thread, tx.reply)
  <2>1. SendThread BY DEF IBox
  <2>2. CASE tx.reply = None
    <3>1. ASSUME NEW k \in Ids, Box(db)[k] # None PROVE Box(db)[k].thread # tx.thread
      <4>1. k \in Messages(db) BY <1>5, <3>1, BoxNone
      <4>2. Box(db)[k].thread = db.messages[k].thread BY <4>1, BoxThere DEF Messages
      <4>3. QED BY <1>1, <2>1, <2>2, <4>1, <4>2 DEF SendThread
    <3>2. QED BY <2>2, <3>1 DEF M!RightThread
  <2>3. CASE tx.reply # None
    <3>1. tx.reply \in Messages(db) /\ db.messages[tx.reply].thread = tx.thread
      BY <1>1, <2>1, <2>3 DEF SendThread
    <3>2. tx.reply \in Ids /\ Box(db)[tx.reply] # None BY <1>5, <3>1, BoxNone DEF Messages
    <3>3. Box(db)[tx.reply].thread = tx.thread BY <3>1, <3>2, BoxThere DEF Messages
    <3>4. QED BY <2>3, <3>2, <3>3 DEF M!RightThread
  <2>4. QED BY <2>2, <2>3
<1>11. m \in Ids BY <1>2
<1>12. Box(db)' = Box(work) BY <1>1 DEF Box
<1>13. Box(db)' = [Box(db) EXCEPT ![m] = M!Whole(tx.thread, tx.from, tx.to, tx.reply, tx.good)]
  BY <1>8, <1>12 DEF whole
<1>14. Box(db)[m] = None /\ Box(db)'[m] # None BY <1>9, <1>12
<1>15. \E thread \in Ids, from, to \in Users, reply \in Ids \cup {None},
         sent \in SUBSET (1..MaxAttachments) :
         /\ M!RightThread(thread, reply)
         /\ Box(db)' = [Box(db) EXCEPT ![m] = M!Whole(thread, from, to, reply, sent)]
  <2> USE <1>3, <1>4
  <2> WITNESS tx.thread \in Ids, tx.from \in Users, tx.to \in Users,
              tx.reply \in Ids \cup {None}, tx.good \in SUBSET (1..MaxAttachments)
  <2>1. QED BY <1>10, <1>13
<1>16. QED BY <1>11, <1>14, <1>15 DEF M!Deliver

LEMMA Relabelling ==
    ASSUME TInv, IBox, Commits, tx \in Batch
    PROVE  M!Relabel
<1>1. tx.at = "commit" /\ db' = work BY CommitsDoes
<1>2. /\ tx.messages \subseteq Messages(db) /\ work.messages = db.messages
      /\ \A k \in Ids :
           /\ Rows(work, k) = Rows(db, k)
           /\ k \notin tx.messages => LabelsOf(work, k) = LabelsOf(db, k)
           /\ k \in tx.messages =>
                LabelsOf(work, k) =
                  (LabelsOf(db, k) \cup {tx.from} \X tx.add) \ ({tx.from} \X tx.remove)
  BY <1>1, BatchIs
<1>3. /\ TypeOK /\ tx.from \in Users /\ tx.messages \subseteq Ids
      /\ tx.add \in SUBSET LabelNames /\ tx.remove \in SUBSET LabelNames
  BY DEF TInv, Batch
<1>4. tx.messages \subseteq {m \in Ids : Box(db)[m] # None} BY <1>2, <1>3, BoxNone
<1>5. ASSUME NEW k \in tx.messages
      PROVE  Box(work)[k] = M!Relabelled(Box(db)[k], tx.from, tx.add, tx.remove)
  <2>1. k \in Ids /\ db.messages[k] # None BY <1>2 DEF Messages
  <2> DEFINE labels == (LabelsOf(db, k) \cup {tx.from} \X tx.add) \ ({tx.from} \X tx.remove)
  <2>2. LabelsOf(work, k) = labels /\ Rows(work, k) = Rows(db, k) BY <1>2, <2>1
  <2> HIDE DEF labels
  <2>3. Box(work)[k] = [thread |-> db.messages[k].thread, from |-> db.messages[k].from,
                        to |-> db.messages[k].to, reply |-> db.messages[k].reply, sent |-> db.messages[k].good,
                        attachments |-> Rows(db, k), labels |-> labels]
    BY <1>2, <2>1, <2>2, BoxAt
  <2>4. Box(db)[k] = [thread |-> db.messages[k].thread, from |-> db.messages[k].from,
                      to |-> db.messages[k].to, reply |-> db.messages[k].reply, sent |-> db.messages[k].good,
                      attachments |-> Rows(db, k), labels |-> LabelsOf(db, k)]
    BY <2>1, BoxAt
  <2>5. Box(work)[k] = [Box(db)[k] EXCEPT !.labels = labels] /\ Box(db)[k].labels = LabelsOf(db, k)
    BY <2>3, <2>4
  <2>6. QED BY <2>5 DEF M!Relabelled, labels
<1>6. ASSUME NEW k \in Ids, k \notin tx.messages PROVE Box(work)[k] = Box(db)[k]
  BY <1>2, <1>6, BoxSame
<1>7. Box(work) = [k \in Ids |-> IF k \in tx.messages
                                THEN M!Relabelled(Box(db)[k], tx.from, tx.add, tx.remove)
                                ELSE Box(db)[k]]
  <2>1. Box(work) = [k \in Ids |-> Box(work)[k]] BY DEF Box
  <2>2. QED BY <1>5, <1>6, <2>1
<1>8. Box(db)' = Box(work) BY <1>1 DEF Box
<1>9. Box(db)' = [k \in Ids |-> IF k \in tx.messages
                                THEN M!Relabelled(Box(db)[k], tx.from, tx.add, tx.remove)
                                ELSE Box(db)[k]]
  BY <1>7, <1>8
<1>10. \E messages \in SUBSET {m \in Ids : Box(db)[m] # None}, u \in Users,
          added, removed \in SUBSET LabelNames :
         Box(db)' = [k \in Ids |-> IF k \in messages THEN M!Relabelled(Box(db)[k], u, added, removed)
                                                     ELSE Box(db)[k]]
  <2> USE <1>3, <1>4
  <2> WITNESS tx.messages \in SUBSET {m \in Ids : Box(db)[m] # None}, tx.from \in Users,
              tx.add \in SUBSET LabelNames, tx.remove \in SUBSET LabelNames
  <2>1. QED BY <1>9
<1>11. QED BY <1>10 DEF M!Relabel

LEMMA StepDelivers == TInv /\ ICounts /\ IBox /\ [Next]_vars => [M!Next]_(Box(db))
<1> SUFFICES ASSUME TInv, ICounts, IBox, [Next]_vars PROVE [M!Next]_(Box(db)) OBVIOUS
<1>1. CASE Commits
  <2>1. tx \in Send \cup Batch BY <1>1, CommitsDoes DEF TInv, TypeOK, List
  <2>2. QED BY <1>1, <2>1, Delivery, Relabelling DEF Sending, M!Next
<1>2. CASE db' = db BY <1>2
<1>3. QED
  BY <1>1, <1>2, Steps, CountsThreadDoes, InsertsMessageDoes, DrawsTakenIdDoes, AddsLabelsDoes,
     AttachesDoes, ChangesLabelsDoes, RollsBackDoes, BeginsDoes, WaitingDoes DEF TInv, vars

\* The handlers' statements, interleaved, failing and cut off, implement the
\* mailbox where a message is delivered whole in one step.
THEOREM DeliversHolds == Spec => Delivers
<1>1. Init => IBox /\ ICounts
  <2> SUFFICES ASSUME Init PROVE IBox /\ ICounts OBVIOUS
  <2>1. db.attachments = {} /\ db.links = {} BY DEF Init
  <2>2. tx = None /\ tx \notin Batch BY OMailAssumption DEF Init
  <2>3. ~Sending BY <2>2, OMailAssumption DEF Sending
  <2>4. QED BY <2>1, <2>2, <2>3, InitICounts DEF IBox, NoneBelongs, Rows, LabelsOf
<1>2. Init => M!Init BY DEF Init, M!Init, Box
<1>3. QED
  BY <1>1, <1>2, InitTInv, NextTInv, NextICounts, NextIBox, StepDelivers, PTL
  DEF Spec, Delivers, M!Spec

=============================================================================
