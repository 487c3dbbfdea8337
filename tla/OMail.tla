------------------------------- MODULE OMail --------------------------------
(***************************************************************************)
(* Mail: the transactions of server/modules/omail.py on one SQLite         *)
(* database.  A handler takes the write lock with its first insert, works  *)
(* on its own copy until it commits or its connection closes, and awaits   *)
(* the database at every statement; while one holds the lock the others    *)
(* wait, up to five seconds.  Attachments are files, outside the           *)
(* transaction.  Ids are drawn at random, so a message's may be taken.     *)
(***************************************************************************)
EXTENDS Naturals, FiniteSets

CONSTANTS Users, Requests, None,
          Ids,            \* of messages and threads
          BatchNames,     \* bound: the labels batches change
          MaxAttachments, \* bound: attachments of a message
          MaxTaken,       \* bound: message ids drawn that are taken
          MaxFailures     \* bound: statements that fail, and restarts

LabelNames == {"inbox", "sent", "unread"}

Attachment == Ids \X (1..MaxAttachments)
Thread == [count : Nat, lost : Nat]
Message == [thread : Ids, from : Users, to : Users, reply : Ids \cup {None},
            good : SUBSET (1..MaxAttachments)]

(* threads: their message_count and, for the record, how many of the tries   *)
(* it counted met a taken id; messages, with the record of the attachments   *)
(* they were sent with that decode; links: moha_message_labels, labels of a  *)
(* user on a message; attachments.                                           *)
Database == [threads : [Ids -> {None} \cup Thread],
             messages : [Ids -> {None} \cup Message],
             links : SUBSET (Ids \X Users \X LabelNames),
             attachments : SUBSET Attachment]

\* n: the attachments of a send; good: those whose base64 decodes.
Send == [op : {"send"}, from : Users, to : Users, reply : Ids \cup {None},
         n : 0..MaxAttachments, good : SUBSET (1..MaxAttachments),
         at : {"thread", "message", "labels", "attach", "commit"},
         thread : Ids \cup {None}, message : Ids \cup {None}, done : 0..MaxAttachments]
Batch == [op : {"batch"}, from : Users, messages : SUBSET Ids,
          add : SUBSET LabelNames, remove : SUBSET LabelNames, at : {"change", "commit"}]
List == [op : {"list"}, at : {"read"}]

\* A message as its readers see it, and the record of what it was sent with.
Letter == [thread : Ids, from : Users, to : Users, reply : Ids \cup {None},
           sent : SUBSET (1..MaxAttachments), attachments : SUBSET (1..MaxAttachments),
           labels : SUBSET (Users \X LabelNames)]

ASSUME OMailAssumption ==
    /\ None \notin Ids \cup Thread \cup Message \cup Send \cup Batch \cup List \cup Letter
    /\ BatchNames \subseteq LabelNames
    /\ MaxAttachments \in Nat /\ MaxTaken \in Nat /\ MaxFailures \in Nat

VARIABLES
    db,       \* what is committed
    work,     \* the copy of the handler that holds the write lock; db if none does
    tx,       \* None or that handler: what it was asked, where it is, and for a
              \* send its thread, its message and how many attachments are done
    waiting,  \* handlers at their first insert; what they ask shows at the lock
    disk,     \* the attachments' files
    taken, failures
vars == <<db, work, tx, waiting, disk, taken, failures>>
bounds == <<taken, failures>>

TypeOK ==
    /\ db \in Database /\ work \in Database
    /\ tx \in {None} \cup Send \cup Batch \cup List
    /\ tx = None => work = db
    /\ waiting \subseteq Requests
    /\ disk \subseteq Attachment
    /\ taken \in 0..MaxTaken /\ failures \in 0..MaxFailures

Init ==
    /\ db = [threads |-> [t \in Ids |-> None], messages |-> [m \in Ids |-> None],
             links |-> {}, attachments |-> {}]
    /\ work = db /\ tx = None /\ waiting = {} /\ disk = {}
    /\ taken = 0 /\ failures = 0

Messages(d) == {m \in Ids : d.messages[m] # None}
Threads(d) == {t \in Ids : d.threads[t] # None}

-----------------------------------------------------------------------------
(* Requests and the lock *)

Ask(r) ==
    /\ r \notin waiting /\ waiting' = waiting \cup {r}
    /\ UNCHANGED <<db, work, tx, disk, bounds>>

\* The first insert of a handler.
Locks(r, t) ==
    /\ r \in waiting /\ tx = None
    /\ waiting' = waiting \ {r} /\ tx' = t
    /\ UNCHANGED <<db, work, disk, bounds>>

\* send_message begins with the system labels.  A reply names a message's
\* header; one that is not known is as none at all.
BeginsSend(r) ==
    \E from, to \in Users, reply \in Messages(db) \cup {None}, n \in 0..MaxAttachments :
      \E good \in SUBSET (1..n) :
        Locks(r, [op |-> "send", from |-> from, to |-> to, reply |-> reply, n |-> n, good |-> good,
                  at |-> "thread", thread |-> None, message |-> None, done |-> 0])

\* batch_update_labels, of messages there are: a link of any other shows nowhere.
\* Without a label to add or remove it executes nothing.
BeginsBatch(r) ==
    \E u \in Users, messages \in SUBSET Messages(db) \ {{}}, add, remove \in SUBSET BatchNames :
      /\ add \cup remove # {}
      /\ Locks(r, [op |-> "batch", from |-> u, messages |-> messages, add |-> add, remove |-> remove,
                   at |-> "change"])

\* list_threads begins with the system labels, too.
BeginsList(r) == Locks(r, [op |-> "list", at |-> "read"])

\* A faulty answer to a locked database: it tidies away the files no row names.
GivesUpTidying(r) ==
    /\ r \in waiting /\ tx # None
    /\ waiting' = waiting \ {r} /\ disk' = db.attachments
    /\ UNCHANGED <<db, work, tx, bounds>>

\* "database is locked"
GivesUp(r) ==
    /\ r \in waiting /\ tx # None
    /\ waiting' = waiting \ {r}
    /\ UNCHANGED <<db, work, tx, disk, bounds>>

-----------------------------------------------------------------------------
(* send_message under the lock *)

At(step) == tx # None /\ tx.at = step
Goes(step) == tx' = [tx EXCEPT !.at = step]
AfterLabels == IF tx.n = 0 THEN "commit" ELSE "attach"

\* The thread of the message replied to, or a new one.
ThreadFor == IF tx.reply # None THEN {work.messages[tx.reply].thread} ELSE Ids \ Threads(work)

OneMore(thread) ==
    IF thread = None THEN [count |-> 1, lost |-> 0] ELSE [thread EXCEPT !.count = @ + 1]
Counted(t) == [work EXCEPT !.threads[t] = OneMore(@)]

\* A faulty count: not part of the transaction.
CountsAtOnce ==
    /\ At("thread")
    /\ \E t \in ThreadFor :
         work' = Counted(t) /\ db' = work' /\ tx' = [tx EXCEPT !.at = "message", !.thread = t]
    /\ UNCHANGED <<waiting, disk, bounds>>

CountsThread ==
    /\ At("thread")
    /\ \E t \in ThreadFor :
         work' = Counted(t) /\ tx' = [tx EXCEPT !.at = "message", !.thread = t]
    /\ UNCHANGED <<db, waiting, disk, bounds>>

InsertsMessage ==
    /\ At("message")
    /\ \E m \in Ids \ Messages(work) :
         /\ work' = [work EXCEPT !.messages[m] =
              [thread |-> tx.thread, from |-> tx.from, to |-> tx.to, reply |-> tx.reply,
               good |-> tx.good]]
         /\ tx' = [tx EXCEPT !.at = "labels", !.message = m]
    /\ UNCHANGED <<db, waiting, disk, bounds>>

\* IntegrityError, and once more from the top of the loop: what was done to
\* the thread stays in the transaction.
DrawsTakenId ==
    /\ At("message") /\ Messages(work) # {} /\ taken < MaxTaken
    /\ taken' = taken + 1
    /\ work' = [work EXCEPT !.threads[tx.thread].lost = @ + 1]
    /\ Goes("thread")
    /\ UNCHANGED <<db, waiting, disk, failures>>

Links(m, from, to) == {<<m, from, "sent">>, <<m, to, "inbox">>, <<m, to, "unread">>}
Labelled == [work EXCEPT !.links = @ \cup Links(tx.message, tx.from, tx.to)]

\* A faulty send: the message is there before its attachments are.
CommitsEarly ==
    /\ At("labels")
    /\ work' = Labelled /\ db' = work' /\ Goes(AfterLabels)
    /\ UNCHANGED <<waiting, disk, bounds>>

AddsLabels ==
    /\ At("labels")
    /\ work' = Labelled /\ Goes(AfterLabels)
    /\ UNCHANGED <<db, waiting, disk, bounds>>

\* The file, then its row; of an attachment that does not decode, neither.
Attaches ==
    /\ At("attach")
    /\ LET i == tx.done + 1
           row == IF i \in tx.good THEN {<<tx.message, i>>} ELSE {}
       IN  /\ disk' = disk \cup row
           /\ work' = [work EXCEPT !.attachments = @ \cup row]
           /\ tx' = [tx EXCEPT !.done = i, !.at = IF i = tx.n THEN "commit" ELSE "attach"]
    /\ UNCHANGED <<db, waiting, bounds>>

-----------------------------------------------------------------------------
(* The other transactions, and how they all end *)

\* batch_update_labels: INSERT OR IGNORE of the user's own links, then, message by
\* message, DELETE.  What only the holder of the lock sees is one step here.
ChangesLabels ==
    /\ At("change")
    /\ work' = [work EXCEPT !.links = (@ \cup tx.messages \X {tx.from} \X tx.add)
                                        \ (tx.messages \X {tx.from} \X tx.remove)]
    /\ Goes("commit")
    /\ UNCHANGED <<db, waiting, disk, bounds>>

Commits ==
    /\ At("commit")
    /\ db' = work /\ tx' = None
    /\ UNCHANGED <<work, waiting, disk, bounds>>

\* A faulty connection that is used again with its transaction open.
RollsBackNothing == tx' = None /\ UNCHANGED <<db, work, disk, taken>>

\* The connection closes without a commit.
RollsBack == work' = db /\ tx' = None /\ UNCHANGED <<db, disk, taken>>

\* list_threads has only read.
ListEnds == At("read") /\ RollsBack /\ UNCHANGED <<waiting, failures>>

\* A statement, or the write of a file, raises.
Fails ==
    /\ tx # None /\ failures < MaxFailures /\ failures' = failures + 1
    /\ RollsBack /\ UNCHANGED waiting

Restart ==
    /\ failures < MaxFailures /\ failures' = failures + 1
    /\ RollsBack /\ waiting' = {}

-----------------------------------------------------------------------------
Next ==
    \/ \E r \in Requests : Ask(r) \/ BeginsSend(r) \/ BeginsBatch(r) \/ BeginsList(r) \/ GivesUp(r)
    \/ CountsThread \/ InsertsMessage \/ DrawsTakenId \/ AddsLabels \/ Attaches
    \/ ChangesLabels \/ Commits \/ ListEnds \/ Fails \/ Restart

Spec == Init /\ [][Next]_vars

-----------------------------------------------------------------------------
(* Properties *)

\* message_count is the number of a thread's messages and of the tries that
\* met a taken id, and a reply is in the thread of what it replies to.
ThreadsAddUp ==
    /\ \A t \in Threads(db) :
         db.threads[t].count = Cardinality({m \in Messages(db) : db.messages[m].thread = t})
                                 + db.threads[t].lost
    /\ \A m \in Messages(db) :
         LET p == db.messages[m].reply
         IN  /\ db.messages[m].thread \in Threads(db)
             /\ p # None => db.messages[p].thread = db.messages[m].thread

\* What can be read: the messages that are committed, each with its attachments
\* and labels.
Box(d) ==
    [m \in Ids |->
       IF d.messages[m] = None THEN None
       ELSE [thread |-> d.messages[m].thread, from |-> d.messages[m].from,
             to |-> d.messages[m].to, reply |-> d.messages[m].reply, sent |-> d.messages[m].good,
             attachments |-> {i \in 1..MaxAttachments : <<m, i>> \in d.attachments},
             labels |-> {l \in Users \X LabelNames : <<m, l[1], l[2]>> \in d.links}]]
M == INSTANCE Mailbox WITH mail <- Box(db), Labels <- LabelNames

\* To its readers, send_message's dozen statements are one step, and so are all the
\* changes of a batch_update_labels: whatever fails, waits or restarts, a message is
\* in its thread with its labels and those of its attachments that decode (the others
\* are dropped without a word), or not there at all, and nothing but the labels one
\* user asked for on messages there are changes later, all of them or none.
Delivers == M!Spec

\* An attachment that can be asked for has its file.
AttachmentsOnDisk == db.attachments \subseteq disk

=============================================================================
