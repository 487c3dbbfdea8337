------------------------------ MODULE Mailbox -------------------------------
(***************************************************************************)
(* What server/modules/omail.py promises of the mail that can be read: a   *)
(* message is there at once with its thread, its three labels and all its  *)
(* attachments that could be decoded, it is never taken away or changed,   *)
(* and a user's batch of labels comes and goes at once, on all its         *)
(* messages.                                                               *)
(***************************************************************************)
EXTENDS Naturals

CONSTANTS Users, Ids, None, Labels, MaxAttachments

VARIABLE mail   \* [Ids -> None or a message as its readers see it]

Init == mail = [m \in Ids |-> None]

\* A reply goes to the thread of a message there is, any other to a new thread.
RightThread(thread, reply) ==
    IF reply = None THEN \A k \in Ids : mail[k] # None => mail[k].thread # thread
    ELSE mail[reply] # None /\ mail[reply].thread = thread

\* sent: the record of those attachments of the request that decode.
Whole(thread, from, to, reply, sent) ==
    [thread |-> thread, from |-> from, to |-> to, reply |-> reply, sent |-> sent, attachments |-> sent,
     labels |-> {<<from, "sent">>, <<to, "inbox">>, <<to, "unread">>}]

Deliver ==
    \E m \in Ids :
      /\ mail[m] = None /\ mail'[m] # None
      /\ \E thread \in Ids, from, to \in Users, reply \in Ids \cup {None},
            sent \in SUBSET (1..MaxAttachments) :
           /\ RightThread(thread, reply)
           /\ mail' = [mail EXCEPT ![m] = Whole(thread, from, to, reply, sent)]

\* One user's labels, added to all of the messages, removed from all of them.
Relabelled(letter, u, added, removed) ==
    [letter EXCEPT !.labels = (@ \cup {u} \X added) \ ({u} \X removed)]

Relabel ==
    \E messages \in SUBSET {m \in Ids : mail[m] # None}, u \in Users,
       added, removed \in SUBSET Labels :
      mail' = [m \in Ids |-> IF m \in messages THEN Relabelled(mail[m], u, added, removed)
                                                ELSE mail[m]]

Next == Deliver \/ Relabel

Spec == Init /\ [][Next]_mail

=============================================================================
