------------------------------ MODULE OConnect ------------------------------
(***************************************************************************)
(* File transfers between users: server/modules/oconnect.py with the page  *)
(* that answers its offers, server/root/static/oconnect.js.                *)
(*                                                                         *)
(* Senders put transfers in the recipient's mailbox.  Each open receiver   *)
(* socket has a handler that polls the mailbox of its user, takes all of   *)
(* it as one offer with the keys connection-1, connection-2, ..., and      *)
(* waits 10 seconds for decisions by key.  A page shows an offer as cards  *)
(* and answers on its current socket; it opens a new socket when one       *)
(* closes, and keeps its cards.                                            *)
(*                                                                         *)
(* Transfers are numbered 1, 2, ... in the order they were queued; sent[t] *)
(* is the recipient of t, key k of an offer is its k-th transfer.  The     *)
(* files of a transfer are abstracted to one copy that succeeds, is        *)
(* skipped (missing or outside the sender's directory) or raises.          *)
(***************************************************************************)
EXTENDS Naturals, Sequences, FiniteSets

CONSTANTS Pages, PageUser,  \* open browser tabs and the user of each
          Handlers,         \* receiver sockets, one handler each
          None,
          MaxTransfers,     \* bound: transfers sent in a behaviour
          Faults            \* what may go wrong: a subset of {"timeout", "flap", "restart"}

ASSUME OConnectAssumption ==
    /\ None \notin Handlers \cup Pages
    /\ PageUser \in [Pages -> {PageUser[p] : p \in Pages}]
    /\ MaxTransfers \in Nat
    /\ Faults \subseteq {"timeout", "flap", "restart"}

VARIABLES
    connected,  \* the users with an entry in CONNECTIONS
    mailbox,    \* the entry's connections["recived"]
    pc,         \* "free" (no such handler), "idle" (polling), "waiting" (for decisions)
    page,       \* the page that opened the handler's socket
    conn,       \* is the client's end of the socket open?
    batch,      \* the handler's connection_map
    wire,       \* offers sent and not read by the page
    inbox,      \* answers sent and not read by the handler
    socket,     \* the page's `socket`
    payload,    \* the page's `pendingConnectionsPayload`
    rendering,  \* offers whose renderIncomingOffers has not finished
    cards,      \* offers whose cards are in the page, in the order they were added
    modal,      \* is the modal with the answer buttons shown?
    sent, consented, copied, gone, \* history
    misread     \* history: copied transfers beside the one whose card answered their key

mailVars == <<connected, mailbox>>
handlerVars == <<pc, page, batch>>
netVars == <<conn, wire, inbox>>
pageVars == <<socket, payload, rendering, cards, modal>>
fateVars == <<consented, copied, gone, misread>>
vars == <<mailVars, handlerVars, netVars, pageVars, sent, fateVars>>

Users == {PageUser[p] : p \in Pages}
Ids == 1..Len(sent)
Offers == Seq(Ids)
\* An answer: the keys it accepts, and the transfers of the cards its keys come from.
Answers == [kind : {"json", "bad", "broken"}, ok : SUBSET Nat, card : Offers]
Elems(q) == {q[i] : i \in DOMAIN q}
Owner(h) == PageUser[page[h]]

TypeOK ==
    /\ connected \subseteq Users
    /\ sent \in Seq(Users)
    /\ mailbox \in [Users -> Offers]
    /\ pc \in [Handlers -> {"free", "idle", "waiting"}]
    /\ page \in [Handlers -> Pages \cup {None}]
    /\ conn \in [Handlers -> BOOLEAN]
    /\ batch \in [Handlers -> Offers]
    /\ wire \in [Handlers -> Seq(Offers)]
    /\ inbox \in [Handlers -> Seq(Answers)]
    /\ \A h \in Handlers : \A i \in DOMAIN inbox[h] : inbox[h][i].ok \subseteq DOMAIN inbox[h][i].card
    /\ socket \in [Pages -> Handlers \cup {None}]
    /\ payload \in [Pages -> Offers]
    /\ rendering \in [Pages -> Seq(Offers)]
    /\ cards \in [Pages -> Seq(Offers)]
    /\ modal \in [Pages -> BOOLEAN]
    /\ consented \subseteq Ids /\ copied \subseteq Ids
    /\ gone \subseteq Ids /\ misread \subseteq Ids \X Ids
    \* a handler that exists belongs to a page, and a user without an entry has no mail
    /\ \A h \in Handlers : pc[h] # "free" => page[h] # None
    /\ \A u \in Users \ connected : mailbox[u] = <<>>

Init ==
    /\ connected = {}
    /\ mailbox = [u \in Users |-> <<>>]
    /\ pc = [h \in Handlers |-> "free"]
    /\ page = [h \in Handlers |-> None]
    /\ conn = [h \in Handlers |-> FALSE]
    /\ batch = [h \in Handlers |-> <<>>]
    /\ wire = [h \in Handlers |-> <<>>]
    /\ inbox = [h \in Handlers |-> <<>>]
    /\ socket = [p \in Pages |-> None]
    /\ payload = [p \in Pages |-> <<>>]
    /\ rendering = [p \in Pages |-> <<>>]
    /\ cards = [p \in Pages |-> <<>>]
    /\ modal = [p \in Pages |-> FALSE]
    /\ sent = <<>>
    /\ consented = {} /\ copied = {} /\ gone = {} /\ misread = {}

-----------------------------------------------------------------------------
(* The REST handlers *)

NetworkConnect(u) ==
    /\ u \notin connected
    /\ connected' = connected \cup {u}
    /\ UNCHANGED <<mailbox, handlerVars, netVars, pageVars, sent, fateVars>>

\* A faulty disconnect that forgets the mailbox's transfers are there.
NetworkDisconnectKeepsMail(u) ==
    /\ u \in connected
    /\ connected' = connected \ {u}
    /\ UNCHANGED <<mailbox, handlerVars, netVars, pageVars, sent, fateVars>>

\* The entry goes, and the transfers in its mailbox with it; handlers of the
\* user's sockets keep polling.
NetworkDisconnect(u) ==
    /\ u \in connected
    /\ connected' = connected \ {u}
    /\ gone' = gone \cup Elems(mailbox[u])
    /\ mailbox' = [mailbox EXCEPT ![u] = <<>>]
    /\ UNCHANGED <<handlerVars, netVars, pageVars, sent, consented, copied, misread>>

\* Refused (404) when the recipient has no entry.
SendFile(u) ==
    /\ Len(sent) < MaxTransfers
    /\ u \in connected
    /\ sent' = Append(sent, u)
    /\ mailbox' = [mailbox EXCEPT ![u] = Append(@, Len(sent) + 1)]
    /\ UNCHANGED <<connected, handlerVars, netVars, pageVars, fateVars>>

-----------------------------------------------------------------------------
(* The handler of a receiver socket *)

\* The handler's task ends: its batch is dropped and its socket closed.
Ends(h) ==
    /\ pc' = [pc EXCEPT ![h] = "free"]
    /\ page' = [page EXCEPT ![h] = None]
    /\ batch' = [batch EXCEPT ![h] = <<>>]
    /\ conn' = [conn EXCEPT ![h] = FALSE]
    /\ wire' = [wire EXCEPT ![h] = <<>>]
    /\ inbox' = [inbox EXCEPT ![h] = <<>>]
    /\ socket' = [p \in Pages |-> IF socket[p] = h THEN None ELSE socket[p]]

\* The faulty handler leaves the mailbox as it is.
EmptiedKeeps(u) == mailbox
\* pending_batch = recived[:], recived.clear()
Emptied(u) == [mailbox EXCEPT ![u] = <<>>]

\* A poll that finds mail takes all of it and sends it as one offer.
TakeBatch(h) ==
    /\ pc[h] = "idle" /\ conn[h]
    /\ mailbox[Owner(h)] # <<>>
    /\ batch' = [batch EXCEPT ![h] = mailbox[Owner(h)]]
    /\ wire' = [wire EXCEPT ![h] = Append(@, mailbox[Owner(h)])]
    /\ mailbox' = Emptied(Owner(h))
    /\ pc' = [pc EXCEPT ![h] = "waiting"]
    /\ UNCHANGED <<connected, page, conn, inbox, pageVars, sent, fateVars>>

\* An idle handler does not read its socket: that the client has gone is only
\* noticed by the send of the next offer, after the mailbox was emptied.
GhostTakesBatch(h) ==
    /\ pc[h] = "idle" /\ ~conn[h]
    /\ mailbox[Owner(h)] # <<>>
    /\ gone' = gone \cup Elems(mailbox[Owner(h)])
    /\ mailbox' = Emptied(Owner(h))
    /\ Ends(h)
    /\ UNCHANGED <<connected, payload, rendering, cards, modal, sent, consented, copied, misread>>

\* A faulty handler that waits without a timeout.
OfferNeverTimesOut(h) == FALSE /\ UNCHANGED vars

\* asyncio.TimeoutError after 10 seconds: the handler polls again, the offer is
\* forgotten.
OfferTimesOut(h) ==
    /\ "timeout" \in Faults
    /\ pc[h] = "waiting"
    /\ gone' = gone \cup Elems(batch[h])
    /\ batch' = [batch EXCEPT ![h] = <<>>]
    /\ pc' = [pc EXCEPT ![h] = "idle"]
    /\ UNCHANGED <<mailVars, page, netVars, pageVars, sent, consented, copied, misread>>

\* The client goes while the handler waits for its decisions.
SeesDisconnect(h) ==
    /\ pc[h] = "waiting" /\ ~conn[h] /\ inbox[h] = <<>>
    /\ gone' = gone \cup Elems(batch[h])
    /\ Ends(h)
    /\ UNCHANGED <<mailVars, payload, rendering, cards, modal, sent, consented, copied, misread>>

\* A faulty handler that takes any answer for an acceptance.
AcceptedAll(answer, offer) == DOMAIN offer
\* The keys of the offer that the answer accepts; keys it does not know are ignored.
Accepted(answer, offer) == answer.ok \cap DOMAIN offer

\* receive_json returns an answer, whichever offer it was meant for: the
\* accepted transfers are copied, unless their source is missing.  The loop
\* has no await that suspends.
Decide(h) ==
    /\ pc[h] = "waiting" /\ inbox[h] # <<>> /\ Head(inbox[h]).kind = "json"
    /\ LET answer == Head(inbox[h])
           keys == Accepted(answer, batch[h])
       IN  \E done \in SUBSET keys :
             LET now == {batch[h][k] : k \in done}
             IN  /\ copied' = copied \cup now
                 /\ gone' = gone \cup (Elems(batch[h]) \ now)
                 /\ misread' = misread \cup
                      {<<batch[h][k], answer.card[k]>> :
                         k \in {j \in done \cap DOMAIN answer.card : answer.card[j] # batch[h][j]}}
    /\ \/ /\ batch' = [batch EXCEPT ![h] = <<>>]
          /\ pc' = [pc EXCEPT ![h] = "idle"]
          /\ inbox' = [inbox EXCEPT ![h] = Tail(@)]
          /\ UNCHANGED <<page, conn, wire, socket>>
       \/ Ends(h)     \* a copy raised, or the send of the result did
    /\ UNCHANGED <<mailVars, payload, rendering, cards, modal, sent, consented>>

\* Text that is not JSON forgets the offer; decisions that are not objects end
\* the handler.
Malformed(h) ==
    /\ pc[h] = "waiting" /\ inbox[h] # <<>> /\ Head(inbox[h]).kind # "json"
    /\ gone' = gone \cup Elems(batch[h])
    /\ \/ /\ Head(inbox[h]).kind = "bad"
          /\ batch' = [batch EXCEPT ![h] = <<>>]
          /\ pc' = [pc EXCEPT ![h] = "idle"]
          /\ inbox' = [inbox EXCEPT ![h] = Tail(@)]
          /\ UNCHANGED <<page, conn, wire, socket>>
       \/ Head(inbox[h]).kind = "broken" /\ Ends(h)
    /\ UNCHANGED <<mailVars, payload, rendering, cards, modal, sent, consented, copied, misread>>

-----------------------------------------------------------------------------
(* The page *)

\* initWebSocket, by the connect button or 3 seconds after a close: the
\* handler of the new socket starts to poll.  The page's cards stay.
OpenSocket(p, h) ==
    /\ socket[p] = None /\ pc[h] = "free"
    /\ socket' = [socket EXCEPT ![p] = h]
    /\ pc' = [pc EXCEPT ![h] = "idle"]
    /\ page' = [page EXCEPT ![h] = p]
    /\ conn' = [conn EXCEPT ![h] = TRUE]
    /\ UNCHANGED <<mailVars, batch, wire, inbox, payload, rendering, cards, modal, sent, fateVars>>

Hangup(h) ==
    /\ conn' = [conn EXCEPT ![h] = FALSE]
    /\ wire' = [wire EXCEPT ![h] = <<>>]
    /\ socket' = [p \in Pages |-> IF socket[p] = h THEN None ELSE socket[p]]

\* The connection breaks, or networkDisconnect closes it.
SocketCloses(h) ==
    /\ "flap" \in Faults /\ conn[h]
    /\ Hangup(h)
    /\ UNCHANGED <<mailVars, handlerVars, inbox, payload, rendering, cards, modal, sent, fateVars>>

\* The page is closed or reloaded.
Reload(p) ==
    /\ socket[p] # None
    /\ Hangup(socket[p])
    /\ payload' = [payload EXCEPT ![p] = <<>>]
    /\ rendering' = [rendering EXCEPT ![p] = <<>>]
    /\ cards' = [cards EXCEPT ![p] = <<>>]
    /\ modal' = [modal EXCEPT ![p] = FALSE]
    /\ UNCHANGED <<mailVars, handlerVars, inbox, sent, fateVars>>

\* onmessage: the payload is replaced and the cards cleared at once, the new
\* cards come after renderIncomingOffers' two requests.
ReadOffer(p) ==
    /\ socket[p] # None /\ wire[socket[p]] # <<>>
    /\ LET offer == Head(wire[socket[p]])
       IN  /\ payload' = [payload EXCEPT ![p] = offer]
           /\ rendering' = [rendering EXCEPT ![p] = Append(@, offer)]
    /\ cards' = [cards EXCEPT ![p] = <<>>]
    /\ wire' = [wire EXCEPT ![socket[p]] = Tail(@)]
    /\ UNCHANGED <<mailVars, handlerVars, conn, inbox, socket, modal, sent, fateVars>>

\* renderIncomingOffers ends: its cards are added to whatever the page shows.
RenderCards(p) ==
    \E i \in DOMAIN rendering[p] :
       /\ cards' = [cards EXCEPT ![p] = Append(@, rendering[p][i])]
       /\ rendering' = [rendering EXCEPT ![p] =
                          SubSeq(@, 1, i - 1) \o SubSeq(@, i + 1, Len(@))]
       /\ modal' = [modal EXCEPT ![p] = TRUE]
       /\ UNCHANGED <<mailVars, handlerVars, netVars, socket, payload, sent, fateVars>>

\* document.getElementById("chk-" + key): the first card added with that key,
\* if there is one.
HasCard(p, k) == \E i \in DOMAIN cards[p] : k \in DOMAIN cards[p][i]
CardOf(p, k) ==
    LET first == CHOOSE i \in DOMAIN cards[p] :
                   /\ k \in DOMAIN cards[p][i]
                   /\ \A j \in 1..(i - 1) : k \notin DOMAIN cards[p][j]
    IN  cards[p][first][k]

\* respondToTransfers: the user ticks the transfers of `wanted` among the cards
\* shown; the answer has the keys of the payload.
Respond(p, wanted) ==
    /\ modal[p] /\ payload[p] # <<>> /\ socket[p] # None
    /\ wanted \subseteq UNION {Elems(cards[p][i]) : i \in DOMAIN cards[p]}
    /\ LET seen == {k \in DOMAIN payload[p] : HasCard(p, k)}
           card == [k \in DOMAIN payload[p] |-> IF k \in seen THEN CardOf(p, k) ELSE payload[p][k]]
           ok == {k \in seen : CardOf(p, k) \in wanted}
       IN  inbox' = [inbox EXCEPT ![socket[p]] =
                       Append(@, [kind |-> "json", ok |-> ok, card |-> card])]
    /\ consented' = consented \cup wanted
    /\ payload' = [payload EXCEPT ![p] = <<>>]
    /\ modal' = [modal EXCEPT ![p] = FALSE]
    /\ UNCHANGED <<mailVars, handlerVars, conn, wire, socket, rendering, cards, sent, copied, gone, misread>>

\* A client of another make sends something else.
SendMalformed(p, kind) ==
    /\ socket[p] # None /\ payload[p] # <<>>
    /\ inbox' = [inbox EXCEPT ![socket[p]] = Append(@, [kind |-> kind, ok |-> {}, card |-> <<>>])]
    /\ payload' = [payload EXCEPT ![p] = <<>>]
    /\ modal' = [modal EXCEPT ![p] = FALSE]
    /\ UNCHANGED <<mailVars, handlerVars, conn, wire, socket, rendering, cards, sent, fateVars>>

\* The server restarts: CONNECTIONS and the handlers are in memory.
Restart ==
    /\ "restart" \in Faults
    /\ connected # {} \/ \E h \in Handlers : pc[h] # "free"
    /\ gone' = gone \cup UNION ({Elems(mailbox[u]) : u \in Users} \cup {Elems(batch[h]) : h \in Handlers})
    /\ connected' = {}
    /\ mailbox' = [u \in Users |-> <<>>]
    /\ pc' = [h \in Handlers |-> "free"]
    /\ page' = [h \in Handlers |-> None]
    /\ batch' = [h \in Handlers |-> <<>>]
    /\ conn' = [h \in Handlers |-> FALSE]
    /\ wire' = [h \in Handlers |-> <<>>]
    /\ inbox' = [h \in Handlers |-> <<>>]
    /\ socket' = [p \in Pages |-> None]
    /\ UNCHANGED <<payload, rendering, cards, modal, sent, consented, copied, misread>>

-----------------------------------------------------------------------------
HandlerStep(h) ==
    \/ TakeBatch(h) \/ GhostTakesBatch(h)
    \/ OfferTimesOut(h) \/ SeesDisconnect(h) \/ Decide(h) \/ Malformed(h)

PageStep(p) ==
    \/ \E h \in Handlers : OpenSocket(p, h)
    \/ Reload(p) \/ ReadOffer(p) \/ RenderCards(p)
    \/ \E wanted \in SUBSET Ids : Respond(p, wanted)
    \/ \E kind \in {"bad", "broken"} : SendMalformed(p, kind)

Next ==
    \/ \E u \in Users : NetworkConnect(u) \/ NetworkDisconnect(u) \/ SendFile(u)
    \/ \E h \in Handlers : HandlerStep(h) \/ SocketCloses(h)
    \/ \E p \in Pages : PageStep(p)
    \/ Restart

Spec == Init /\ [][Next]_vars

\* The handlers' loops: they poll every half second and wait at most ten.
FairSpec == Spec /\ \A h \in Handlers : WF_vars(HandlerStep(h))

-----------------------------------------------------------------------------
(* Properties *)

\* A transfer is in the mailbox once, or in one handler's batch once, or it is
\* settled: competing sockets of one user never both hold it.
Status(t) ==
    CASE t \in copied -> "copied"
      [] t \in gone -> "dropped"
      [] \E u \in Users : t \in Elems(mailbox[u]) -> "queued"
      [] \E h \in Handlers : t \in Elems(batch[h]) -> "offered"
      [] OTHER -> "new"

Holders(t) ==
    (UNION {{<<u, i>> : i \in {j \in DOMAIN mailbox[u] : mailbox[u][j] = t}} : u \in Users})
      \cup (UNION {{<<h, i>> : i \in {j \in DOMAIN batch[h] : batch[h][j] = t}} : h \in Handlers})

OneHolder ==
    \A t \in Ids : Cardinality(Holders(t)) = (IF t \in copied \cup gone THEN 0 ELSE 1)

\* Every transfer goes through the life cycle of Transfer: no step of any
\* handler offers or settles it twice.
T == INSTANCE Transfer WITH Transfers <- 1..MaxTransfers,
                            status <- [t \in 1..MaxTransfers |-> Status(t)]
Lifecycle == T!Spec

\* A transfer is copied only when a card was ticked for it: its own or, where an
\* answer was read as the next offer's (respondToTransfers looks cards up by
\* their key, the handler looks keys up in the batch it has now), the card of
\* another transfer, and that card was ticked itself.
CopyNeedsTickedCard ==
    \A t \in copied : t \in consented \/ \E c \in consented : <<t, c>> \in misread

\* A transfer does not stay in the mailbox of a user with a receiver socket,
\* and no offer stays open for ever, also when the client is silent or gone.
Served(t) == \E h \in Handlers : pc[h] # "free" /\ Owner(h) = sent[t]
MailSettles ==
    \A t \in 1..MaxTransfers :
      (t \in Ids /\ Served(t)) ~> (t \in Ids => t \in copied \cup gone \/ ~Served(t))

\* docs/workspace/oconnect.md: incoming files are reviewed "before confirming
\* the transfer": what is copied, the user accepted.
CopiedWithConsent == copied \subseteq consented

=============================================================================
