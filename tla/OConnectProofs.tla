---------------------------- MODULE OConnectProofs --------------------------
(***************************************************************************)
(* Proofs about OConnect, for any pages, sockets and number of transfers:  *)
(* types, that a transfer is in one place at a time, that it goes through  *)
(* the life cycle of Transfer, and where the consent to a copy came from.  *)
(***************************************************************************)
EXTENDS OConnect, FiniteSetTheorems, SequenceTheorems, WellFoundedInduction, TLAPS

-----------------------------------------------------------------------------
(* Sequences *)

LEMMA SeqIs ==
    ASSUME NEW S, NEW q \in Seq(S)
    PROVE  /\ Len(q) \in Nat /\ DOMAIN q = 1..Len(q) /\ \A i \in DOMAIN q : q[i] \in S
           /\ Elems(q) \subseteq S /\ <<>> \in Seq(S) /\ (q # <<>> => 1 \in DOMAIN q)
<1>1. Len(q) \in Nat /\ DOMAIN q = 1..Len(q) /\ \A i \in 1..Len(q) : q[i] \in S
  BY LenProperties, ElementOfSeq
<1>2. <<>> \in Seq(S) BY EmptySeq
<1>3. q # <<>> => Len(q) # 0 BY <1>1, EmptySeq
<1>4. QED BY <1>1, <1>2, <1>3 DEF Elems

LEMMA SeqLarger ==
    ASSUME NEW S, NEW T1, S \subseteq T1, NEW q \in Seq(S)
    PROVE  q \in Seq(T1)
BY LenProperties DEF Seq

LEMMA TailIs ==
    ASSUME NEW S, NEW q \in Seq(S), q # <<>>
    PROVE  /\ Head(q) \in S /\ Tail(q) \in Seq(S) /\ Head(q) = q[1] /\ 1 \in DOMAIN q
           /\ \A i \in DOMAIN Tail(q) : i + 1 \in DOMAIN q /\ Tail(q)[i] = q[i + 1]
<1>1. Head(q) \in S /\ Tail(q) \in Seq(S) /\ Len(Tail(q)) = Len(q) - 1
      /\ \A i \in 1..Len(Tail(q)) : Tail(q)[i] = q[i + 1]
  BY HeadTailProperties
<1>2. Len(q) \in Nat /\ DOMAIN q = 1..Len(q) /\ 1 \in DOMAIN q BY SeqIs
<1>3. DOMAIN Tail(q) = 1..Len(Tail(q)) BY <1>1, SeqIs
<1>4. QED BY <1>1, <1>2, <1>3

LEMMA AppendIs ==
    ASSUME NEW S, NEW q \in Seq(S), NEW e \in S
    PROVE  /\ Append(q, e) \in Seq(S) /\ Len(Append(q, e)) = Len(q) + 1
           /\ DOMAIN Append(q, e) = 1..(Len(q) + 1) /\ Append(q, e)[Len(q) + 1] = e
           /\ \A i \in 1..Len(q) : Append(q, e)[i] = q[i]
           /\ Elems(Append(q, e)) = Elems(q) \cup {e}
<1>1. /\ Append(q, e) \in Seq(S) /\ Len(Append(q, e)) = Len(q) + 1
      /\ Append(q, e)[Len(q) + 1] = e /\ \A i \in 1..Len(q) : Append(q, e)[i] = q[i]
  BY AppendProperties
<1>2. Len(q) \in Nat /\ DOMAIN q = 1..Len(q) /\ DOMAIN Append(q, e) = 1..(Len(q) + 1) BY <1>1, SeqIs
<1>3. Elems(Append(q, e)) = Elems(q) \cup {e} BY <1>1, <1>2 DEF Elems
<1>4. QED BY <1>1, <1>2, <1>3

LEMMA CutIs ==
    ASSUME NEW S, NEW q \in Seq(S), NEW i \in DOMAIN q
    PROVE  SubSeq(q, 1, i - 1) \o SubSeq(q, i + 1, Len(q)) \in Seq(S)
<1>1. Len(q) \in Nat /\ DOMAIN q = 1..Len(q) /\ \A j \in DOMAIN q : q[j] \in S BY SeqIs
<1>2. SubSeq(q, 1, i - 1) \in Seq(S) /\ SubSeq(q, i + 1, Len(q)) \in Seq(S)
  <2>1. 1 \in Int /\ i - 1 \in Int /\ i + 1 \in Int /\ Len(q) \in Int BY <1>1
  <2>2. \A j \in 1..(i - 1) : q[j] \in S BY <1>1
  <2>3. \A j \in (i + 1)..Len(q) : q[j] \in S BY <1>1
  <2>4. QED BY <2>1, <2>2, <2>3, SubSeqProperties
<1>3. QED BY <1>2, ConcatProperties

Less == {ss \in Nat \X Nat : ss[1] < ss[2]}

LEMMA LeastIs ==
    ASSUME NEW n \in Nat, NEW S \in SUBSET (1..n), S # {}
    PROVE  \E m \in S : \A i \in S : m <= i
<1>1. S \subseteq Nat OBVIOUS
<1>2. IsWellFoundedOn(Less, Nat) BY NatLessThanWellFounded DEF OpToRel, Less
<1>3. PICK m \in S : \A i \in S : ~(<<i, m>> \in Less) BY <1>1, <1>2, WFMin
<1>4. \A i \in S : ~(i < m)
  <2> SUFFICES ASSUME NEW i \in S, i < m PROVE FALSE OBVIOUS
  <2>1. <<i, m>> \in Nat \X Nat /\ <<i, m>>[1] = i /\ <<i, m>>[2] = m BY <1>1
  <2>2. <<i, m>> \in Less BY <2>1 DEF Less
  <2>3. QED BY <1>3, <2>2
<1>5. QED BY <1>1, <1>4

-----------------------------------------------------------------------------
(* The type invariant, in parts *)

MailType ==
    /\ connected \subseteq Users /\ mailbox \in [Users -> Offers]
    /\ \A u \in Users \ connected : mailbox[u] = <<>>
HandlerType ==
    /\ pc \in [Handlers -> {"free", "idle", "waiting"}] /\ page \in [Handlers -> Pages \cup {None}]
    /\ batch \in [Handlers -> Offers] /\ \A h \in Handlers : pc[h] # "free" => page[h] # None
InboxType ==
    /\ inbox \in [Handlers -> Seq(Answers)]
    /\ \A h \in Handlers : \A i \in DOMAIN inbox[h] : inbox[h][i].ok \subseteq DOMAIN inbox[h][i].card
NetType == conn \in [Handlers -> BOOLEAN] /\ wire \in [Handlers -> Seq(Offers)]
PageType ==
    /\ payload \in [Pages -> Offers] /\ rendering \in [Pages -> Seq(Offers)]
    /\ cards \in [Pages -> Seq(Offers)] /\ modal \in [Pages -> BOOLEAN]
SocketType == socket \in [Pages -> Handlers \cup {None}]
FateType == consented \subseteq Ids /\ copied \subseteq Ids /\ gone \subseteq Ids /\ misread \subseteq Ids \X Ids

LEMMA TypeParts ==
    /\ TypeOK <=> /\ sent \in Seq(Users) /\ MailType /\ HandlerType /\ InboxType
                  /\ NetType /\ PageType /\ SocketType /\ FateType
    /\ TypeOK' <=> /\ sent' \in Seq(Users) /\ MailType' /\ HandlerType' /\ InboxType'
                   /\ NetType' /\ PageType' /\ SocketType' /\ FateType'
BY DEF TypeOK, MailType, HandlerType, InboxType, NetType, PageType, SocketType, FateType

LEMMA SameIds ==
    ASSUME sent' = sent
    PROVE  Ids' = Ids /\ Offers' = Offers /\ Answers' = Answers
BY DEF Ids, Offers, Answers

\* What a step leaves alone keeps its type.
LEMMA SameType ==
    ASSUME TypeOK, sent' = sent
    PROVE  /\ sent' \in Seq(Users)
           /\ UNCHANGED mailVars => MailType'
           /\ UNCHANGED handlerVars => HandlerType'
           /\ UNCHANGED inbox => InboxType'
           /\ UNCHANGED <<conn, wire>> => NetType'
           /\ UNCHANGED <<payload, rendering, cards, modal>> => PageType'
           /\ UNCHANGED socket => SocketType'
           /\ UNCHANGED fateVars => FateType'
<1>1. /\ sent \in Seq(Users) /\ MailType /\ HandlerType /\ InboxType
      /\ NetType /\ PageType /\ SocketType /\ FateType
  BY TypeParts
<1>2. UNCHANGED mailVars => MailType' BY <1>1, SameIds DEF MailType, mailVars
<1>3. UNCHANGED handlerVars => HandlerType' BY <1>1, SameIds DEF HandlerType, handlerVars
<1>4. UNCHANGED inbox => InboxType' BY <1>1, SameIds DEF InboxType
<1>5. UNCHANGED <<conn, wire>> => NetType' BY <1>1, SameIds DEF NetType
<1>6. UNCHANGED <<payload, rendering, cards, modal>> => PageType' BY <1>1, SameIds DEF PageType
<1>7. UNCHANGED socket => SocketType' BY <1>1 DEF SocketType
<1>8. UNCHANGED fateVars => FateType' BY <1>1, SameIds DEF FateType, fateVars
<1>9. QED BY <1>1, <1>2, <1>3, <1>4, <1>5, <1>6, <1>7, <1>8

LEMMA OffersAre ==
    ASSUME TypeOK
    PROVE  /\ <<>> \in Offers /\ <<>> \in Seq(Offers) /\ <<>> \in Seq(Answers)
           /\ \A u \in Users : mailbox[u] \in Offers /\ Elems(mailbox[u]) \subseteq Ids
           /\ \A h \in Handlers : batch[h] \in Offers /\ Elems(batch[h]) \subseteq Ids
           /\ \A h \in Handlers : pc[h] # "free" => Owner(h) \in Users
<1>1. mailbox \in [Users -> Offers] /\ batch \in [Handlers -> Offers] BY TypeParts DEF MailType, HandlerType
<1>2. <<>> \in Offers /\ <<>> \in Seq(Offers) /\ <<>> \in Seq(Answers) BY EmptySeq DEF Offers
<1>3. \A q \in Offers : Elems(q) \subseteq Ids BY SeqIs DEF Offers
<1>4. \A h \in Handlers : pc[h] # "free" => Owner(h) \in Users
  BY TypeParts DEF HandlerType, Owner, Users
<1>5. QED BY <1>1, <1>2, <1>3, <1>4

LEMMA EndsType ==
    ASSUME TypeOK, sent' = sent, NEW h \in Handlers, Ends(h)
    PROVE  HandlerType' /\ NetType' /\ InboxType' /\ SocketType'
<1>1. HandlerType /\ InboxType /\ NetType /\ SocketType BY TypeParts
<1>2. HandlerType' BY <1>1, SameIds, OffersAre DEF HandlerType, Ends
<1>3. NetType' BY <1>1, SameIds, OffersAre DEF NetType, Ends
<1>4. InboxType'
  <2>1. inbox' = [inbox EXCEPT ![h] = <<>>] BY DEF Ends
  <2>2. inbox' \in [Handlers -> Seq(Answers)] BY <1>1, <2>1, OffersAre DEF InboxType
  <2>3. \A g \in Handlers : inbox'[g] = inbox[g] \/ inbox'[g] = <<>> BY <1>1, <2>1 DEF InboxType
  <2>4. DOMAIN <<>> = {} OBVIOUS
  <2>5. QED BY <1>1, <2>2, <2>3, <2>4, SameIds DEF InboxType
<1>5. SocketType' BY <1>1 DEF SocketType, Ends
<1>6. QED BY <1>2, <1>3, <1>4, <1>5

LEMMA HangupType ==
    ASSUME TypeOK, sent' = sent, NEW h \in Handlers, Hangup(h)
    PROVE  NetType' /\ SocketType'
<1>1. NetType /\ SocketType BY TypeParts
<1>2. NetType' BY <1>1, SameIds, OffersAre DEF NetType, Hangup
<1>3. SocketType' BY <1>1 DEF SocketType, Hangup
<1>4. QED BY <1>2, <1>3

\* An answer is queued on a socket, or the first one taken off.
LEMMA InboxStep ==
    ASSUME TypeOK, sent' = sent, NEW h \in Handlers, NEW e, NEW q,
           \/ q = Append(inbox[h], e) /\ e \in Answers /\ e.ok \subseteq DOMAIN e.card
           \/ q = Tail(inbox[h]) /\ inbox[h] # <<>>,
           inbox' = [inbox EXCEPT ![h] = q]
    PROVE  InboxType'
<1>1. InboxType BY TypeParts
<1>2. /\ inbox[h] \in Seq(Answers)
      /\ \A i \in DOMAIN inbox[h] : inbox[h][i] \in Answers /\ inbox[h][i].ok \subseteq DOMAIN inbox[h][i].card
  BY <1>1, SeqIs DEF InboxType
<1>3. q \in Seq(Answers) /\ \A i \in DOMAIN q : q[i].ok \subseteq DOMAIN q[i].card
  <2>1. CASE q = Append(inbox[h], e) /\ e \in Answers /\ e.ok \subseteq DOMAIN e.card
    <3>1. /\ q \in Seq(Answers) /\ DOMAIN q = 1..(Len(inbox[h]) + 1) /\ q[Len(inbox[h]) + 1] = e
          /\ \A i \in 1..Len(inbox[h]) : q[i] = inbox[h][i]
      BY <1>2, <2>1, AppendIs
    <3>2. DOMAIN inbox[h] = 1..Len(inbox[h]) /\ Len(inbox[h]) \in Nat BY <1>2, SeqIs
    <3>3. \A i \in DOMAIN q : i = Len(inbox[h]) + 1 \/ i \in 1..Len(inbox[h]) BY <3>1, <3>2
    <3>4. QED BY <1>2, <2>1, <3>1, <3>2, <3>3
  <2>2. CASE q = Tail(inbox[h]) /\ inbox[h] # <<>> BY <1>2, <2>2, TailIs
  <2>3. QED BY <2>1, <2>2
<1>4. inbox' \in [Handlers -> Seq(Answers)] BY <1>1, <1>3 DEF InboxType
<1>5. \A g \in Handlers : inbox'[g] = IF g = h THEN q ELSE inbox[g] BY <1>1 DEF InboxType
<1>6. QED BY <1>1, <1>3, <1>4, <1>5, SameIds DEF InboxType

LEMMA InitTypeOK == Init => TypeOK
<1> SUFFICES ASSUME Init PROVE TypeOK OBVIOUS
<1>1. sent = <<>> /\ <<>> \in Seq(Users) BY EmptySeq DEF Init
<1>2. <<>> \in Offers /\ <<>> \in Seq(Offers) /\ <<>> \in Seq(Answers) BY EmptySeq DEF Offers
<1>3. DOMAIN <<>> = {} OBVIOUS
<1>4. \A h \in Handlers : inbox[h] = <<>> BY DEF Init
<1>5. InboxType BY <1>2, <1>3, <1>4 DEF Init, InboxType
<1>6. MailType /\ HandlerType /\ NetType /\ PageType /\ SocketType /\ FateType
  BY <1>2 DEF Init, MailType, HandlerType, NetType, PageType, SocketType, FateType
<1>7. QED BY <1>1, <1>5, <1>6, TypeParts

\* More transfers are sent: what referred to the old ones is still typed.
LEMMA SendFileType == ASSUME TypeOK, NEW u \in Users, SendFile(u) PROVE TypeOK'
<1>1. /\ sent \in Seq(Users) /\ MailType /\ HandlerType /\ InboxType
      /\ NetType /\ PageType /\ SocketType /\ FateType
  BY TypeParts
<1>2. sent' \in Seq(Users) /\ Len(sent') = Len(sent) + 1 /\ Len(sent) \in Nat
  BY <1>1, AppendIs, SeqIs DEF SendFile
<1>3. Ids \subseteq Ids' /\ Len(sent) + 1 \in Ids' BY <1>2 DEF Ids
<1>4. \A q \in Offers : q \in Offers' BY <1>3, SeqLarger DEF Offers
<1>5. \A q \in Seq(Offers) : q \in Seq(Offers')
  <2>1. Offers \subseteq Offers' BY <1>4
  <2>2. QED BY <2>1, SeqLarger
<1>6. Answers \subseteq Answers' BY <1>4 DEF Answers
<1>7. \A q \in Seq(Answers) : q \in Seq(Answers') BY <1>6, SeqLarger
<1>8. MailType'
  <2>1. Append(mailbox[u], Len(sent) + 1) \in Offers'
    <3>1. mailbox[u] \in Seq(Ids') BY <1>1, <1>4 DEF MailType, Offers
    <3>2. QED BY <1>3, <3>1, AppendIs DEF Offers
  <2>2. mailbox' = [mailbox EXCEPT ![u] = Append(@, Len(sent) + 1)] /\ connected' = connected /\ u \in connected
    BY DEF SendFile
  <2>3. \A v \in Users : mailbox'[v] \in Offers' BY <1>1, <1>4, <2>1, <2>2 DEF MailType
  <2>4. QED BY <1>1, <2>2, <2>3 DEF MailType
<1>9. HandlerType' BY <1>1, <1>4 DEF HandlerType, SendFile, handlerVars
<1>10. InboxType' BY <1>1, <1>7 DEF InboxType, SendFile, netVars
<1>11. NetType' BY <1>1, <1>5 DEF NetType, SendFile, netVars
<1>12. PageType' BY <1>1, <1>4, <1>5 DEF PageType, SendFile, pageVars
<1>13. SocketType' BY <1>1 DEF SocketType, SendFile, pageVars
<1>14. FateType' BY <1>1, <1>3 DEF FateType, SendFile, fateVars
<1>15. QED BY <1>2, <1>8, <1>9, <1>10, <1>11, <1>12, <1>13, <1>14, TypeParts

\* The handler goes back to polling with the answer taken off, or ends.
LEMMA AnswerTakenType ==
    ASSUME TypeOK, sent' = sent, NEW h \in Handlers, inbox[h] # <<>>, page[h] # None,
           \/ /\ batch' = [batch EXCEPT ![h] = <<>>]
              /\ pc' = [pc EXCEPT ![h] = "idle"]
              /\ inbox' = [inbox EXCEPT ![h] = Tail(@)]
              /\ UNCHANGED <<page, conn, wire, socket>>
           \/ Ends(h)
    PROVE  HandlerType' /\ NetType' /\ InboxType' /\ SocketType'
<1>1. CASE Ends(h) BY <1>1, EndsType
<1>2. CASE /\ batch' = [batch EXCEPT ![h] = <<>>]
           /\ pc' = [pc EXCEPT ![h] = "idle"]
           /\ inbox' = [inbox EXCEPT ![h] = Tail(@)]
           /\ UNCHANGED <<page, conn, wire, socket>>
  <2>1. HandlerType /\ InboxType BY TypeParts
  <2>2. HandlerType' BY <1>2, <2>1, SameIds, OffersAre DEF HandlerType
  <2>3. InboxType' BY <1>2, InboxStep DEF InboxType
  <2>4. NetType' /\ SocketType' BY <1>2, SameType
  <2>5. QED BY <2>2, <2>3, <2>4
<1>3. QED BY <1>1, <1>2

LEMMA CardIs ==
    ASSUME TypeOK, NEW p \in Pages, NEW k, HasCard(p, k)
    PROVE  CardOf(p, k) \in Ids
<1> DEFINE S == {i \in DOMAIN cards[p] : k \in DOMAIN cards[p][i]}
           first == CHOOSE i \in DOMAIN cards[p] :
                      /\ k \in DOMAIN cards[p][i]
                      /\ \A j \in 1..(i - 1) : k \notin DOMAIN cards[p][j]
<1>1. cards[p] \in Seq(Offers) BY TypeParts DEF PageType
<1>2. Len(cards[p]) \in Nat /\ DOMAIN cards[p] = 1..Len(cards[p]) /\ \A i \in DOMAIN cards[p] : cards[p][i] \in Offers
  BY <1>1, SeqIs
<1>3. PICK m \in S : \A i \in S : m <= i
  <2>1. S \in SUBSET (1..Len(cards[p])) /\ S # {} BY <1>2 DEF HasCard
  <2> HIDE DEF S
  <2>2. QED BY <1>2, <2>1, LeastIs
<1>4. \A j \in 1..(m - 1) : k \notin DOMAIN cards[p][j]
  <2> SUFFICES ASSUME NEW j \in 1..(m - 1), k \in DOMAIN cards[p][j] PROVE FALSE OBVIOUS
  <2>1. j \in S /\ m \in 1..Len(cards[p]) BY <1>2
  <2>2. QED BY <1>3, <2>1
<1>5. first \in DOMAIN cards[p] /\ k \in DOMAIN cards[p][first] BY <1>3, <1>4
<1> HIDE DEF first
<1>6. cards[p][first] \in Seq(Ids) BY <1>2, <1>5 DEF Offers
<1>7. cards[p][first][k] \in Ids BY <1>5, <1>6, SeqIs
<1>8. QED BY <1>7 DEF CardOf, first

\* The keys of an answer and the transfers of their cards.
LEMMA RespondIs ==
    ASSUME TypeOK, NEW p \in Pages, NEW wanted \in SUBSET Ids, Respond(p, wanted)
    PROVE  \E e \in Answers :
             /\ inbox' = [inbox EXCEPT ![socket[p]] = Append(inbox[socket[p]], e)]
             /\ e.ok \subseteq DOMAIN e.card /\ \A k \in e.ok : e.card[k] \in wanted
<1> DEFINE seen == {k \in DOMAIN payload[p] : HasCard(p, k)}
           card == [k \in DOMAIN payload[p] |-> IF k \in seen THEN CardOf(p, k) ELSE payload[p][k]]
           ok == {k \in seen : CardOf(p, k) \in wanted}
           e == [kind |-> "json", ok |-> ok, card |-> card]
<1>1. payload[p] \in Seq(Ids) BY TypeParts DEF PageType, Offers
<1>2. Len(payload[p]) \in Nat /\ DOMAIN payload[p] = 1..Len(payload[p]) /\ \A k \in DOMAIN payload[p] : payload[p][k] \in Ids
  BY <1>1, SeqIs
<1>3. \A k \in DOMAIN payload[p] : card[k] \in Ids BY <1>2, CardIs
<1>4. card \in [1..Len(payload[p]) -> Ids] BY <1>2, <1>3
<1>5. card \in Offers BY <1>2, <1>4 DEF Offers, Seq
<1>6. DOMAIN card = DOMAIN payload[p] /\ ok \subseteq DOMAIN card /\ \A k \in ok : card[k] \in wanted OBVIOUS
<1>7. ok \in SUBSET Nat BY <1>2
<1>8. inbox' = [inbox EXCEPT ![socket[p]] = Append(inbox[socket[p]], e)] BY DEF Respond
<1> HIDE DEF card, ok
<1>9. e \in Answers BY <1>5, <1>7 DEF Answers
<1>10. QED BY <1>6, <1>8, <1>9

LEMMA HandlerStepType == ASSUME TypeOK, NEW h \in Handlers, HandlerStep(h) PROVE TypeOK'
<1>1. sent' = sent
  BY DEF HandlerStep, TakeBatch, GhostTakesBatch, OfferTimesOut, SeesDisconnect, Decide, Malformed, pageVars
<1>2. MailType /\ HandlerType /\ NetType /\ FateType BY TypeParts
<1>3. CASE TakeBatch(h)
  <2> DEFINE o == mailbox[Owner(h)]
  <2>1. o \in Offers BY <1>3, OffersAre DEF TakeBatch
  <2> HIDE DEF o
  <2>2. wire' = [wire EXCEPT ![h] = Append(@, o)] /\ batch' = [batch EXCEPT ![h] = o]
    BY <1>3 DEF TakeBatch, o
  <2>3. Append(wire[h], o) \in Seq(Offers) BY <1>2, <2>1, AppendIs DEF NetType
  <2>4. NetType' BY <1>1, <1>2, <1>3, <2>2, <2>3, SameIds DEF NetType, TakeBatch
  <2>5. HandlerType' BY <1>1, <1>2, <1>3, <2>1, <2>2, SameIds DEF HandlerType, TakeBatch
  <2>6. MailType' BY <1>1, <1>2, <1>3, SameIds, OffersAre DEF MailType, TakeBatch, Emptied
  <2>7. InboxType' /\ PageType' /\ SocketType' /\ FateType'
    BY <1>1, <1>3, SameType DEF TakeBatch, pageVars
  <2>8. QED BY <1>1, <2>4, <2>5, <2>6, <2>7, SameType, TypeParts
<1>4. CASE GhostTakesBatch(h)
  <2>1. HandlerType' /\ NetType' /\ InboxType' /\ SocketType' BY <1>1, <1>4, EndsType DEF GhostTakesBatch
  <2>2. MailType' BY <1>1, <1>2, <1>4, SameIds, OffersAre DEF MailType, GhostTakesBatch, Emptied
  <2>3. FateType' BY <1>1, <1>2, <1>4, SameIds, OffersAre DEF FateType, GhostTakesBatch
  <2>4. PageType' BY <1>1, <1>4, SameType DEF GhostTakesBatch
  <2>5. QED BY <1>1, <2>1, <2>2, <2>3, <2>4, SameType, TypeParts
<1>5. CASE OfferTimesOut(h)
  <2>1. HandlerType' BY <1>1, <1>2, <1>5, SameIds, OffersAre DEF HandlerType, OfferTimesOut
  <2>2. FateType' BY <1>1, <1>2, <1>5, SameIds, OffersAre DEF FateType, OfferTimesOut
  <2>3. MailType' /\ NetType' /\ InboxType' /\ SocketType' /\ PageType'
    BY <1>1, <1>5, SameType DEF OfferTimesOut, netVars, pageVars
  <2>4. QED BY <1>1, <2>1, <2>2, <2>3, SameType, TypeParts
<1>6. CASE SeesDisconnect(h)
  <2>1. HandlerType' /\ NetType' /\ InboxType' /\ SocketType' BY <1>1, <1>6, EndsType DEF SeesDisconnect
  <2>2. FateType' BY <1>1, <1>2, <1>6, SameIds, OffersAre DEF FateType, SeesDisconnect
  <2>3. MailType' /\ PageType' BY <1>1, <1>6, SameType DEF SeesDisconnect
  <2>4. QED BY <1>1, <2>1, <2>2, <2>3, SameType, TypeParts
<1>7. CASE Decide(h)
  <2>1. HandlerType' /\ NetType' /\ InboxType' /\ SocketType'
    BY <1>1, <1>2, <1>7, AnswerTakenType DEF Decide, HandlerType
  <2>2. FateType'
    <3>1. PICK done \in SUBSET Accepted(Head(inbox[h]), batch[h]) :
            /\ copied' = copied \cup {batch[h][k] : k \in done}
            /\ gone' = gone \cup (Elems(batch[h]) \ {batch[h][k] : k \in done})
            /\ misread' = misread \cup
                 {<<batch[h][k], Head(inbox[h]).card[k]>> :
                    k \in {j \in done \cap DOMAIN Head(inbox[h]).card :
                             Head(inbox[h]).card[j] # batch[h][j]}}
      BY <1>7 DEF Decide
    <3>2. \A k \in done : batch[h][k] \in Elems(batch[h]) BY DEF Accepted, Elems
    <3>3. Elems(batch[h]) \subseteq Ids BY OffersAre
    <3>4. consented' = consented BY <1>7 DEF Decide
    <3>5. Head(inbox[h]).card \in Offers
      <4>1. inbox[h] \in Seq(Answers) BY DEF TypeOK
      <4>2. inbox[h] # <<>> BY <1>7 DEF Decide
      <4>3. Head(inbox[h]) \in Answers BY <4>1, <4>2, TailIs
      <4>4. QED BY <4>3 DEF Answers
    <3>6. \A k \in DOMAIN Head(inbox[h]).card : Head(inbox[h]).card[k] \in Ids BY <3>5, SeqIs DEF Offers
    <3>7. misread' \subseteq Ids \X Ids BY <1>2, <3>1, <3>2, <3>3, <3>6 DEF FateType
    <3>8. QED BY <1>1, <1>2, <3>1, <3>2, <3>3, <3>4, <3>7, SameIds DEF FateType
  <2>3. MailType' /\ PageType' BY <1>1, <1>7, SameType DEF Decide
  <2>4. QED BY <1>1, <2>1, <2>2, <2>3, SameType, TypeParts
<1>8. CASE Malformed(h)
  <2>1. HandlerType' /\ NetType' /\ InboxType' /\ SocketType'
    BY <1>1, <1>2, <1>8, AnswerTakenType DEF Malformed, HandlerType
  <2>2. FateType' BY <1>1, <1>2, <1>8, SameIds, OffersAre DEF FateType, Malformed
  <2>3. MailType' /\ PageType' BY <1>1, <1>8, SameType DEF Malformed
  <2>4. QED BY <1>1, <2>1, <2>2, <2>3, SameType, TypeParts
<1>9. QED BY <1>3, <1>4, <1>5, <1>6, <1>7, <1>8 DEF HandlerStep

LEMMA PageStepType == ASSUME TypeOK, NEW p \in Pages, PageStep(p) PROVE TypeOK'
<1>1. sent' = sent
  BY DEF PageStep, OpenSocket, Reload, ReadOffer, RenderCards, Respond, SendMalformed
<1>2. HandlerType /\ NetType /\ PageType /\ SocketType /\ InboxType /\ FateType BY TypeParts
<1>3. ASSUME NEW h \in Handlers, OpenSocket(p, h) PROVE TypeOK'
  <2>1. HandlerType' BY <1>1, <1>2, <1>3, SameIds, OConnectAssumption DEF HandlerType, OpenSocket
  <2>2. SocketType' BY <1>2, <1>3 DEF SocketType, OpenSocket
  <2>3. NetType' BY <1>1, <1>2, <1>3, SameIds DEF NetType, OpenSocket
  <2>4. MailType' /\ InboxType' /\ PageType' /\ FateType' BY <1>1, <1>3, SameType DEF OpenSocket
  <2>5. QED BY <1>1, <2>1, <2>2, <2>3, <2>4, SameType, TypeParts
<1>4. CASE Reload(p)
  <2>1. socket[p] \in Handlers BY <1>2, <1>4 DEF SocketType, Reload
  <2>2. NetType' /\ SocketType' BY <1>1, <1>4, <2>1, HangupType DEF Reload
  <2>3. PageType' BY <1>1, <1>2, <1>4, SameIds, OffersAre DEF PageType, Reload
  <2>4. MailType' /\ HandlerType' /\ InboxType' /\ FateType' BY <1>1, <1>4, SameType DEF Reload
  <2>5. QED BY <1>1, <2>2, <2>3, <2>4, SameType, TypeParts
<1>5. CASE ReadOffer(p)
  <2>1. socket[p] \in Handlers BY <1>2, <1>5 DEF SocketType, ReadOffer
  <2>2. wire[socket[p]] \in Seq(Offers) /\ wire[socket[p]] # <<>> BY <1>2, <1>5, <2>1 DEF NetType, ReadOffer
  <2>3. Head(wire[socket[p]]) \in Offers /\ Tail(wire[socket[p]]) \in Seq(Offers) BY <2>2, TailIs
  <2>4. Append(rendering[p], Head(wire[socket[p]])) \in Seq(Offers) BY <1>2, <2>3, AppendIs DEF PageType
  <2>5. PageType' BY <1>1, <1>2, <1>5, <2>3, <2>4, SameIds, OffersAre DEF PageType, ReadOffer
  <2>6. NetType' BY <1>1, <1>2, <1>5, <2>3, SameIds DEF NetType, ReadOffer
  <2>7. MailType' /\ HandlerType' /\ InboxType' /\ SocketType' /\ FateType'
    BY <1>1, <1>5, SameType DEF ReadOffer
  <2>8. QED BY <1>1, <2>5, <2>6, <2>7, SameType, TypeParts
<1>6. CASE RenderCards(p)
  <2>1. PICK i \in DOMAIN rendering[p] :
          /\ cards' = [cards EXCEPT ![p] = Append(@, rendering[p][i])]
          /\ rendering' = [rendering EXCEPT ![p] = SubSeq(@, 1, i - 1) \o SubSeq(@, i + 1, Len(@))]
          /\ modal' = [modal EXCEPT ![p] = TRUE]
          /\ UNCHANGED <<mailVars, handlerVars, netVars, socket, payload, sent, fateVars>>
    BY <1>6 DEF RenderCards
  <2>2. rendering[p] \in Seq(Offers) /\ cards[p] \in Seq(Offers) BY <1>2 DEF PageType
  <2>3. SubSeq(rendering[p], 1, i - 1) \o SubSeq(rendering[p], i + 1, Len(rendering[p])) \in Seq(Offers)
    BY <2>2, CutIs
  <2>4. Append(cards[p], rendering[p][i]) \in Seq(Offers) BY <2>2, SeqIs, AppendIs
  <2>5. PageType' BY <1>1, <1>2, <2>1, <2>3, <2>4, SameIds DEF PageType
  <2>6. MailType' /\ HandlerType' /\ NetType' /\ InboxType' /\ SocketType' /\ FateType'
    BY <1>1, <2>1, SameType DEF netVars
  <2>7. QED BY <1>1, <2>5, <2>6, SameType, TypeParts
<1>7. ASSUME NEW wanted \in SUBSET Ids, Respond(p, wanted) PROVE TypeOK'
  <2>1. socket[p] \in Handlers BY <1>2, <1>7 DEF SocketType, Respond
  <2>2. InboxType' BY <1>1, <1>7, <2>1, RespondIs, InboxStep
  <2>3. PageType' BY <1>1, <1>2, <1>7, SameIds, OffersAre DEF PageType, Respond
  <2>4. FateType' BY <1>1, <1>2, <1>7, SameIds DEF FateType, Respond
  <2>5. MailType' /\ HandlerType' /\ NetType' /\ SocketType' BY <1>1, <1>7, SameType DEF Respond
  <2>6. QED BY <1>1, <2>2, <2>3, <2>4, <2>5, SameType, TypeParts
<1>8. ASSUME NEW kind \in {"bad", "broken"}, SendMalformed(p, kind) PROVE TypeOK'
  <2> DEFINE e == [kind |-> kind, ok |-> {}, card |-> <<>>]
  <2>1. socket[p] \in Handlers BY <1>2, <1>8 DEF SocketType, SendMalformed
  <2>2. e \in Answers /\ e.ok = {} BY OffersAre DEF Answers
  <2>3. inbox' = [inbox EXCEPT ![socket[p]] = Append(inbox[socket[p]], e)] BY <1>8 DEF SendMalformed
  <2> HIDE DEF e
  <2>4. InboxType' BY <1>1, <2>1, <2>2, <2>3, InboxStep
  <2>5. PageType' BY <1>1, <1>2, <1>8, SameIds, OffersAre DEF PageType, SendMalformed
  <2>6. MailType' /\ HandlerType' /\ NetType' /\ SocketType' /\ FateType'
    BY <1>1, <1>8, SameType DEF SendMalformed
  <2>7. QED BY <1>1, <2>4, <2>5, <2>6, SameType, TypeParts
<1>9. QED BY <1>3, <1>4, <1>5, <1>6, <1>7, <1>8 DEF PageStep

LEMMA NextTypeOK == TypeOK /\ [Next]_vars => TypeOK'
<1> SUFFICES ASSUME TypeOK, [Next]_vars PROVE TypeOK' OBVIOUS
<1>1. MailType /\ FateType BY TypeParts
<1>2. ASSUME NEW u \in Users, NetworkConnect(u) PROVE TypeOK'
  <2>1. sent' = sent BY <1>2 DEF NetworkConnect
  <2>2. MailType' BY <1>1, <1>2, <2>1, SameIds DEF MailType, NetworkConnect
  <2>3. QED BY <1>2, <2>1, <2>2, SameType, TypeParts DEF NetworkConnect, netVars, pageVars
<1>3. ASSUME NEW u \in Users, NetworkDisconnect(u) PROVE TypeOK'
  <2>1. sent' = sent BY <1>3 DEF NetworkDisconnect
  <2>2. MailType' BY <1>1, <1>3, <2>1, SameIds, OffersAre DEF MailType, NetworkDisconnect
  <2>3. FateType' BY <1>1, <1>3, <2>1, SameIds, OffersAre DEF FateType, NetworkDisconnect
  <2>4. QED BY <1>3, <2>1, <2>2, <2>3, SameType, TypeParts DEF NetworkDisconnect, netVars, pageVars
<1>4. ASSUME NEW h \in Handlers, SocketCloses(h) PROVE TypeOK'
  <2>1. sent' = sent BY <1>4 DEF SocketCloses
  <2>2. NetType' /\ SocketType' BY <1>4, <2>1, HangupType DEF SocketCloses
  <2>3. QED BY <1>4, <2>1, <2>2, SameType, TypeParts DEF SocketCloses
<1>5. CASE Restart
  <2>1. sent' = sent BY <1>5 DEF Restart
  <2>2. MailType' BY <2>1, <1>5, SameIds, OffersAre DEF MailType, Restart
  <2>3. HandlerType' /\ NetType' /\ SocketType'
    BY <2>1, <1>5, SameIds, OffersAre DEF HandlerType, NetType, SocketType, Restart
  <2>4. InboxType'
    <3>1. inbox' = [h \in Handlers |-> <<>>] BY <1>5 DEF Restart
    <3>2. inbox' \in [Handlers -> Seq(Answers)] BY <3>1, OffersAre
    <3>3. DOMAIN <<>> = {} OBVIOUS
    <3>4. QED BY <2>1, <3>1, <3>2, <3>3, SameIds DEF InboxType
  <2>5. FateType' BY <1>1, <2>1, <1>5, SameIds, OffersAre DEF FateType, Restart
  <2>6. QED BY <1>5, <2>1, <2>2, <2>3, <2>4, <2>5, SameType, TypeParts DEF Restart
<1>6. CASE UNCHANGED vars
  BY <1>6, SameType, TypeParts DEF vars, netVars, pageVars
<1>7. QED BY <1>2, <1>3, <1>4, <1>5, <1>6, SendFileType, HandlerStepType, PageStepType DEF Next

\* Mailboxes, batches, offers on the wire and answers keep their types.
THEOREM TypeCorrect == Spec => []TypeOK
BY InitTypeOK, NextTypeOK, PTL DEF Spec

-----------------------------------------------------------------------------
(* One place for every transfer *)

Settled == copied \cup gone

\* The mail of a user was sent to that user, each transfer once.
IMail ==
    \A u \in Users : \A i \in DOMAIN mailbox[u] :
      /\ sent[mailbox[u][i]] = u /\ mailbox[u][i] \notin Settled
      /\ \A j \in DOMAIN mailbox[u] : mailbox[u][j] = mailbox[u][i] => j = i
      /\ \A h \in Handlers : \A j \in DOMAIN batch[h] : batch[h][j] # mailbox[u][i]
\* No two handlers have a transfer, only one that waits has any.
IBatch ==
    /\ \A h \in Handlers : pc[h] # "waiting" => batch[h] = <<>>
    /\ \A h \in Handlers : \A i \in DOMAIN batch[h] :
         /\ batch[h][i] \notin Settled
         /\ \A g \in Handlers : \A j \in DOMAIN batch[g] : batch[g][j] = batch[h][i] => g = h /\ j = i
IHeld ==
    \A t \in Ids : \/ t \in Settled
                   \/ \E u \in Users : t \in Elems(mailbox[u])
                   \/ \E h \in Handlers : t \in Elems(batch[h])

IInv == IMail /\ IBatch /\ IHeld

IOnce == copied \cap gone = {}

\* What steps do to the transfers.
Stays == UNCHANGED <<sent, mailbox, batch, copied, gone>>
Sends(u) ==
    /\ sent' = Append(sent, u) /\ mailbox' = [mailbox EXCEPT ![u] = Append(@, Len(sent) + 1)]
    /\ Len(sent) < MaxTransfers /\ UNCHANGED <<batch, copied, gone>>
Drops(u) ==
    /\ gone' = gone \cup Elems(mailbox[u]) /\ mailbox' = [mailbox EXCEPT ![u] = <<>>]
    /\ UNCHANGED <<sent, batch, copied>>
Takes(h, u) ==
    /\ pc[h] = "idle" /\ pc'[h] = "waiting"
    /\ batch' = [batch EXCEPT ![h] = mailbox[u]] /\ mailbox' = [mailbox EXCEPT ![u] = <<>>]
    /\ UNCHANGED <<sent, copied, gone>>
Settles(h, now) ==
    /\ copied' = copied \cup now /\ gone' = gone \cup (Elems(batch[h]) \ now)
    /\ batch' = [batch EXCEPT ![h] = <<>>] /\ UNCHANGED <<sent, mailbox>>
Loses ==
    /\ gone' = gone \cup UNION ({Elems(mailbox[u]) : u \in Users} \cup {Elems(batch[h]) : h \in Handlers})
    /\ mailbox' = [u \in Users |-> <<>>] /\ batch' = [h \in Handlers |-> <<>>]
    /\ UNCHANGED <<sent, copied>>

TransferStep ==
    \/ Stays \/ Loses
    \/ \E u \in Users : Sends(u) \/ Drops(u) \/ \E h \in Handlers : Takes(h, u)
    \/ \E h \in Handlers : \E now \in SUBSET Elems(batch[h]) : Settles(h, now)

\* A handler that is not waiting has no batch to forget.
LEMMA NextIs ==
    ASSUME TypeOK, IInv, [Next]_vars
    PROVE  TransferStep /\ \A h \in Handlers : pc'[h] # "waiting" => batch'[h] = <<>>
<1>1. HandlerType /\ MailType BY TypeParts
<1>2. \A h \in Handlers : pc[h] # "waiting" => batch[h] = <<>> BY DEF IInv, IBatch
<1>3. CASE Stays /\ pc' = pc BY <1>2, <1>3 DEF TransferStep, Stays
<1>4. ASSUME NEW h \in Handlers, NEW now \in SUBSET Elems(batch[h]), Settles(h, now),
             \A g \in Handlers \ {h} : pc'[g] = pc[g]
      PROVE  TransferStep /\ \A g \in Handlers : pc'[g] # "waiting" => batch'[g] = <<>>
  BY <1>1, <1>2, <1>4 DEF TransferStep, Settles, HandlerType
<1>5. ASSUME NEW u \in Users, Drops(u), \A g \in Handlers : pc'[g] = pc[g] \/ batch[g] = <<>>
      PROVE  TransferStep /\ \A g \in Handlers : pc'[g] # "waiting" => batch'[g] = <<>>
  BY <1>2, <1>5 DEF TransferStep, Drops
<1>6. ASSUME NEW h \in Handlers, HandlerStep(h)
      PROVE  TransferStep /\ \A g \in Handlers : pc'[g] # "waiting" => batch'[g] = <<>>
  <2>1. CASE TakeBatch(h)
    <3>1. Owner(h) \in Users BY <2>1, OffersAre DEF TakeBatch
    <3>2. Takes(h, Owner(h)) BY <1>1, <2>1 DEF Takes, TakeBatch, Emptied, HandlerType, pageVars, fateVars
    <3>3. \A g \in Handlers : pc'[g] # "waiting" => batch'[g] = <<>> BY <1>1, <1>2, <2>1 DEF TakeBatch, HandlerType
    <3>4. QED BY <3>1, <3>2, <3>3 DEF TransferStep
  <2>2. CASE GhostTakesBatch(h)
    <3>1. Owner(h) \in Users BY <2>2, OffersAre DEF GhostTakesBatch
    <3>2. batch[h] = <<>> BY <1>2, <2>2 DEF GhostTakesBatch
    <3>3. batch' = batch BY <1>1, <2>2, <3>2 DEF GhostTakesBatch, Ends, HandlerType
    <3>4. Drops(Owner(h)) BY <2>2, <3>3 DEF Drops, GhostTakesBatch, Emptied
    <3>5. \A g \in Handlers : pc'[g] = pc[g] \/ batch[g] = <<>>
      BY <1>1, <2>2, <3>2 DEF GhostTakesBatch, Ends, HandlerType
    <3>6. QED BY <1>5, <3>1, <3>4, <3>5
  <2>3. CASE OfferTimesOut(h)
    <3>1. Settles(h, {}) BY <2>3 DEF Settles, OfferTimesOut, mailVars
    <3>2. QED BY <1>1, <1>4, <2>3, <3>1 DEF OfferTimesOut, HandlerType
  <2>4. CASE SeesDisconnect(h)
    <3>1. Settles(h, {}) BY <2>4 DEF Settles, SeesDisconnect, Ends, mailVars
    <3>2. QED BY <1>1, <1>4, <2>4, <3>1 DEF SeesDisconnect, Ends, HandlerType
  <2>5. CASE Decide(h)
    <3>1. PICK done \in SUBSET Accepted(Head(inbox[h]), batch[h]) :
            /\ copied' = copied \cup {batch[h][k] : k \in done}
            /\ gone' = gone \cup (Elems(batch[h]) \ {batch[h][k] : k \in done})
      BY <2>5 DEF Decide
    <3>2. {batch[h][k] : k \in done} \in SUBSET Elems(batch[h]) BY DEF Accepted, Elems
    <3>3. Settles(h, {batch[h][k] : k \in done}) BY <2>5, <3>1 DEF Settles, Decide, Ends, mailVars
    <3>4. \A g \in Handlers \ {h} : pc'[g] = pc[g] BY <1>1, <2>5 DEF Decide, Ends, HandlerType
    <3>5. QED BY <1>4, <3>2, <3>3, <3>4
  <2>6. CASE Malformed(h)
    <3>1. Settles(h, {}) BY <2>6 DEF Settles, Malformed, Ends, mailVars
    <3>2. \A g \in Handlers \ {h} : pc'[g] = pc[g] BY <1>1, <2>6 DEF Malformed, Ends, HandlerType
    <3>3. QED BY <1>4, <3>1, <3>2
  <2>7. QED BY <1>6, <2>1, <2>2, <2>3, <2>4, <2>5, <2>6 DEF HandlerStep
<1>7. ASSUME NEW p \in Pages, PageStep(p)
      PROVE  TransferStep /\ \A g \in Handlers : pc'[g] # "waiting" => batch'[g] = <<>>
  <2>1. ASSUME NEW h \in Handlers, OpenSocket(p, h)
        PROVE  TransferStep /\ \A g \in Handlers : pc'[g] # "waiting" => batch'[g] = <<>>
    BY <1>1, <1>2, <2>1 DEF OpenSocket, TransferStep, Stays, mailVars, fateVars, HandlerType
  <2>2. CASE Reload(p) BY <1>3, <2>2 DEF Reload, Stays, mailVars, handlerVars, fateVars
  <2>3. CASE ReadOffer(p) BY <1>3, <2>3 DEF ReadOffer, Stays, mailVars, handlerVars, fateVars
  <2>4. CASE RenderCards(p) BY <1>3, <2>4 DEF RenderCards, Stays, mailVars, handlerVars, fateVars
  <2>5. ASSUME NEW wanted \in SUBSET Ids, Respond(p, wanted) PROVE Stays /\ pc' = pc
    BY <2>5 DEF Respond, Stays, mailVars, handlerVars
  <2>6. ASSUME NEW kind \in {"bad", "broken"}, SendMalformed(p, kind) PROVE Stays /\ pc' = pc
    BY <2>6 DEF SendMalformed, Stays, mailVars, handlerVars, fateVars
  <2>7. QED BY <1>3, <1>7, <2>1, <2>2, <2>3, <2>4, <2>5, <2>6 DEF PageStep
<1>8. ASSUME NEW u \in Users, NetworkConnect(u) PROVE Stays /\ pc' = pc
  BY <1>8 DEF NetworkConnect, Stays, handlerVars, fateVars
<1>9. ASSUME NEW u \in Users, NetworkDisconnect(u)
      PROVE  TransferStep /\ \A g \in Handlers : pc'[g] # "waiting" => batch'[g] = <<>>
  <2>1. Drops(u) /\ pc' = pc BY <1>9 DEF NetworkDisconnect, Drops, handlerVars
  <2>2. QED BY <1>5, <2>1
<1>10. ASSUME NEW u \in Users, SendFile(u)
       PROVE  TransferStep /\ \A g \in Handlers : pc'[g] # "waiting" => batch'[g] = <<>>
  <2>1. Sends(u) /\ pc' = pc /\ batch' = batch BY <1>10 DEF SendFile, Sends, handlerVars, fateVars
  <2>2. QED BY <1>2, <2>1 DEF TransferStep
<1>11. ASSUME NEW h \in Handlers, SocketCloses(h) PROVE Stays /\ pc' = pc
  BY <1>11 DEF SocketCloses, Stays, mailVars, handlerVars, fateVars
<1>12. CASE Restart
  <2>1. Loses BY <1>12 DEF Restart, Loses
  <2>2. QED BY <2>1 DEF Loses, TransferStep
<1>13. CASE UNCHANGED vars BY <1>3, <1>13 DEF vars, Stays, mailVars, handlerVars, fateVars
<1>14. QED
  BY <1>3, <1>6, <1>7, <1>8, <1>9, <1>10, <1>11, <1>12, <1>13 DEF Next

LEMMA InitIInv == Init => IInv
<1> SUFFICES ASSUME Init PROVE IInv OBVIOUS
<1>1. DOMAIN <<>> = {} /\ Len(<<>>) = 0 OBVIOUS
<1>2. IMail /\ IBatch BY <1>1 DEF Init, IMail, IBatch
<1>3. IHeld BY <1>1 DEF Init, IHeld, Ids
<1>4. QED BY <1>2, <1>3 DEF IInv

LEMMA ElemsAre ==
    /\ Elems(<<>>) = {} /\ DOMAIN <<>> = {}
    /\ \A q : \A i \in DOMAIN q : q[i] \in Elems(q)
    /\ \A q : \A t \in Elems(q) : \E i \in DOMAIN q : t = q[i]
BY DEF Elems

LEMMA TransferStepIInv ==
    ASSUME TypeOK, IInv, TransferStep, \A h \in Handlers : pc'[h] # "waiting" => batch'[h] = <<>>
    PROVE  IInv'
<1>1. MailType /\ HandlerType /\ FateType /\ sent \in Seq(Users) BY TypeParts
<1>2. /\ mailbox \in [Users -> Offers] /\ batch \in [Handlers -> Offers]
      /\ \A u \in Users : Elems(mailbox[u]) \subseteq Ids
      /\ \A h \in Handlers : Elems(batch[h]) \subseteq Ids
  BY <1>1, OffersAre DEF MailType, HandlerType
<1>3. CASE Stays
  <2>1. Ids' = Ids BY <1>3, SameIds DEF Stays
  <2>2. QED BY <1>3, <2>1 DEF Stays, IInv, IMail, IBatch, IHeld, Settled
<1>4. CASE Loses
  <2>1. Ids' = Ids BY <1>4, SameIds DEF Loses
  <2>2. \A u \in Users : mailbox'[u] = <<>> BY <1>4 DEF Loses
  <2>3. \A h \in Handlers : batch'[h] = <<>> BY <1>4 DEF Loses
  <2>4. IMail' /\ IBatch' BY <2>2, <2>3, ElemsAre DEF IMail, IBatch
  <2>5. IHeld' BY <1>4, <2>1 DEF Loses, IInv, IHeld, Settled
  <2>6. QED BY <2>4, <2>5 DEF IInv
<1>5. ASSUME NEW u \in Users, Sends(u) PROVE IInv'
  <2> DEFINE n == Len(sent) + 1
  <2>1. /\ Len(sent) \in Nat /\ Ids = 1..Len(sent) /\ Ids' = Ids \cup {n} /\ n \notin Ids
        /\ sent'[n] = u /\ \A t \in Ids : sent'[t] = sent[t]
    <3>1. Len(sent) \in Nat BY <1>1, SeqIs
    <3>2. /\ Len(sent') = Len(sent) + 1 /\ sent'[n] = u
          /\ \A t \in 1..Len(sent) : sent'[t] = sent[t]
      BY <1>1, <1>5, AppendIs DEF Sends
    <3>3. QED BY <3>1, <3>2 DEF Ids
  <2>2. mailbox[u] \in Seq(Ids) BY <1>2 DEF Offers
  <2>3. mailbox[u] \in Seq(Ids \cup {n}) BY <2>2, SeqLarger
  <2>4. /\ DOMAIN mailbox[u] = 1..Len(mailbox[u]) /\ Len(mailbox[u]) \in Nat
        /\ \A i \in DOMAIN mailbox[u] : mailbox[u][i] \in Ids
    BY <2>2, SeqIs
  <2> HIDE DEF n
  <2>5. /\ DOMAIN Append(mailbox[u], n) = 1..(Len(mailbox[u]) + 1)
        /\ Append(mailbox[u], n)[Len(mailbox[u]) + 1] = n
        /\ \A i \in 1..Len(mailbox[u]) : Append(mailbox[u], n)[i] = mailbox[u][i]
        /\ Elems(Append(mailbox[u], n)) = Elems(mailbox[u]) \cup {n}
    BY <2>3, AppendIs
  <2>6. \A v \in Users : mailbox'[v] = IF v = u THEN Append(mailbox[u], n) ELSE mailbox[v]
    BY <1>2, <1>5 DEF Sends, n
  <2>7. Settled' = Settled /\ n \notin Settled /\ batch' = batch BY <1>1, <1>5, <2>1 DEF Sends, Settled, FateType
  <2>8. \A v \in Users : \A i \in DOMAIN mailbox[v] : mailbox[v][i] \in Ids BY <1>2, ElemsAre
  <2>9. \A h \in Handlers : \A i \in DOMAIN batch[h] : batch[h][i] \in Ids /\ batch[h][i] # n
    BY <1>2, <2>1, ElemsAre
  <2>10. \A j \in DOMAIN mailbox'[u] :
           \/ j = Len(mailbox[u]) + 1 /\ mailbox'[u][j] = n
           \/ /\ j \in DOMAIN mailbox[u] /\ mailbox'[u][j] = mailbox[u][j]
              /\ mailbox[u][j] \in Ids /\ j # Len(mailbox[u]) + 1
    <3> DEFINE b == Append(mailbox[u], n)
    <3>1. b = mailbox'[u] BY <2>6
    <3>2. /\ DOMAIN b = 1..(Len(mailbox[u]) + 1) /\ b[Len(mailbox[u]) + 1] = n
          /\ \A i \in 1..Len(mailbox[u]) : b[i] = mailbox[u][i]
      BY <2>5
    <3> HIDE DEF b
    <3>3. \A j \in DOMAIN b : j = Len(mailbox[u]) + 1 \/ j \in 1..Len(mailbox[u]) BY <2>4, <3>2
    <3>4. QED BY <2>4, <3>1, <3>2, <3>3
  <2>11. IMail'
    <3> SUFFICES ASSUME NEW v \in Users, NEW i \in DOMAIN mailbox'[v]
                 PROVE  /\ sent'[mailbox'[v][i]] = v /\ mailbox'[v][i] \notin Settled'
                        /\ \A j \in DOMAIN mailbox'[v] : mailbox'[v][j] = mailbox'[v][i] => j = i
                        /\ \A h \in Handlers : \A j \in DOMAIN batch'[h] : batch'[h][j] # mailbox'[v][i]
      BY DEF IMail
    <3>1. CASE v # u
      <4>1. mailbox'[v] = mailbox[v] BY <2>6, <3>1
      <4>2. mailbox[v][i] \in Ids BY <2>8, <4>1
      <4>3. QED BY <2>1, <2>7, <4>1, <4>2 DEF IInv, IMail
    <3>2. CASE v = u /\ i = Len(mailbox[u]) + 1
      <4>1. mailbox'[v][i] = n BY <2>5, <2>6, <3>2
      <4>2. \A j \in DOMAIN mailbox'[v] : j # i => mailbox'[v][j] \in Ids BY <2>10, <3>2
      <4>3. QED BY <2>1, <2>7, <2>9, <3>2, <4>1, <4>2
    <3>3. CASE v = u /\ i # Len(mailbox[u]) + 1
      <4>1. i \in DOMAIN mailbox[u] /\ mailbox'[v][i] = mailbox[u][i] /\ mailbox[u][i] \in Ids
        BY <2>10, <3>3
      <4>2. \A j \in DOMAIN mailbox'[v] :
              \/ j = Len(mailbox[u]) + 1 /\ mailbox'[v][j] = n
              \/ j \in DOMAIN mailbox[u] /\ mailbox'[v][j] = mailbox[u][j]
        BY <2>10, <3>3
      <4>3. \A j \in DOMAIN mailbox'[v] : mailbox'[v][j] = mailbox'[v][i] => j = i
        BY <2>1, <4>1, <4>2 DEF IInv, IMail
      <4>4. QED BY <2>1, <2>7, <3>3, <4>1, <4>3 DEF IInv, IMail
    <3>4. QED BY <3>1, <3>2, <3>3
  <2>12. IBatch' BY <2>7 DEF IInv, IBatch
  <2>13. IHeld'
    <3> SUFFICES ASSUME NEW t \in Ids' PROVE t \in Settled' \/ (\E v \in Users : t \in Elems(mailbox'[v]))
                                              \/ \E h \in Handlers : t \in Elems(batch'[h])
      BY DEF IHeld, Elems
    <3>1. CASE t = n BY <2>5, <2>6, <3>1
    <3>2. CASE t \in Ids BY <2>5, <2>6, <2>7, <3>2 DEF IInv, IHeld
    <3>3. QED BY <2>1, <3>1, <3>2
  <2>14. QED BY <2>11, <2>12, <2>13 DEF IInv
<1>6. ASSUME NEW u \in Users, Drops(u) PROVE IInv'
  <2>1. Ids' = Ids /\ batch' = batch /\ sent' = sent /\ Settled' = Settled \cup Elems(mailbox[u])
    BY <1>6, SameIds DEF Drops, Settled
  <2>2. \A v \in Users : mailbox'[v] = IF v = u THEN <<>> ELSE mailbox[v] BY <1>2, <1>6 DEF Drops
  <2>3. \A t \in Elems(mailbox[u]) : sent[t] = u /\ \A h \in Handlers : t \notin Elems(batch[h])
    BY ElemsAre DEF IInv, IMail
  <2>4. IMail' BY <2>1, <2>2, <2>3, ElemsAre DEF IInv, IMail
  <2>5. IBatch' BY <2>1, <2>3, ElemsAre DEF IInv, IBatch
  <2>6. IHeld' BY <2>1, <2>2 DEF IInv, IHeld
  <2>7. QED BY <2>4, <2>5, <2>6 DEF IInv
<1>7. ASSUME NEW h \in Handlers, NEW u \in Users, Takes(h, u) PROVE IInv'
  <2>1. Ids' = Ids /\ sent' = sent /\ Settled' = Settled BY <1>7, SameIds DEF Takes, Settled
  <2>2. \A v \in Users : mailbox'[v] = IF v = u THEN <<>> ELSE mailbox[v] BY <1>2, <1>7 DEF Takes
  <2>3. \A g \in Handlers : batch'[g] = IF g = h THEN mailbox[u] ELSE batch[g] BY <1>2, <1>7 DEF Takes
  <2>4. batch[h] = <<>> BY <1>7 DEF Takes, IInv, IBatch
  <2>5. IMail'
    <3> SUFFICES ASSUME NEW v \in Users, NEW i \in DOMAIN mailbox'[v]
                 PROVE  /\ sent'[mailbox'[v][i]] = v /\ mailbox'[v][i] \notin Settled'
                        /\ \A j \in DOMAIN mailbox'[v] : mailbox'[v][j] = mailbox'[v][i] => j = i
                        /\ \A g \in Handlers : \A j \in DOMAIN batch'[g] : batch'[g][j] # mailbox'[v][i]
      BY DEF IMail
    <3>1. v # u /\ mailbox'[v] = mailbox[v] BY <2>2, ElemsAre
    <3>2. sent[mailbox[v][i]] = v /\ \A j \in DOMAIN mailbox[u] : sent[mailbox[u][j]] = u
      BY <3>1 DEF IInv, IMail
    <3>3. \A j \in DOMAIN mailbox[u] : mailbox[u][j] # mailbox[v][i] BY <3>1, <3>2
    <3>4. QED BY <2>1, <2>3, <3>1, <3>3 DEF IInv, IMail
  <2>6. IBatch' BY <2>1, <2>3 DEF IInv, IBatch, IMail
  <2>7. IHeld' BY <2>1, <2>2, <2>3, <2>4, ElemsAre DEF IInv, IHeld
  <2>8. QED BY <2>5, <2>6, <2>7 DEF IInv
<1>8. ASSUME NEW h \in Handlers, NEW now \in SUBSET Elems(batch[h]), Settles(h, now) PROVE IInv'
  <2>1. Ids' = Ids /\ sent' = sent /\ mailbox' = mailbox /\ Settled' = Settled \cup Elems(batch[h])
    BY <1>8, SameIds DEF Settles, Settled
  <2>2. \A g \in Handlers : batch'[g] = IF g = h THEN <<>> ELSE batch[g] BY <1>2, <1>8 DEF Settles
  <2>3. IMail' BY <2>1, <2>2, ElemsAre DEF IInv, IMail
  <2>4. IBatch'
    <3> SUFFICES ASSUME NEW g \in Handlers, NEW i \in DOMAIN batch'[g]
                 PROVE  /\ batch'[g][i] \notin Settled'
                        /\ \A f \in Handlers : \A j \in DOMAIN batch'[f] :
                             batch'[f][j] = batch'[g][i] => f = g /\ j = i
      BY DEF IBatch
    <3>1. g # h /\ batch'[g] = batch[g] BY <2>2, ElemsAre
    <3>2. batch[g][i] \notin Elems(batch[h]) BY <3>1, ElemsAre DEF IInv, IBatch
    <3>3. QED BY <2>1, <2>2, <3>1, <3>2, ElemsAre DEF IInv, IBatch
  <2>5. IHeld' BY <2>1, <2>2 DEF IInv, IHeld
  <2>6. QED BY <2>3, <2>4, <2>5 DEF IInv
<1>9. QED BY <1>3, <1>4, <1>5, <1>6, <1>7, <1>8 DEF TransferStep

LEMMA TransferStepOnce == IInv /\ IOnce /\ TransferStep => IOnce'
<1> SUFFICES ASSUME IInv, IOnce, TransferStep PROVE IOnce' OBVIOUS
<1>1. CASE Stays BY <1>1 DEF Stays, IOnce
<1>2. /\ \A u \in Users : \A t \in Elems(mailbox[u]) : t \notin copied
      /\ \A h \in Handlers : \A t \in Elems(batch[h]) : t \notin copied /\ t \notin gone
  BY ElemsAre DEF IInv, IMail, IBatch, Settled
<1>3. CASE Loses
  <2>1. \A t \in gone' : t \notin copied BY <1>2, <1>3 DEF Loses, IOnce
  <2>2. QED BY <1>3, <2>1 DEF Loses, IOnce
<1>4. ASSUME NEW u \in Users, Sends(u) \/ Drops(u) \/ \E h \in Handlers : Takes(h, u) PROVE IOnce'
  BY <1>2, <1>4 DEF Sends, Drops, Takes, IOnce
<1>5. ASSUME NEW h \in Handlers, NEW now \in SUBSET Elems(batch[h]), Settles(h, now) PROVE IOnce'
  BY <1>2, <1>5 DEF Settles, IOnce
<1>6. QED BY <1>1, <1>3, <1>4, <1>5 DEF TransferStep

LEMMA SpecIInv == Spec => [](IInv /\ IOnce)
<1>1. TypeOK /\ IInv /\ IOnce /\ [Next]_vars => IInv' /\ IOnce'
  BY NextIs, TransferStepIInv, TransferStepOnce
<1>2. Init => IOnce BY DEF Init, IOnce
<1>3. QED BY InitIInv, <1>1, <1>2, TypeCorrect, PTL DEF Spec

LEMMA OneOf ==
    ASSUME NEW S, NEW x \in S, \A y \in S : y = x
    PROVE  Cardinality(S) = 1
<1>1. S = {x} OBVIOUS
<1>2. QED BY <1>1, FS_Singleton

LEMMA HoldersAre ==
    ASSUME NEW t, NEW x
    PROVE  x \in Holders(t) <=>
             \/ \E u \in Users : \E i \in DOMAIN mailbox[u] : mailbox[u][i] = t /\ x = <<u, i>>
             \/ \E h \in Handlers : \E i \in DOMAIN batch[h] : batch[h][i] = t /\ x = <<h, i>>
<1> DEFINE M(u) == {<<u, i>> : i \in {j \in DOMAIN mailbox[u] : mailbox[u][j] = t}}
           B(h) == {<<h, i>> : i \in {j \in DOMAIN batch[h] : batch[h][j] = t}}
<1>1. \A u : x \in M(u) <=> \E i \in DOMAIN mailbox[u] : mailbox[u][i] = t /\ x = <<u, i>> OBVIOUS
<1>2. \A h : x \in B(h) <=> \E i \in DOMAIN batch[h] : batch[h][i] = t /\ x = <<h, i>> OBVIOUS
<1>3. Holders(t) = (UNION {M(u) : u \in Users}) \cup (UNION {B(h) : h \in Handlers}) BY DEF Holders
<1> HIDE DEF M, B
<1>4. x \in UNION {M(u) : u \in Users} <=> \E u \in Users : x \in M(u) OBVIOUS
<1>5. x \in UNION {B(h) : h \in Handlers} <=> \E h \in Handlers : x \in B(h) OBVIOUS
<1>6. x \in Holders(t) <=> (\E u \in Users : x \in M(u)) \/ (\E h \in Handlers : x \in B(h))
  BY <1>3, <1>4, <1>5, Zenon
<1>7. QED BY <1>1, <1>2, <1>6

\* A transfer that is not settled is in one place of one mailbox or batch.
THEOREM OneHolderHolds == Spec => []OneHolder
<1>1. ASSUME TypeOK, IInv, NEW t \in Ids
      PROVE  Cardinality(Holders(t)) = (IF t \in copied \cup gone THEN 0 ELSE 1)
  <2>1. \A x \in Holders(t) :
          \/ \E u \in Users : \E i \in DOMAIN mailbox[u] : mailbox[u][i] = t /\ x = <<u, i>>
          \/ \E h \in Handlers : \E i \in DOMAIN batch[h] : batch[h][i] = t /\ x = <<h, i>>
    BY HoldersAre
  <2>2. CASE t \in copied \cup gone
    <3>1. Holders(t) = {} BY <1>1, <2>1, <2>2 DEF IInv, IMail, IBatch, Settled
    <3>2. QED BY <2>2, <3>1, FS_EmptySet
  <2>3. CASE t \notin copied \cup gone
    <3>1. \/ \E u \in Users : t \in Elems(mailbox[u])
          \/ \E h \in Handlers : t \in Elems(batch[h])
      BY <1>1, <2>3 DEF IInv, IHeld, Settled
    <3>2. ASSUME NEW u \in Users, t \in Elems(mailbox[u]) PROVE Cardinality(Holders(t)) = 1
      <4>1. PICK i \in DOMAIN mailbox[u] : mailbox[u][i] = t BY <3>2, ElemsAre
      <4>2. <<u, i>> \in Holders(t) BY <4>1, HoldersAre
      <4>3. \A v \in Users : \A j \in DOMAIN mailbox[v] : mailbox[v][j] = t => v = u /\ j = i
        BY <1>1, <4>1 DEF IInv, IMail
      <4>4. \A h \in Handlers : \A j \in DOMAIN batch[h] : batch[h][j] # t BY <1>1, <4>1 DEF IInv, IMail
      <4>5. \A x \in Holders(t) : x = <<u, i>> BY <2>1, <4>3, <4>4
      <4>6. QED BY <4>2, <4>5, OneOf
    <3>3. ASSUME NEW h \in Handlers, t \in Elems(batch[h]) PROVE Cardinality(Holders(t)) = 1
      <4>1. PICK i \in DOMAIN batch[h] : batch[h][i] = t BY <3>3, ElemsAre
      <4>2. <<h, i>> \in Holders(t) BY <4>1, HoldersAre
      <4>3. \A v \in Users : \A j \in DOMAIN mailbox[v] : mailbox[v][j] # t BY <1>1, <4>1 DEF IInv, IMail
      <4>4. \A g \in Handlers : \A j \in DOMAIN batch[g] : batch[g][j] = t => g = h /\ j = i
        BY <1>1, <4>1 DEF IInv, IBatch
      <4>5. \A x \in Holders(t) : x = <<h, i>> BY <2>1, <4>3, <4>4
      <4>6. QED BY <4>2, <4>5, OneOf
    <3>4. QED BY <2>3, <3>1, <3>2, <3>3
  <2>4. QED BY <2>2, <2>3
<1>2. TypeOK /\ IInv => OneHolder BY <1>1 DEF OneHolder
<1>3. QED BY <1>2, TypeCorrect, SpecIInv, PTL

-----------------------------------------------------------------------------
(* The life cycle of a transfer *)

StatusTable ==
    \A t : /\ t \in copied => Status(t) = "copied"
           /\ t \in gone \ copied => Status(t) = "dropped"
           /\ \A u \in Users : t \in Elems(mailbox[u]) => Status(t) = "queued"
           /\ \A h \in Handlers : t \in Elems(batch[h]) => Status(t) = "offered"
           /\ t \notin Ids => Status(t) = "new"

\* Nothing is held or settled before it is sent, and what is held is not settled.
Distinct ==
    /\ copied \subseteq Ids /\ gone \subseteq Ids /\ copied \cap gone = {}
    /\ \A u \in Users : Elems(mailbox[u]) \subseteq Ids
    /\ \A h \in Handlers : Elems(batch[h]) \subseteq Ids
    /\ \A u \in Users : \A t \in Elems(mailbox[u]) :
         t \notin Settled /\ \A h \in Handlers : t \notin Elems(batch[h])
    /\ \A h \in Handlers : \A t \in Elems(batch[h]) : t \notin Settled

LEMMA DistinctIs ==
    /\ TypeOK /\ IInv /\ IOnce => Distinct
    /\ TypeOK' /\ IInv' /\ IOnce' => Distinct'
<1>1. ASSUME TypeOK, IInv, IOnce PROVE Distinct
  <2>1. copied \subseteq Ids /\ gone \subseteq Ids /\ copied \cap gone = {} BY <1>1 DEF TypeOK, IOnce
  <2>2. /\ \A u \in Users : Elems(mailbox[u]) \subseteq Ids
        /\ \A h \in Handlers : Elems(batch[h]) \subseteq Ids
    BY <1>1, OffersAre
  <2>3. QED BY <1>1, <2>1, <2>2, ElemsAre DEF Distinct, IInv, IMail, IBatch
<1>2. ASSUME TypeOK', IInv', IOnce' PROVE Distinct'
  <2>1. copied' \subseteq Ids' /\ gone' \subseteq Ids' /\ (copied \cap gone)' = {}
    BY <1>2 DEF TypeOK, IOnce
  <2>2. mailbox' \in [Users -> Offers'] /\ batch' \in [Handlers -> Offers'] BY <1>2 DEF TypeOK
  <2>3. \A q \in Offers' : Elems(q) \subseteq Ids'
    <3>1. Offers' = Seq(Ids') BY DEF Offers
    <3>2. QED BY <3>1, SeqIs
  <2>4. /\ \A u \in Users : Elems(mailbox'[u]) \subseteq Ids'
        /\ \A h \in Handlers : Elems(batch'[h]) \subseteq Ids'
    BY <2>2, <2>3
  <2>5. /\ \A u \in Users : \A t \in Elems(mailbox'[u]) :
             t \notin Settled' /\ \A h \in Handlers : t \notin Elems(batch'[h])
        /\ \A h \in Handlers : \A t \in Elems(batch'[h]) : t \notin Settled'
    BY <1>2, ElemsAre DEF IInv, IMail, IBatch
  <2>6. QED BY <2>1, <2>4, <2>5 DEF Distinct, Elems
<1>3. QED BY <1>1, <1>2

LEMMA StatusIs ==
    /\ Distinct => StatusTable
    /\ Distinct' => StatusTable'
<1>1. ASSUME Distinct, NEW t
      PROVE  /\ t \in copied => Status(t) = "copied"
             /\ t \in gone \ copied => Status(t) = "dropped"
             /\ \A u \in Users : t \in Elems(mailbox[u]) => Status(t) = "queued"
             /\ \A h \in Handlers : t \in Elems(batch[h]) => Status(t) = "offered"
             /\ t \notin Ids => Status(t) = "new"
  <2>1. /\ t \in copied => t \notin gone
        /\ t \in copied \cup gone => /\ ~\E u \in Users : t \in Elems(mailbox[u])
                                     /\ ~\E h \in Handlers : t \in Elems(batch[h])
        /\ (\E u \in Users : t \in Elems(mailbox[u])) => ~\E h \in Handlers : t \in Elems(batch[h])
        /\ t \notin Ids => /\ t \notin copied /\ t \notin gone
                           /\ ~\E u \in Users : t \in Elems(mailbox[u])
                           /\ ~\E h \in Handlers : t \in Elems(batch[h])
    BY <1>1 DEF Distinct, Settled
  <2> DEFINE m == \E u \in Users : t \in Elems(mailbox[u])
             b == \E h \in Handlers : t \in Elems(batch[h])
  <2>2. Status(t) = CASE t \in copied -> "copied" [] t \in gone -> "dropped"
                      [] m -> "queued" [] b -> "offered" [] OTHER -> "new"
    BY DEF Status
  <2>3. (\A u \in Users : t \in Elems(mailbox[u]) => m) /\ (\A h \in Handlers : t \in Elems(batch[h]) => b)
    OBVIOUS
  <2> HIDE DEF m, b
  <2>4. /\ t \in copied => t \notin gone /\ ~m /\ ~b
        /\ t \in gone => ~m /\ ~b
        /\ m => ~b
        /\ t \notin Ids => t \notin copied /\ t \notin gone /\ ~m /\ ~b
    BY <2>1 DEF m, b
  <2>5. QED BY <2>2, <2>3, <2>4
<1>2. ASSUME Distinct', NEW CONSTANT t
      PROVE  /\ t \in copied' => Status(t)' = "copied"
             /\ t \in gone' \ copied' => Status(t)' = "dropped"
             /\ \A u \in Users : t \in Elems(mailbox'[u]) => Status(t)' = "queued"
             /\ \A h \in Handlers : t \in Elems(batch'[h]) => Status(t)' = "offered"
             /\ t \notin Ids' => Status(t)' = "new"
  <2>1. /\ t \in copied' => t \notin gone'
        /\ t \in copied' \/ t \in gone' => /\ ~(\E u \in Users : t \in Elems(mailbox'[u]))
                                         /\ ~(\E h \in Handlers : t \in Elems(batch'[h]))
        /\ (\E u \in Users : t \in Elems(mailbox'[u])) => ~(\E h \in Handlers : t \in Elems(batch'[h]))
        /\ t \notin Ids' => /\ t \notin copied' /\ t \notin gone'
                            /\ ~(\E u \in Users : t \in Elems(mailbox'[u]))
                            /\ ~(\E h \in Handlers : t \in Elems(batch'[h]))
    BY <1>2 DEF Distinct, Settled, Elems
  <2> DEFINE m == \E u \in Users : t \in Elems(mailbox'[u])
             b == \E h \in Handlers : t \in Elems(batch'[h])
  <2>2. Status(t)' = CASE t \in copied' -> "copied" [] t \in gone' -> "dropped"
                      [] m -> "queued" [] b -> "offered" [] OTHER -> "new"
    BY DEF Status
  <2>3. (\A u \in Users : t \in Elems(mailbox'[u]) => m) /\ (\A h \in Handlers : t \in Elems(batch'[h]) => b)
    OBVIOUS
  <2> HIDE DEF m, b
  <2>4. /\ t \in copied' => t \notin gone' /\ ~m /\ ~b
        /\ t \in gone' => ~m /\ ~b
        /\ m => ~b
        /\ t \notin Ids' => t \notin copied' /\ t \notin gone' /\ ~m /\ ~b
    BY <2>1 DEF m, b
  <2>5. QED BY <2>2, <2>3, <2>4
<1>3. QED BY <1>1, <1>2 DEF StatusTable, Elems

LEMMA StatusStep ==
    ASSUME TypeOK, IInv, TransferStep, Distinct, Distinct', NEW CONSTANT t
    PROVE  Status(t)' = Status(t) \/ <<Status(t), Status(t)'>> \in T!Moves
<1>1. /\ t \in copied => Status(t) = "copied"
      /\ t \in gone \ copied => Status(t) = "dropped"
      /\ \A u \in Users : t \in Elems(mailbox[u]) => Status(t) = "queued"
      /\ \A h \in Handlers : t \in Elems(batch[h]) => Status(t) = "offered"
      /\ t \notin Ids => Status(t) = "new"
  BY StatusIs DEF StatusTable
<1>2. /\ t \in copied' => Status(t)' = "copied"
      /\ t \in gone' \ copied' => Status(t)' = "dropped"
      /\ \A u \in Users : t \in Elems(mailbox'[u]) => Status(t)' = "queued"
      /\ \A h \in Handlers : t \in Elems(batch'[h]) => Status(t)' = "offered"
      /\ t \notin Ids' => Status(t)' = "new"
  BY StatusIs DEF StatusTable, Elems
<1>3. /\ <<"new", "queued">> \in T!Moves /\ <<"queued", "offered">> \in T!Moves
      /\ <<"queued", "dropped">> \in T!Moves /\ <<"offered", "copied">> \in T!Moves
      /\ <<"offered", "dropped">> \in T!Moves
  BY DEF T!Moves
<1>4. \/ t \in copied \/ t \in gone \ copied \/ t \notin Ids
      \/ \E u \in Users : t \in Elems(mailbox[u])
      \/ \E h \in Handlers : t \in Elems(batch[h])
  BY DEF IInv, IHeld, Settled
<1>5. /\ copied \subseteq Ids /\ gone \subseteq Ids
      /\ \A u \in Users : t \in Elems(mailbox[u]) =>
           t \in Ids /\ t \notin copied \cup gone /\ \A h \in Handlers : t \notin Elems(batch[h])
      /\ \A h \in Handlers : t \in Elems(batch[h]) => t \in Ids /\ t \notin copied \cup gone
  BY DEF Distinct, Settled
<1>6. mailbox \in [Users -> Offers] /\ batch \in [Handlers -> Offers] BY DEF TypeOK
<1>7. CASE Stays BY <1>7 DEF Stays, Status, Elems
<1>8. CASE Loses
  <2>1. Ids' = Ids /\ copied' = copied /\ \A x \in gone : x \in gone' BY <1>8, SameIds DEF Loses
  <2>2. \A u \in Users : t \in Elems(mailbox[u]) => t \in gone' BY <1>8 DEF Loses
  <2>3. \A h \in Handlers : t \in Elems(batch[h]) => t \in gone' BY <1>8 DEF Loses
  <2>4. QED BY <1>1, <1>2, <1>3, <1>4, <1>5, <2>1, <2>2, <2>3
<1>9. ASSUME NEW u \in Users, Sends(u)
      PROVE  Status(t)' = Status(t) \/ <<Status(t), Status(t)'>> \in T!Moves
  <2> DEFINE n == Len(sent) + 1
  <2>1. sent \in Seq(Users) BY TypeParts
  <2>2. Len(sent') = n /\ Len(sent) \in Nat BY <1>9, <2>1, AppendIs, SeqIs DEF Sends
  <2>3. Ids' = Ids \cup {n} BY <2>2 DEF Ids
  <2>4. mailbox[u] \in Seq(Ids \cup {n}) BY <1>6, SeqLarger DEF Offers
  <2> HIDE DEF n
  <2>5. Elems(Append(mailbox[u], n)) = Elems(mailbox[u]) \cup {n} BY <2>4, AppendIs
  <2>6. \A v \in Users : mailbox'[v] = IF v = u THEN Append(mailbox[u], n) ELSE mailbox[v]
    BY <1>6, <1>9 DEF Sends, n
  <2>7. \A v \in Users : t \in Elems(mailbox[v]) => t \in Elems(mailbox'[v]) BY <2>5, <2>6
  <2>8. n \in Elems(mailbox'[u]) BY <2>5, <2>6
  <2>9. copied' = copied /\ gone' = gone /\ batch' = batch BY <1>9 DEF Sends
  <2>10. CASE t \in Ids \/ t # n BY <1>1, <1>2, <1>4, <1>5, <2>3, <2>7, <2>9, <2>10
  <2>11. CASE t \notin Ids /\ t = n BY <1>1, <1>2, <1>3, <2>8, <2>11
  <2>12. QED BY <2>10, <2>11
<1>10. ASSUME NEW u \in Users, Drops(u)
       PROVE  Status(t)' = Status(t) \/ <<Status(t), Status(t)'>> \in T!Moves
  <2>1. Ids' = Ids /\ copied' = copied /\ gone' = gone \cup Elems(mailbox[u]) /\ batch' = batch
    BY <1>10, SameIds DEF Drops
  <2>2. \A v \in Users : v # u => mailbox'[v] = mailbox[v] BY <1>6, <1>10 DEF Drops
  <2>3. QED BY <1>1, <1>2, <1>3, <1>4, <1>5, <2>1, <2>2
<1>11. ASSUME NEW h \in Handlers, NEW u \in Users, Takes(h, u)
       PROVE  Status(t)' = Status(t) \/ <<Status(t), Status(t)'>> \in T!Moves
  <2>1. Ids' = Ids /\ copied' = copied /\ gone' = gone BY <1>11, SameIds DEF Takes
  <2>2. \A v \in Users : v # u => mailbox'[v] = mailbox[v] BY <1>6, <1>11 DEF Takes
  <2>3. \A g \in Handlers : batch'[g] = IF g = h THEN mailbox[u] ELSE batch[g] BY <1>6, <1>11 DEF Takes
  <2>4. t \notin Elems(batch[h]) BY <1>11, ElemsAre DEF Takes, IInv, IBatch
  <2>5. QED BY <1>1, <1>2, <1>3, <1>4, <1>5, <2>1, <2>2, <2>3, <2>4
<1>12. ASSUME NEW h \in Handlers, NEW now \in SUBSET Elems(batch[h]), Settles(h, now)
       PROVE  Status(t)' = Status(t) \/ <<Status(t), Status(t)'>> \in T!Moves
  <2>1. /\ Ids' = Ids /\ mailbox' = mailbox /\ copied' = copied \cup now
        /\ gone' = gone \cup (Elems(batch[h]) \ now)
    BY <1>12, SameIds DEF Settles
  <2>2. \A g \in Handlers : g # h => batch'[g] = batch[g] BY <1>6, <1>12 DEF Settles
  <2>3. QED BY <1>1, <1>2, <1>3, <1>4, <1>5, <2>1, <2>2
<1>13. QED BY <1>7, <1>8, <1>9, <1>10, <1>11, <1>12 DEF TransferStep

\* However sockets of a user compete and fail, a transfer is queued, offered and
\* settled once: OConnect implements Transfer.
THEOREM LifecycleHolds == Spec => Lifecycle
<1> DEFINE status == [t \in 1..MaxTransfers |-> Status(t)]
<1>1. ASSUME Init PROVE T!Init
  <2>1. \A t : Status(t) = "new" BY <1>1, ElemsAre DEF Init, Status
  <2>2. QED BY <2>1 DEF T!Init
<1>2. ASSUME TypeOK, IInv, IOnce, [Next]_vars, TypeOK', IInv', IOnce' PROVE [T!Next]_status
  <2>1. TransferStep /\ Distinct /\ Distinct' BY <1>2, NextIs, DistinctIs
  <2>2. \A t \in 1..MaxTransfers : Status(t)' = Status(t) \/ <<Status(t), Status(t)'>> \in T!Moves
    BY <1>2, <2>1, StatusStep
  <2>3. \A t \in 1..MaxTransfers : Status(t)' \in T!States BY DEF Status, T!States
  <2> DEFINE to == [t \in 1..MaxTransfers |-> Status(t)']
  <2>4. to \in [1..MaxTransfers -> T!States] BY <2>3
  <2>5. \A t \in 1..MaxTransfers : to[t] = status[t] \/ <<status[t], to[t]>> \in T!Moves BY <2>2
  <2>6. status' = to OBVIOUS
  <2>7. \E f \in [1..MaxTransfers -> T!States] :
          /\ \A t \in 1..MaxTransfers : f[t] = status[t] \/ <<status[t], f[t]>> \in T!Moves
          /\ status' = f
    BY <2>4, <2>5, <2>6
  <2>8. QED BY <2>7 DEF T!Next
<1>3. QED BY <1>1, <1>2, TypeCorrect, SpecIInv, PTL DEF Spec, Lifecycle, T!Spec

-----------------------------------------------------------------------------
(* Towards the end: what MailSettles rests on besides fairness *)

\* How far t is from being settled, for a handler h of its recipient: h has to come
\* back to polling, some handler has to offer t, and its offer has to end.
Left(t, h) ==
    CASE Status(t) \in {"copied", "dropped"} -> 0
      [] Status(t) = "offered" -> 1
      [] OTHER -> IF pc[h] = "idle" THEN 2 ELSE 3

\* While a handler of the recipient is there, no step takes a transfer further from
\* being settled; each step of the handler, as long as nobody offers the transfer,
\* and of the one that offers it brings it nearer.
MailNearsItsEnd ==
    [][\A t \in Ids : \A h \in Handlers :
         pc[h] # "free" /\ pc'[h] # "free" /\ Owner(h) = sent[t] =>
           /\ Left(t, h)' <= Left(t, h)
           /\ HandlerStep(h) /\ Status(t) = "queued" => Left(t, h)' < Left(t, h)
           /\ \A g \in Handlers : HandlerStep(g) /\ t \in Elems(batch[g]) => Left(t, h)' = 0]_vars

\* A step of a polling handler empties the mailbox, one of a waiting handler ends
\* its wait and settles what it offered.
LEMMA HandlerDoes ==
    ASSUME TypeOK, IInv, NEW h \in Handlers, HandlerStep(h)
    PROVE  /\ sent' = sent /\ \A g \in Handlers \ {h} : pc'[g] = pc[g]
           /\ \/ pc[h] = "idle" /\ Owner(h) \in Users /\ mailbox'[Owner(h)] = <<>>
              \/ pc[h] = "waiting" /\ pc'[h] # "waiting" /\ Elems(batch[h]) \subseteq copied' \cup gone'
<1>1. HandlerType /\ MailType BY TypeParts
<1> USE DEF HandlerType, MailType
<1>2. CASE TakeBatch(h) BY <1>1, <1>2, OffersAre DEF TakeBatch, Emptied
<1>3. CASE GhostTakesBatch(h) BY <1>1, <1>3, OffersAre DEF GhostTakesBatch, Emptied, Ends
<1>4. CASE OfferTimesOut(h) BY <1>1, <1>4 DEF OfferTimesOut
<1>5. CASE SeesDisconnect(h) BY <1>1, <1>5 DEF SeesDisconnect, Ends
<1>6. CASE Decide(h) BY <1>1, <1>6 DEF Decide, Ends
<1>7. CASE Malformed(h) BY <1>1, <1>7 DEF Malformed, Ends
<1>8. QED BY <1>2, <1>3, <1>4, <1>5, <1>6, <1>7 DEF HandlerStep

\* Nothing but its own steps and a restart ends the polling of a handler.
LEMMA HandlersGoOn ==
    ASSUME TypeOK, [Next]_vars, ~(\E g \in Handlers : HandlerStep(g)), NEW h \in Handlers, pc[h] # "free"
    PROVE  pc'[h] \in {pc[h], "free"}
<1>1. HandlerType BY TypeParts
<1>2. ASSUME NEW p \in Pages, PageStep(p) PROVE pc'[h] = pc[h]
  <2>1. ASSUME NEW g \in Handlers, OpenSocket(p, g) PROVE pc'[h] = pc[h]
    BY <1>1, <2>1 DEF OpenSocket, HandlerType
  <2>2. CASE Reload(p) \/ ReadOffer(p) \/ RenderCards(p)
    BY <2>2 DEF Reload, ReadOffer, RenderCards, handlerVars
  <2>3. ASSUME NEW wanted \in SUBSET Ids, Respond(p, wanted) PROVE pc' = pc
    BY <2>3 DEF Respond, handlerVars
  <2>4. ASSUME NEW kind \in {"bad", "broken"}, SendMalformed(p, kind) PROVE pc' = pc
    BY <2>4 DEF SendMalformed, handlerVars
  <2>5. QED BY <1>2, <2>1, <2>2, <2>3, <2>4 DEF PageStep
<1>3. ASSUME NEW u \in Users, NetworkConnect(u) \/ NetworkDisconnect(u) \/ SendFile(u) PROVE pc' = pc
  BY <1>3 DEF NetworkConnect, NetworkDisconnect, SendFile, handlerVars
<1>4. ASSUME NEW g \in Handlers, SocketCloses(g) PROVE pc' = pc BY <1>4 DEF SocketCloses, handlerVars
<1>5. CASE Restart BY <1>5 DEF Restart
<1>6. CASE UNCHANGED vars BY <1>6 DEF vars, handlerVars
<1>7. QED BY <1>2, <1>3, <1>4, <1>5, <1>6 DEF Next

LEMMA MailNears ==
    ASSUME TypeOK, IInv, IOnce, [Next]_vars, TypeOK', IInv', IOnce',
           NEW CONSTANT t, t \in Ids, NEW CONSTANT h \in Handlers,
           pc[h] # "free", pc'[h] # "free", Owner(h) = sent[t]
    PROVE  /\ Left(t, h)' <= Left(t, h)
           /\ HandlerStep(h) /\ Status(t) = "queued" => Left(t, h)' < Left(t, h)
           /\ \A g \in Handlers : HandlerStep(g) /\ t \in Elems(batch[g]) => Left(t, h)' = 0
<1>1. TransferStep /\ Distinct /\ Distinct' BY NextIs, DistinctIs
<1>2. Status(t)' = Status(t) \/ <<Status(t), Status(t)'>> \in T!Moves BY <1>1, StatusStep
<1>3. /\ \A u \in Users : t \in Elems(mailbox[u]) => Status(t) = "queued"
      /\ \A g \in Handlers : t \in Elems(batch[g]) => Status(t) = "offered"
  BY <1>1, StatusIs DEF StatusTable
<1>4. /\ t \in copied' => Status(t)' = "copied"
      /\ t \in gone' \ copied' => Status(t)' = "dropped"
  BY <1>1, StatusIs DEF StatusTable
<1>5. Status(t) \in {"queued", "offered", "copied", "dropped"}
  <2>1. /\ t \in copied => Status(t) = "copied"
        /\ t \in gone \ copied => Status(t) = "dropped"
    BY <1>1, StatusIs DEF StatusTable
  <2>2. QED BY <1>3, <2>1 DEF IInv, IHeld, Settled
<1>6. \/ Status(t)' = Status(t)
      \/ Status(t) = "queued" /\ Status(t)' \in {"offered", "dropped"}
      \/ Status(t) = "offered" /\ Status(t)' \in {"copied", "dropped"}
  BY <1>2, <1>5 DEF T!Moves
<1>7. /\ Left(t, h) = CASE Status(t) \in {"copied", "dropped"} -> 0
                        [] Status(t) = "offered" -> 1
                        [] OTHER -> IF pc[h] = "idle" THEN 2 ELSE 3
      /\ Left(t, h)' = CASE Status(t)' \in {"copied", "dropped"} -> 0
                         [] Status(t)' = "offered" -> 1
                         [] OTHER -> IF pc'[h] = "idle" THEN 2 ELSE 3
  BY DEF Left
<1>8. pc[h] \in {"idle", "waiting"} /\ pc'[h] \in {"idle", "waiting"} BY DEF TypeOK
<1>9. ASSUME HandlerStep(h), Status(t) = "queued" PROVE (pc'[h] = "idle" /\ pc[h] = "waiting") \/ Status(t)' # "queued"
  <2>1. CASE pc[h] = "waiting" BY <1>8, <1>9, <2>1, HandlerDoes
  <2>2. CASE pc[h] = "idle"
    <3>1. sent' = sent /\ mailbox'[Owner(h)] = <<>> BY <1>9, <2>2, HandlerDoes
    <3>2. Status(t)' = "queued" => \E u \in Users : t \in Elems(mailbox'[u]) BY DEF Status, Elems
    <3>3. \A u \in Users : t \in Elems(mailbox'[u]) => sent'[t] = u BY DEF IInv, IMail, Elems
    <3>4. \A u \in Users : t \in Elems(mailbox'[u]) => FALSE BY <3>1, <3>3 DEF Elems
    <3>5. QED BY <3>2, <3>4
  <2>3. QED BY <1>8, <2>1, <2>2
<1>10. ASSUME NEW g \in Handlers, HandlerStep(g), t \in Elems(batch[g]) PROVE Status(t)' \in {"copied", "dropped"}
  <2>1. pc[g] = "waiting" BY <1>10 DEF IInv, IBatch, Elems
  <2>2. t \in copied' \cup gone' BY <1>10, <2>1, HandlerDoes
  <2>3. QED BY <1>4, <2>2
<1>11. ASSUME Status(t)' = "queued", pc[h] = "idle" PROVE pc'[h] = "idle"
  <2>1. CASE HandlerStep(h) BY <1>6, <1>9, <1>11, <2>1
  <2>2. ASSUME NEW g \in Handlers \ {h}, HandlerStep(g) PROVE pc'[h] = pc[h] BY <2>2, HandlerDoes
  <2>3. CASE ~(\E g \in Handlers : HandlerStep(g))
    <3>1. pc'[h] \in {pc[h], "free"} BY <2>3, HandlersGoOn
    <3>2. QED BY <1>11, <3>1
  <2>4. QED BY <1>11, <2>1, <2>2, <2>3
<1>12. Left(t, h)' <= Left(t, h) BY <1>5, <1>6, <1>7, <1>11
<1>13. HandlerStep(h) /\ Status(t) = "queued" => Left(t, h)' < Left(t, h)
  BY <1>6, <1>7, <1>9
<1>14. QED BY <1>7, <1>10, <1>12, <1>13

\* While a receiver socket of the recipient is served, a transfer never gets
\* further from being settled, whatever the other sockets, pages and faults do,
\* and the steps that MailSettles is fair to bring it nearer.
THEOREM MailNearsItsEndHolds == Spec => MailNearsItsEnd
<1>1. TypeOK /\ IInv /\ IOnce /\ [Next]_vars /\ (TypeOK /\ IInv /\ IOnce)' =>
        [\A t \in Ids : \A h \in Handlers :
           pc[h] # "free" /\ pc'[h] # "free" /\ Owner(h) = sent[t] =>
             /\ Left(t, h)' <= Left(t, h)
             /\ HandlerStep(h) /\ Status(t) = "queued" => Left(t, h)' < Left(t, h)
             /\ \A g \in Handlers : HandlerStep(g) /\ t \in Elems(batch[g]) => Left(t, h)' = 0]_vars
  BY MailNears
<1>2. QED BY <1>1, TypeCorrect, SpecIInv, PTL DEF Spec, MailNearsItsEnd

-----------------------------------------------------------------------------
(* Consent *)

\* Every key an answer accepts was ticked on its card.
ISeen ==
    \A h \in Handlers : \A i \in DOMAIN inbox[h] : \A k \in inbox[h][i].ok :
      inbox[h][i].card[k] \in consented

LEMMA InboxSeen ==
    ASSUME TypeOK, ISeen, consented \subseteq consented',
           \A h \in Handlers :
             \/ inbox'[h] \in {<<>>, inbox[h]}
             \/ inbox[h] # <<>> /\ inbox'[h] = Tail(inbox[h])
             \/ \E e \in Answers : /\ inbox'[h] = Append(inbox[h], e)
                                   /\ \A k \in e.ok : e.card[k] \in consented'
    PROVE  ISeen'
<1> SUFFICES ASSUME NEW h \in Handlers, NEW i \in DOMAIN inbox'[h], NEW k \in inbox'[h][i].ok
             PROVE  inbox'[h][i].card[k] \in consented'
  BY DEF ISeen
<1>1. inbox[h] \in Seq(Answers) BY DEF TypeOK
<1>2. \A j \in DOMAIN inbox[h] : \A l \in inbox[h][j].ok : inbox[h][j].card[l] \in consented' BY DEF ISeen
<1>3. CASE inbox'[h] \in {<<>>, inbox[h]} BY <1>2, <1>3, ElemsAre
<1>4. CASE inbox[h] # <<>> /\ inbox'[h] = Tail(inbox[h]) BY <1>1, <1>2, <1>4, TailIs
<1>5. ASSUME NEW e \in Answers, inbox'[h] = Append(inbox[h], e), \A l \in e.ok : e.card[l] \in consented'
      PROVE  inbox'[h][i].card[k] \in consented'
  <2> DEFINE q == Append(inbox[h], e)
  <2>1. /\ DOMAIN q = 1..(Len(inbox[h]) + 1) /\ q[Len(inbox[h]) + 1] = e
        /\ \A j \in 1..Len(inbox[h]) : q[j] = inbox[h][j]
    BY <1>1, AppendIs
  <2> HIDE DEF q
  <2>2. q = inbox'[h] BY <1>5 DEF q
  <2>3. DOMAIN inbox[h] = 1..Len(inbox[h]) /\ Len(inbox[h]) \in Nat BY <1>1, SeqIs
  <2>4. i = Len(inbox[h]) + 1 \/ i \in 1..Len(inbox[h]) BY <2>1, <2>2, <2>3
  <2>5. QED BY <1>2, <1>5, <2>1, <2>2, <2>3, <2>4
<1>6. QED BY <1>3, <1>4, <1>5

LEMMA NextConsent ==
    ASSUME TypeOK, ISeen, CopyNeedsTickedCard, [Next]_vars
    PROVE  ISeen' /\ CopyNeedsTickedCard'
<1>1. inbox \in [Handlers -> Seq(Answers)] BY DEF TypeOK
<1>2. ASSUME inbox' = inbox, UNCHANGED <<consented, copied, misread>>
      PROVE  ISeen' /\ CopyNeedsTickedCard'
  BY <1>2 DEF ISeen, CopyNeedsTickedCard
<1>3. ASSUME NEW h \in Handlers, Ends(h), UNCHANGED consented PROVE ISeen'
  BY <1>1, <1>3, InboxSeen DEF Ends
<1>4. ASSUME NEW h \in Handlers, inbox[h] # <<>>, inbox' = [inbox EXCEPT ![h] = Tail(@)], UNCHANGED consented
      PROVE  ISeen'
  BY <1>1, <1>4, InboxSeen
<1>5. ASSUME NEW h \in Handlers, HandlerStep(h) PROVE ISeen' /\ CopyNeedsTickedCard'
  <2>1. CASE TakeBatch(h) BY <1>2, <2>1 DEF TakeBatch, fateVars
  <2>2. CASE GhostTakesBatch(h) BY <1>3, <2>2 DEF GhostTakesBatch, CopyNeedsTickedCard
  <2>3. CASE OfferTimesOut(h) BY <1>2, <2>3 DEF OfferTimesOut, netVars
  <2>4. CASE SeesDisconnect(h) BY <1>3, <2>4 DEF SeesDisconnect, CopyNeedsTickedCard
  <2>5. CASE Malformed(h) BY <1>3, <1>4, <2>5 DEF Malformed, CopyNeedsTickedCard
  <2>6. CASE Decide(h)
    <3>1. ISeen' BY <1>3, <1>4, <2>6 DEF Decide
    <3> DEFINE a == Head(inbox[h])
    <3>2. PICK done \in SUBSET Accepted(a, batch[h]) :
            /\ copied' = copied \cup {batch[h][k] : k \in done}
            /\ misread' = misread \cup
                 {<<batch[h][k], a.card[k]>> : k \in {j \in done \cap DOMAIN a.card : a.card[j] # batch[h][j]}}
      BY <2>6 DEF Decide
    <3>3. inbox[h] # <<>> /\ consented' = consented BY <2>6 DEF Decide
    <3>4. a = inbox[h][1] /\ 1 \in DOMAIN inbox[h] BY <1>1, <3>3, TailIs
    <3> HIDE DEF a
    <3>5. \A k \in done : k \in a.ok /\ k \in DOMAIN a.card /\ a.card[k] \in consented
      BY <3>2, <3>4 DEF Accepted, ISeen, TypeOK
    <3>6. ASSUME NEW k \in done
          PROVE  batch[h][k] \in consented' \/ \E c \in consented' : <<batch[h][k], c>> \in misread'
      <4>1. CASE a.card[k] = batch[h][k] BY <3>3, <3>5, <4>1
      <4>2. CASE a.card[k] # batch[h][k]
        <5>1. k \in {j \in done \cap DOMAIN a.card : a.card[j] # batch[h][j]} BY <3>5, <4>2
        <5>2. <<batch[h][k], a.card[k]>> \in misread' BY <3>2, <5>1
        <5>3. QED BY <3>3, <3>5, <5>2
      <4>3. QED BY <4>1, <4>2
    <3>7. misread \subseteq misread' BY <3>2
    <3>8. CopyNeedsTickedCard'
      <4> SUFFICES ASSUME NEW t \in copied'
                   PROVE  t \in consented' \/ \E c \in consented' : <<t, c>> \in misread'
        BY DEF CopyNeedsTickedCard
      <4>1. CASE t \in copied BY <3>3, <3>7, <4>1 DEF CopyNeedsTickedCard
      <4>2. CASE t \in {batch[h][k] : k \in done} BY <3>6, <4>2
      <4>3. QED BY <3>2, <4>1, <4>2
    <3>9. QED BY <3>1, <3>8
  <2>7. QED BY <1>5, <2>1, <2>2, <2>3, <2>4, <2>5, <2>6 DEF HandlerStep
<1>6. ASSUME NEW p \in Pages, PageStep(p) PROVE ISeen' /\ CopyNeedsTickedCard'
  <2>1. ASSUME NEW h \in Handlers, OpenSocket(p, h) PROVE ISeen' /\ CopyNeedsTickedCard'
    BY <1>2, <2>1 DEF OpenSocket, fateVars
  <2>2. CASE Reload(p) BY <1>2, <2>2 DEF Reload, fateVars
  <2>3. CASE ReadOffer(p) BY <1>2, <2>3 DEF ReadOffer, fateVars
  <2>4. CASE RenderCards(p) BY <1>2, <2>4 DEF RenderCards, fateVars, netVars
  <2>5. ASSUME NEW wanted \in SUBSET Ids, Respond(p, wanted) PROVE ISeen' /\ CopyNeedsTickedCard'
    <3>1. consented' = consented \cup wanted /\ UNCHANGED <<copied, misread>> BY <2>5 DEF Respond
    <3>2. PICK e \in Answers :
            /\ inbox' = [inbox EXCEPT ![socket[p]] = Append(inbox[socket[p]], e)]
            /\ \A k \in e.ok : e.card[k] \in wanted
      BY <2>5, RespondIs
    <3>3. ISeen' BY <1>1, <3>1, <3>2, InboxSeen
    <3>4. QED BY <3>1, <3>3 DEF CopyNeedsTickedCard
  <2>6. ASSUME NEW kind \in {"bad", "broken"}, SendMalformed(p, kind) PROVE ISeen' /\ CopyNeedsTickedCard'
    <3> DEFINE e == [kind |-> kind, ok |-> {}, card |-> <<>>]
    <3>1. e \in Answers /\ e.ok = {} BY OffersAre DEF Answers
    <3>2. inbox' = [inbox EXCEPT ![socket[p]] = Append(inbox[socket[p]], e)] /\ UNCHANGED fateVars
      BY <2>6 DEF SendMalformed
    <3> HIDE DEF e
    <3>3. ISeen' BY <1>1, <3>1, <3>2, InboxSeen DEF fateVars
    <3>4. QED BY <3>2, <3>3 DEF fateVars, CopyNeedsTickedCard
  <2>7. QED BY <1>6, <2>1, <2>2, <2>3, <2>4, <2>5, <2>6 DEF PageStep
<1>7. ASSUME NEW u \in Users, NetworkConnect(u) \/ NetworkDisconnect(u) \/ SendFile(u)
      PROVE  ISeen' /\ CopyNeedsTickedCard'
  BY <1>2, <1>7 DEF NetworkConnect, NetworkDisconnect, SendFile, fateVars, netVars
<1>8. ASSUME NEW h \in Handlers, SocketCloses(h) PROVE ISeen' /\ CopyNeedsTickedCard'
  BY <1>2, <1>8 DEF SocketCloses, fateVars
<1>9. CASE Restart
  <2>1. ISeen' BY <1>9, InboxSeen DEF Restart
  <2>2. QED BY <1>9, <2>1 DEF Restart, CopyNeedsTickedCard
<1>10. CASE UNCHANGED vars BY <1>2, <1>10 DEF vars, netVars, fateVars
<1>11. QED BY <1>5, <1>6, <1>7, <1>8, <1>9, <1>10 DEF Next

\* What is copied was ticked, or answered by the ticked card of the transfer it
\* was mistaken for: a misread answer too is somebody's tick.
THEOREM CopyNeedsTickedCardHolds == Spec => []CopyNeedsTickedCard
<1>1. Init => ISeen /\ CopyNeedsTickedCard BY ElemsAre DEF Init, ISeen, CopyNeedsTickedCard
<1>2. TypeOK /\ ISeen /\ CopyNeedsTickedCard /\ [Next]_vars => ISeen' /\ CopyNeedsTickedCard'
  BY NextConsent
<1>3. QED BY <1>1, <1>2, TypeCorrect, PTL DEF Spec

=============================================================================
