--------------------------- MODULE TerminalsProofs --------------------------
(***************************************************************************)
(* Proofs about Terminals, for any sizes of queues and terminals and any   *)
(* number of chunks and messages: types, that output and input keep their  *)
(* order, and that a client is sent all that was read before its end.      *)
(***************************************************************************)
EXTENDS Terminals, SequenceTheorems, TLAPS

Inj(q) == \A i, j \in DOMAIN q : q[i] = q[j] => i = j

-----------------------------------------------------------------------------
(* Sequences *)

LEMMA SeqIs ==
    ASSUME NEW S, NEW q \in Seq(S)
    PROVE  /\ Len(q) \in Nat /\ DOMAIN q = 1..Len(q) /\ \A i \in 1..Len(q) : q[i] \in S
           /\ Elems(q) \subseteq S /\ (q # <<>> <=> Len(q) # 0)
<1>1. Len(q) \in Nat /\ DOMAIN q = 1..Len(q) /\ \A i \in 1..Len(q) : q[i] \in S
  BY LenProperties, ElementOfSeq
<1>2. q # <<>> <=> Len(q) # 0 BY <1>1, EmptySeq
<1>3. QED BY <1>1, <1>2 DEF Elems

LEMMA EmptyIs == /\ Elems(<<>>) = {} /\ Len(<<>>) = 0 /\ DOMAIN <<>> = {} /\ \A S : <<>> \in Seq(S)
BY EmptySeq DEF Elems

LEMMA TailIs ==
    ASSUME NEW S, NEW q \in Seq(S), q # <<>>
    PROVE  /\ Head(q) \in S /\ Head(q) = q[1] /\ 1 \in DOMAIN q
           /\ Tail(q) \in Seq(S) /\ Len(Tail(q)) = Len(q) - 1
           /\ \A i \in 1..Len(Tail(q)) : i + 1 \in DOMAIN q /\ Tail(q)[i] = q[i + 1]
           /\ Elems(q) = {Head(q)} \cup Elems(Tail(q))
           /\ Inj(q) => Inj(Tail(q)) /\ Head(q) \notin Elems(Tail(q))
<1> DEFINE t == Tail(q)
<1>1. Head(q) \in S /\ t \in Seq(S) /\ Len(t) = Len(q) - 1 /\ \A i \in 1..Len(t) : t[i] = q[i + 1]
  BY HeadTailProperties
<1>2. Len(q) \in Nat \ {0} /\ DOMAIN q = 1..Len(q) BY SeqIs
<1>3. Head(q) = q[1] OBVIOUS
<1>4. DOMAIN t = 1..Len(t) /\ Len(t) \in Nat BY <1>1, SeqIs
<1> HIDE DEF t
<1>5. \A i \in 1..Len(t) : i + 1 \in 1..Len(q) /\ i + 1 # 1 BY <1>1, <1>2, <1>4
<1>6. \A i \in 1..Len(q) : i = 1 \/ (i - 1 \in 1..Len(t) /\ t[i - 1] = q[i]) BY <1>1, <1>2, <1>4
<1>7. Elems(q) = {q[1]} \cup Elems(t)
  <2>1. ASSUME NEW e \in Elems(q) PROVE e \in {q[1]} \cup Elems(t)
    <3>1. PICK i \in 1..Len(q) : q[i] = e BY <1>2, <2>1 DEF Elems
    <3>2. QED BY <1>4, <1>6, <3>1 DEF Elems
  <2>2. ASSUME NEW e \in Elems(t) PROVE e \in Elems(q)
    <3>1. PICK i \in 1..Len(t) : t[i] = e BY <1>4, <2>2 DEF Elems
    <3>2. QED BY <1>1, <1>2, <1>5, <3>1 DEF Elems
  <2>3. q[1] \in Elems(q) BY <1>2 DEF Elems
  <2>4. QED BY <2>1, <2>2, <2>3
<1>8. ASSUME Inj(q) PROVE Inj(t) /\ q[1] \notin Elems(t)
  <2>1. \A i \in 1..Len(t) : t[i] # q[1] BY <1>1, <1>2, <1>5, <1>8 DEF Inj
  <2>2. ASSUME NEW i \in 1..Len(t), NEW j \in 1..Len(t), t[i] = t[j] PROVE i = j
    BY <1>1, <1>2, <1>4, <1>5, <1>8, <2>2 DEF Inj
  <2>3. QED BY <1>4, <2>1, <2>2 DEF Inj, Elems
<1>9. QED BY <1>1, <1>2, <1>3, <1>5, <1>7, <1>8 DEF t

LEMMA AppendIs ==
    ASSUME NEW S, NEW q \in Seq(S), NEW e \in S
    PROVE  /\ Append(q, e) \in Seq(S) /\ Len(Append(q, e)) = Len(q) + 1
           /\ Append(q, e)[Len(q) + 1] = e
           /\ \A i \in 1..Len(q) : Append(q, e)[i] = q[i]
           /\ Elems(Append(q, e)) = Elems(q) \cup {e}
           /\ Inj(q) /\ e \notin Elems(q) => Inj(Append(q, e))
<1> DEFINE a == Append(q, e)
<1>1. /\ a \in Seq(S) /\ Len(a) = Len(q) + 1 /\ a[Len(q) + 1] = e /\ \A i \in 1..Len(q) : a[i] = q[i]
  BY AppendProperties
<1>2. Len(q) \in Nat /\ DOMAIN q = 1..Len(q) /\ DOMAIN a = 1..(Len(q) + 1) BY <1>1, SeqIs
<1> HIDE DEF a
<1>3. Elems(a) = Elems(q) \cup {e} BY <1>1, <1>2 DEF Elems
<1>4. ASSUME Inj(q), e \notin Elems(q) PROVE Inj(a)
  <2>1. \A i \in 1..Len(q) : q[i] # e BY <1>2, <1>4 DEF Elems
  <2>2. ASSUME NEW i \in 1..(Len(q) + 1), NEW j \in 1..(Len(q) + 1), a[i] = a[j] PROVE i = j
    <3>1. CASE i \in 1..Len(q) /\ j \in 1..Len(q) BY <1>1, <1>2, <1>4, <2>2, <3>1 DEF Inj
    <3>2. CASE i = Len(q) + 1 \/ j = Len(q) + 1 BY <1>1, <1>2, <2>1, <2>2, <3>2
    <3>3. QED BY <1>2, <3>1, <3>2
  <2>3. QED BY <1>2, <2>2 DEF Inj
<1>5. QED BY <1>1, <1>3, <1>4 DEF a

LEMMA ConcatIs ==
    ASSUME NEW S, NEW p \in Seq(S), NEW q \in Seq(S)
    PROVE  /\ p \o q \in Seq(S) /\ Len(p \o q) = Len(p) + Len(q)
           /\ \A i \in 1..Len(p) : (p \o q)[i] = p[i]
           /\ \A i \in 1..Len(q) : (p \o q)[Len(p) + i] = q[i]
           /\ Elems(p \o q) = Elems(p) \cup Elems(q)
<1> DEFINE c == p \o q
<1>1. /\ c \in Seq(S) /\ Len(c) = Len(p) + Len(q)
      /\ \A i \in 1..(Len(p) + Len(q)) : c[i] = IF i <= Len(p) THEN p[i] ELSE q[i - Len(p)]
  BY ConcatProperties
<1>2. /\ Len(p) \in Nat /\ DOMAIN p = 1..Len(p) /\ Len(q) \in Nat /\ DOMAIN q = 1..Len(q)
      /\ DOMAIN c = 1..(Len(p) + Len(q))
  BY <1>1, SeqIs
<1> HIDE DEF c
<1>3. \A i \in 1..Len(p) : i \in DOMAIN c /\ c[i] = p[i] BY <1>1, <1>2
<1>4. \A i \in 1..Len(q) : Len(p) + i \in DOMAIN c /\ c[Len(p) + i] = q[i]
  <2> SUFFICES ASSUME NEW i \in 1..Len(q) PROVE Len(p) + i \in DOMAIN c /\ c[Len(p) + i] = q[i]
    OBVIOUS
  <2>1. Len(p) + i \in 1..(Len(p) + Len(q)) /\ ~(Len(p) + i <= Len(p)) /\ (Len(p) + i) - Len(p) = i
    BY <1>2
  <2>2. QED BY <1>1, <1>2, <2>1
<1>5. \A i \in DOMAIN c : c[i] \in Elems(p) \cup Elems(q)
  <2> SUFFICES ASSUME NEW i \in DOMAIN c PROVE c[i] \in Elems(p) \cup Elems(q)
    OBVIOUS
  <2>1. CASE i <= Len(p) BY <1>1, <1>2, <2>1 DEF Elems
  <2>2. CASE ~(i <= Len(p))
    <3>1. i - Len(p) \in 1..Len(q) BY <1>2, <2>2
    <3>2. QED BY <1>1, <1>2, <2>2, <3>1 DEF Elems
  <2>3. QED BY <2>1, <2>2
<1>6. Elems(c) = Elems(p) \cup Elems(q)
  <2>1. Elems(c) \subseteq Elems(p) \cup Elems(q) BY <1>5 DEF Elems
  <2>2. Elems(p) \subseteq Elems(c) BY <1>2, <1>3 DEF Elems
  <2>3. ASSUME NEW e \in Elems(q) PROVE e \in Elems(c)
    <3>1. PICK i \in 1..Len(q) : q[i] = e BY <1>2, <2>3 DEF Elems
    <3>2. QED BY <1>4, <3>1 DEF Elems
  <2>4. QED BY <2>1, <2>2, <2>3
<1>7. QED BY <1>1, <1>3, <1>4, <1>6 DEF c

-----------------------------------------------------------------------------
(* The shell of a lambda *)

\* Puts that have not reached the queue; chunks the client or the pump has.
Flying == Elems(sh.sched) \cup Elems(sh.waiting)
Ahead == Len(sh.sent) + Len(Held)

\* What the reader has handed over and the loop has not queued yet: at most a
\* chunk whose hand-off it waits for or gave up, and an Eof that ends its work.
IReader ==
    /\ sh.reader # "done" => Eof \notin Flying \cup Elems(sh.outq)
    /\ sh.reader = "recv" => Flying = {}
    /\ sh.reader = "handoff" => sh.read # 0
    /\ Flying \subseteq {sh.read, Eof}
    /\ Inj(sh.sched) /\ Inj(sh.waiting) /\ Elems(sh.sched) \cap Elems(sh.waiting) = {}

\* A chunk that was read and is not ahead of the queue is in it, in order, or
\* is the one that flies.
ILine ==
    /\ \A i \in DOMAIN sh.sent : sh.sent[i] = i
    /\ sh.pump = "send" => sh.item = Len(sh.sent) + 1
    /\ sh.pump # "done" =>
         /\ Rising(sh.outq)
         /\ \A c \in Elems(sh.outq) : c # Eof => Ahead < c /\ c <= sh.read
         /\ Ahead <= sh.read
         /\ sh.read # 0 /\ sh.read \in Flying => Ahead # sh.read /\ sh.read \notin Elems(sh.outq)
         /\ \A c \in (Ahead + 1)..sh.read : c \in Elems(sh.outq) \cup Flying

\* A reader that did not give up, and whose reads did not fail, ended with the
\* shell's output; in any case its Eof is behind all it read.
IEnd ==
    /\ sh.main = "closed" => ~sh.conn
    /\ sh.reader = "done" /\ ~sh.gaveUp /\ ~sh.broke => sh.exited /\ sh.read = sh.avail
    /\ sh.reader = "done" /\ sh.pump # "done" /\ ~sh.gaveUp =>
         /\ Flying \subseteq {Eof}
         /\ Flying # {} => Eof \notin Elems(sh.outq)
         /\ \A i \in DOMAIN sh.outq : sh.outq[i] = Eof => i = Len(sh.outq)
    /\ sh.pump = "done" /\ sh.conn => sh.reader = "done"
    /\ AllBeforeEof

ShellInv == IReader /\ ILine /\ IEnd

LEMMA ShellIs ==
    ASSUME ShellTypeOK
    PROVE  /\ sh.avail \in 0..MaxChunks /\ sh.read \in 0..MaxChunks /\ sh.read <= sh.avail /\ MaxChunks \in Nat
           /\ sh.exited \in BOOLEAN /\ sh.conn \in BOOLEAN /\ sh.gaveUp \in BOOLEAN /\ sh.broke \in BOOLEAN
           /\ sh.reader \in {"recv", "handoff", "done"} /\ sh.pump \in {"get", "send", "done"}
           /\ sh.main \in {"recv", "input", "closed"} /\ sh.item \in Items
           /\ sh.sched \in Seq(Items) /\ sh.outq \in Seq(Items) /\ sh.waiting \in Seq(Items)
           /\ sh.sent \in Seq(Items)
           /\ Items \subseteq Nat /\ Eof \in Items /\ Eof = 0
BY ShellAssumption DEF ShellTypeOK, Items, Eof

\* In the reader's hands there is at most a chunk and Eof.
LEMMA FewFly ==
    ASSUME ShellTypeOK, IReader
    PROVE  /\ Len(sh.sched) + Len(sh.waiting) <= 2
           /\ sh.reader # "done" => Len(sh.sched) + Len(sh.waiting) <= 1
           /\ sh.reader = "recv" => sh.sched = <<>> /\ sh.waiting = <<>>
<1> DEFINE a == sh.sched
           b == sh.waiting
<1>1. /\ Len(a) \in Nat /\ DOMAIN a = 1..Len(a) /\ Len(b) \in Nat /\ DOMAIN b = 1..Len(b)
      /\ a # <<>> <=> Len(a) # 0
      /\ b # <<>> <=> Len(b) # 0
  BY ShellIs, SeqIs
<1>2. /\ \A i \in 1..Len(a) : a[i] \in {sh.read, Eof} /\ (sh.reader # "done" => a[i] # Eof)
      /\ \A i \in 1..Len(b) : b[i] \in {sh.read, Eof} /\ (sh.reader # "done" => b[i] # Eof)
  BY <1>1 DEF IReader, Flying, Elems
<1>3. \A i \in 1..Len(a), j \in 1..Len(b) : a[i] # b[j] BY <1>1 DEF IReader, Elems
<1>4. /\ \A i, j \in 1..Len(a) : a[i] = a[j] => i = j
      /\ \A i, j \in 1..Len(b) : b[i] = b[j] => i = j
  BY <1>1 DEF IReader, Inj
<1>5. ASSUME sh.reader = "recv" PROVE Len(a) = 0 /\ Len(b) = 0
  <2>1. Elems(a) = {} /\ Elems(b) = {} BY <1>5 DEF IReader, Flying
  <2>2. 1 \notin DOMAIN a /\ 1 \notin DOMAIN b BY <2>1 DEF Elems
  <2>3. QED BY <1>1, <2>2
<1> HIDE DEF a, b
<1>6. Len(a) + Len(b) <= 2
  <2>1. ~(Len(a) >= 3)
    <3> SUFFICES ASSUME Len(a) >= 3 PROVE FALSE
      OBVIOUS
    <3>1. 1 \in 1..Len(a) /\ 2 \in 1..Len(a) /\ 3 \in 1..Len(a) BY <1>1
    <3>2. QED BY <1>2, <1>4, <3>1
  <2>2. ~(Len(b) >= 3)
    <3> SUFFICES ASSUME Len(b) >= 3 PROVE FALSE
      OBVIOUS
    <3>1. 1 \in 1..Len(b) /\ 2 \in 1..Len(b) /\ 3 \in 1..Len(b) BY <1>1
    <3>2. QED BY <1>2, <1>4, <3>1
  <2>3. ~(Len(a) >= 2 /\ Len(b) >= 1)
    <3> SUFFICES ASSUME Len(a) >= 2, Len(b) >= 1 PROVE FALSE
      OBVIOUS
    <3>1. 1 \in 1..Len(a) /\ 2 \in 1..Len(a) /\ 1 \in 1..Len(b) BY <1>1
    <3>2. QED BY <1>2, <1>3, <1>4, <3>1
  <2>4. ~(Len(b) >= 2 /\ Len(a) >= 1)
    <3> SUFFICES ASSUME Len(b) >= 2, Len(a) >= 1 PROVE FALSE
      OBVIOUS
    <3>1. 1 \in 1..Len(b) /\ 2 \in 1..Len(b) /\ 1 \in 1..Len(a) BY <1>1
    <3>2. QED BY <1>2, <1>3, <1>4, <3>1
  <2>5. QED BY <1>1, <2>1, <2>2, <2>3, <2>4
<1>7. ASSUME sh.reader # "done" PROVE Len(a) + Len(b) <= 1
  <2>1. ~(Len(a) >= 2)
    <3> SUFFICES ASSUME Len(a) >= 2 PROVE FALSE
      OBVIOUS
    <3>1. 1 \in 1..Len(a) /\ 2 \in 1..Len(a) BY <1>1
    <3>2. QED BY <1>2, <1>4, <1>7, <3>1
  <2>2. ~(Len(b) >= 2)
    <3> SUFFICES ASSUME Len(b) >= 2 PROVE FALSE
      OBVIOUS
    <3>1. 1 \in 1..Len(b) /\ 2 \in 1..Len(b) BY <1>1
    <3>2. QED BY <1>2, <1>4, <1>7, <3>1
  <2>3. ~(Len(a) >= 1 /\ Len(b) >= 1)
    <3> SUFFICES ASSUME Len(a) >= 1, Len(b) >= 1 PROVE FALSE
      OBVIOUS
    <3>1. 1 \in 1..Len(a) /\ 1 \in 1..Len(b) BY <1>1
    <3>2. QED BY <1>2, <1>3, <1>7, <3>1
  <2>4. QED BY <1>1, <2>1, <2>2, <2>3
<1>8. QED BY <1>1, <1>5, <1>6, <1>7 DEF a, b

-----------------------------------------------------------------------------
(* What each step of it does *)

\* Nothing but these fields changes.
ReaderKept ==
    sh'.reader = sh.reader /\ sh'.read = sh.read /\ sh'.gaveUp = sh.gaveUp /\ sh'.broke = sh.broke
PumpKept == sh'.pump = sh.pump /\ sh'.item = sh.item /\ sh'.sent = sh.sent
QueueKept == sh'.sched = sh.sched /\ sh'.outq = sh.outq /\ sh'.waiting = sh.waiting
OthersKept == sh'.avail = sh.avail /\ sh'.exited = sh.exited /\ sh'.main = sh.main /\ sh'.conn = sh.conn

LEMMA ReaderRecvDoes ==
    ASSUME ShellTypeOK, IReader, ReaderRecv
    PROVE  /\ ShellTypeOK' /\ PumpKept /\ OthersKept
           /\ sh.reader = "recv" /\ sh'.reader = "handoff" /\ sh'.read = sh.read + 1
           /\ sh'.gaveUp = sh.gaveUp /\ sh'.broke = sh.broke
           /\ sh.sched = <<>> /\ sh.waiting = <<>>
           /\ sh'.sched = Append(<<>>, sh.read + 1) /\ sh'.waiting = <<>> /\ sh'.outq = sh.outq
<1> DEFINE a == Append(sh.sched, sh.read + 1)
<1>1. sh.reader = "recv" /\ sh.sched = <<>> /\ sh.waiting = <<>> BY FewFly DEF ReaderRecv
<1>2. sh.read + 1 \in 0..MaxChunks /\ sh.read + 1 <= sh.avail /\ sh.read + 1 \in Items
  BY ShellIs DEF ReaderRecv, Items
<1>3. a \in Seq(Items) /\ Len(a) = 1 BY <1>1, <1>2, ShellIs, AppendIs, EmptyIs
<1>4. Len(a) + Len(sh.waiting) <= 2 BY <1>1, <1>3, EmptyIs
<1> HIDE DEF a
<1>5. sh' = [sh EXCEPT !.read = @ + 1, !.sched = a, !.reader = "handoff"] BY DEF ReaderRecv, AfterSchedule, a
<1>6. /\ ShellTypeOK' /\ PumpKept /\ OthersKept /\ sh'.gaveUp = sh.gaveUp /\ sh'.broke = sh.broke
      /\ sh'.sched = a /\ sh'.outq = sh.outq /\ sh'.waiting = sh.waiting
      /\ sh'.reader = "handoff" /\ sh'.read = sh.read + 1
  BY <1>2, <1>3, <1>4, <1>5 DEF ShellTypeOK, PumpKept, OthersKept
<1>7. QED BY <1>1, <1>6 DEF a

\* With the end of the output, or because a read fails.
LEMMA ReaderStopsDoes ==
    ASSUME ShellTypeOK, IReader, ReaderEof \/ ReaderRaises
    PROVE  /\ ShellTypeOK' /\ PumpKept /\ OthersKept
           /\ sh.reader = "recv" /\ sh'.reader = "done" /\ sh'.read = sh.read /\ sh'.gaveUp = sh.gaveUp
           /\ (sh.exited /\ sh.read = sh.avail /\ sh'.broke = sh.broke) \/ sh'.broke
           /\ sh.sched = <<>> /\ sh.waiting = <<>>
           /\ sh'.sched = Append(<<>>, Eof) /\ sh'.waiting = <<>> /\ sh'.outq = sh.outq
<1> DEFINE a == Append(sh.sched, Eof)
<1>1. sh.reader = "recv" /\ sh.sched = <<>> /\ sh.waiting = <<>> BY FewFly DEF ReaderEof, ReaderRaises
<1>2. a \in Seq(Items) /\ Len(a) = 1 BY <1>1, ShellIs, AppendIs, EmptyIs
<1>3. Len(a) + Len(sh.waiting) <= 2 BY <1>1, <1>2, EmptyIs
<1> HIDE DEF a
<1>4. CASE ReaderEof
  <2>1. sh' = [sh EXCEPT !.reader = "done", !.sched = a] /\ sh.exited /\ sh.read = sh.avail
    BY <1>4 DEF ReaderEof, a
  <2>2. /\ ShellTypeOK' /\ PumpKept /\ OthersKept /\ sh'.gaveUp = sh.gaveUp /\ sh'.broke = sh.broke
        /\ sh'.sched = a /\ sh'.outq = sh.outq /\ sh'.waiting = sh.waiting
        /\ sh'.reader = "done" /\ sh'.read = sh.read
    BY <1>2, <1>3, <2>1 DEF ShellTypeOK, PumpKept, OthersKept
  <2>3. QED BY <1>1, <2>1, <2>2 DEF a
<1>5. CASE ReaderRaises
  <2>1. sh' = [sh EXCEPT !.reader = "done", !.sched = a, !.broke = TRUE] BY <1>5 DEF ReaderRaises, a
  <2>2. /\ ShellTypeOK' /\ PumpKept /\ OthersKept /\ sh'.gaveUp = sh.gaveUp /\ sh'.broke
        /\ sh'.sched = a /\ sh'.outq = sh.outq /\ sh'.waiting = sh.waiting
        /\ sh'.reader = "done" /\ sh'.read = sh.read
    BY <1>2, <1>3, <2>1 DEF ShellTypeOK, PumpKept, OthersKept
  <2>3. QED BY <1>1, <2>1, <2>2 DEF a
<1>6. QED BY <1>4, <1>5

LEMMA HandoffDoneDoes ==
    ASSUME ShellTypeOK, HandoffDone
    PROVE  /\ ShellTypeOK' /\ PumpKept /\ OthersKept /\ QueueKept
           /\ sh.reader = "handoff" /\ sh'.reader = "recv" /\ sh'.read = sh.read
           /\ sh'.gaveUp = sh.gaveUp /\ sh'.broke = sh.broke
           /\ sh.read \notin Flying
BY DEF HandoffDone, InHandoff, Flying, ShellTypeOK, PumpKept, OthersKept, QueueKept

LEMMA HandoffTimesOutDoes ==
    ASSUME ShellTypeOK, IReader, HandoffTimesOut
    PROVE  /\ ShellTypeOK' /\ PumpKept /\ OthersKept
           /\ sh.reader = "handoff" /\ sh'.reader = "done" /\ sh'.read = sh.read
           /\ sh'.gaveUp /\ sh'.broke = sh.broke
           /\ sh'.sched = Append(sh.sched, Eof) /\ sh'.waiting = sh.waiting /\ sh'.outq = sh.outq
<1> DEFINE a == Append(sh.sched, Eof)
           x == sh.sched
           w == sh.waiting
<1>1. sh.reader = "handoff" BY DEF HandoffTimesOut
<1>2. a \in Seq(Items) /\ Len(a) = Len(x) + 1 BY ShellIs, AppendIs
<1>3. Len(x) \in Nat /\ Len(w) \in Nat /\ Len(x) + Len(w) <= 1 BY <1>1, ShellIs, SeqIs, FewFly
<1> HIDE DEF a, x, w
<1>4. Len(a) + Len(w) <= 2 BY <1>2, <1>3
<1>5. sh' = [sh EXCEPT !.reader = "done", !.sched = a, !.gaveUp = TRUE] BY DEF HandoffTimesOut, a
<1> USE DEF w
<1>6. /\ ShellTypeOK' /\ PumpKept /\ OthersKept /\ sh'.gaveUp /\ sh'.broke = sh.broke
      /\ sh'.sched = a /\ sh'.outq = sh.outq /\ sh'.waiting = sh.waiting
      /\ sh'.reader = "done" /\ sh'.read = sh.read
  BY <1>2, <1>4, <1>5 DEF ShellTypeOK, PumpKept, OthersKept
<1>7. QED BY <1>1, <1>6 DEF a

\* A put goes to the queue, or it waits.
Enters(from, to) ==
    /\ from # <<>> /\ Head(from) \in Items /\ Tail(from) \in Seq(Items) /\ Append(to, Head(from)) \in Seq(Items)
    /\ Len(Tail(from)) = Len(from) - 1 /\ Len(Append(to, Head(from))) = Len(to) + 1
    /\ Len(from) \in Nat /\ Len(to) \in Nat /\ Len(Tail(from)) \in Nat

LEMMA EntersIs == ASSUME NEW p \in Seq(Items), NEW q \in Seq(Items), p # <<>> PROVE Enters(p, q)
BY TailIs, AppendIs, SeqIs DEF Enters

LEMMA PutStartsDoes ==
    ASSUME ShellTypeOK, PutStarts
    PROVE  /\ ShellTypeOK' /\ PumpKept /\ OthersKept /\ ReaderKept
           /\ sh.sched # <<>> /\ sh'.sched = Tail(sh.sched)
           /\ \/ sh'.outq = Append(sh.outq, Head(sh.sched)) /\ sh'.waiting = sh.waiting
              \/ sh'.outq = sh.outq /\ sh'.waiting = Append(sh.waiting, Head(sh.sched))
<1> DEFINE x == sh.sched
           o == sh.outq
           w == sh.waiting
           a == Tail(x)
           b == Append(o, Head(x))
           c == Append(w, Head(x))
<1>1. x # <<>> BY DEF PutStarts
<1>2. /\ a \in Seq(Items) /\ b \in Seq(Items) /\ c \in Seq(Items)
      /\ Len(a) + 1 = Len(x) /\ Len(b) = Len(o) + 1 /\ Len(c) = Len(w) + 1
      /\ Len(x) \in Nat /\ Len(w) \in Nat /\ Len(o) \in Nat /\ Len(a) \in Nat
  BY <1>1, ShellIs, EntersIs DEF Enters
<1>3. Len(o) <= Cap /\ Len(x) + Len(w) <= 2 /\ Cap \in Nat BY ShellAssumption DEF ShellTypeOK
<1>4. sh' = IF Len(o) < Cap THEN [sh EXCEPT !.sched = a, !.outq = b] ELSE [sh EXCEPT !.sched = a, !.waiting = c]
  BY DEF PutStarts
<1> HIDE DEF a, b, c, x, o, w
<1>5. CASE Len(o) < Cap
  <2>1. Len(b) <= Cap /\ Len(a) + Len(w) <= 2 BY <1>2, <1>3, <1>5
  <2>2. /\ ShellTypeOK' /\ PumpKept /\ OthersKept /\ ReaderKept
        /\ sh'.sched = a /\ sh'.outq = b /\ sh'.waiting = sh.waiting
    BY <1>2, <1>4, <1>5, <2>1 DEF ShellTypeOK, PumpKept, OthersKept, ReaderKept, w
  <2>3. QED BY <1>1, <2>2 DEF a, b, x, o
<1>6. CASE ~(Len(o) < Cap)
  <2>1. Len(a) + Len(c) <= 2 BY <1>2, <1>3
  <2>2. /\ ShellTypeOK' /\ PumpKept /\ OthersKept /\ ReaderKept
        /\ sh'.sched = a /\ sh'.outq = sh.outq /\ sh'.waiting = c
    BY <1>2, <1>4, <1>6, <2>1 DEF ShellTypeOK, PumpKept, OthersKept, ReaderKept
  <2>3. QED BY <1>1, <2>2 DEF a, c, x, w
<1>7. QED BY <1>5, <1>6

LEMMA PutWakesDoes ==
    ASSUME ShellTypeOK, PutWakes
    PROVE  /\ ShellTypeOK' /\ PumpKept /\ OthersKept /\ ReaderKept
           /\ sh.waiting # <<>> /\ sh'.waiting = Tail(sh.waiting)
           /\ sh'.outq = Append(sh.outq, Head(sh.waiting)) /\ sh'.sched = sh.sched
<1> DEFINE x == sh.sched
           o == sh.outq
           w == sh.waiting
           a == Tail(w)
           b == Append(o, Head(w))
<1>1. w # <<>> /\ Len(o) < Cap BY DEF PutWakes
<1>2. /\ a \in Seq(Items) /\ b \in Seq(Items)
      /\ Len(a) + 1 = Len(w) /\ Len(b) = Len(o) + 1
      /\ Len(w) \in Nat /\ Len(o) \in Nat /\ Len(a) \in Nat
  BY <1>1, ShellIs, EntersIs DEF Enters
<1>3. Len(x) \in Nat BY ShellIs, SeqIs
<1>4. Len(x) + Len(w) <= 2 /\ Cap \in Nat BY ShellAssumption DEF ShellTypeOK
<1>5. sh' = [sh EXCEPT !.waiting = a, !.outq = b] BY DEF PutWakes
<1> HIDE DEF a, b, x, o, w
<1>6. Len(b) <= Cap /\ Len(x) + Len(a) <= 2 BY <1>1, <1>2, <1>3, <1>4
<1>7. /\ ShellTypeOK' /\ PumpKept /\ OthersKept /\ ReaderKept
      /\ sh'.waiting = a /\ sh'.outq = b /\ sh'.sched = sh.sched
  BY <1>2, <1>5, <1>6 DEF ShellTypeOK, PumpKept, OthersKept, ReaderKept, x
<1>8. QED BY <1>1, <1>7 DEF a, b, w, o

LEMMA PumpGetDoes ==
    ASSUME ShellTypeOK, PumpGet
    PROVE  /\ ShellTypeOK' /\ OthersKept /\ ReaderKept /\ sh.pump = "get"
           /\ sh.outq # <<>> /\ sh'.outq = Tail(sh.outq) /\ sh'.sched = sh.sched /\ sh'.waiting = sh.waiting
           /\ sh'.item = Head(sh.outq) /\ sh'.sent = sh.sent
           /\ sh'.pump = IF Head(sh.outq) = Eof THEN "done" ELSE "send"
<1> DEFINE a == Tail(sh.outq)
           h == Head(sh.outq)
<1>1. sh.pump = "get" /\ sh.outq # <<>> BY DEF PumpGet
<1>2. a \in Seq(Items) /\ h \in Items /\ Len(a) = Len(sh.outq) - 1 /\ Len(sh.outq) \in Nat
  BY <1>1, ShellIs, TailIs, SeqIs
<1>3. Len(a) <= Cap BY <1>2, ShellAssumption DEF ShellTypeOK
<1> HIDE DEF a, h
<1>4. sh' = [sh EXCEPT !.outq = a, !.item = h, !.pump = IF h = Eof THEN "done" ELSE "send"] BY DEF PumpGet, a, h
<1>5. /\ ShellTypeOK' /\ OthersKept /\ ReaderKept
      /\ sh'.outq = a /\ sh'.sched = sh.sched /\ sh'.waiting = sh.waiting
      /\ sh'.item = h /\ sh'.sent = sh.sent /\ sh'.pump = IF h = Eof THEN "done" ELSE "send"
  BY <1>2, <1>3, <1>4 DEF ShellTypeOK, OthersKept, ReaderKept
<1>6. QED BY <1>1, <1>5 DEF a, h

LEMMA PumpSentDoes ==
    ASSUME ShellTypeOK, PumpSent
    PROVE  /\ ShellTypeOK' /\ OthersKept /\ ReaderKept /\ QueueKept
           /\ sh.pump = "send" /\ sh'.pump = "get" /\ sh'.sent = Append(sh.sent, sh.item)
<1> DEFINE a == Append(sh.sent, sh.item)
<1>1. sh.pump = "send" BY DEF PumpSent
<1>2. a \in Seq(Items) BY ShellIs, AppendIs
<1> HIDE DEF a
<1>3. sh' = [sh EXCEPT !.sent = a, !.pump = "get"] BY DEF PumpSent, a
<1>4. ShellTypeOK' /\ OthersKept /\ ReaderKept /\ QueueKept /\ sh'.pump = "get" /\ sh'.sent = a
  BY <1>2, <1>3 DEF ShellTypeOK, OthersKept, ReaderKept, QueueKept
<1>5. QED BY <1>1, <1>4 DEF a

\* The other steps leave the line of chunks as it is; some end the pump.
Quiet == ShellPrints \/ ShellExits \/ InputStarts \/ InputDone \/ ClientGoes

LEMMA QuietDoes ==
    ASSUME ShellTypeOK, Quiet
    PROVE  /\ ShellTypeOK' /\ ReaderKept /\ QueueKept /\ PumpKept
           /\ sh.exited => sh'.exited /\ sh'.avail = sh.avail
           /\ sh'.conn => sh.conn
           /\ sh'.main = "closed" <=> sh.main = "closed"
<1> USE ShellAssumption DEF ShellTypeOK, ReaderKept, QueueKept, PumpKept
<1>1. CASE ShellPrints
  <2>1. sh.avail \in 0..MaxChunks /\ sh.avail < MaxChunks /\ sh.read \in 0..MaxChunks /\ sh.read <= sh.avail
    BY <1>1 DEF ShellPrints
  <2>2. sh.avail + 1 \in 0..MaxChunks /\ sh.read <= sh.avail + 1 BY <2>1
  <2>3. ~sh.exited /\ sh' = [sh EXCEPT !.avail = sh.avail + 1] BY <1>1 DEF ShellPrints
  <2>4. QED BY <2>2, <2>3
<1>2. CASE ShellExits BY <1>2 DEF ShellExits
<1>3. CASE InputStarts BY <1>3 DEF InputStarts
<1>4. CASE InputDone BY <1>4 DEF InputDone
<1>5. CASE ClientGoes BY <1>5 DEF ClientGoes
<1>6. QED BY <1>1, <1>2, <1>3, <1>4, <1>5 DEF Quiet

Stops == PumpFails \/ MainEnds \/ InputFails

LEMMA StopDoes ==
    ASSUME ShellTypeOK, Stops
    PROVE  /\ ShellTypeOK' /\ ReaderKept /\ QueueKept
           /\ sh'.pump = "done" /\ sh'.sent = sh.sent /\ ~sh'.conn
           /\ sh'.exited = sh.exited /\ sh'.avail = sh.avail
<1> USE DEF ShellTypeOK, ReaderKept, QueueKept
<1>1. CASE PumpFails BY <1>1 DEF PumpFails
<1>2. CASE MainEnds BY <1>2 DEF MainEnds, Closes
<1>3. CASE InputFails BY <1>3 DEF InputFails, Closes
<1>4. QED BY <1>1, <1>2, <1>3 DEF Stops

\* A put that starts or is woken waits on, or takes its item to the queue.
LEMMA PutDoes ==
    ASSUME ShellTypeOK, IReader, PutStarts \/ PutWakes
    PROVE  /\ ShellTypeOK' /\ PumpKept /\ OthersKept /\ ReaderKept
           /\ Inj(sh'.sched) /\ Inj(sh'.waiting) /\ Elems(sh'.sched) \cap Elems(sh'.waiting) = {}
           /\ \/ Flying' = Flying /\ sh'.outq = sh.outq
              \/ \E e \in Flying : Flying' = Flying \ {e} /\ sh'.outq = Append(sh.outq, e)
<1> DEFINE x == sh.sched
           w == sh.waiting
<1>1. x \in Seq(Items) /\ w \in Seq(Items) BY ShellIs
<1>2. Inj(x) /\ Inj(w) /\ Elems(x) \cap Elems(w) = {} BY DEF IReader
<1>3. ASSUME PutStarts
      PROVE  /\ x # <<>> /\ sh'.sched = Tail(x)
             /\ \/ sh'.outq = Append(sh.outq, Head(x)) /\ sh'.waiting = w
                \/ sh'.outq = sh.outq /\ sh'.waiting = Append(w, Head(x))
  BY <1>3, PutStartsDoes
<1>4. ASSUME PutWakes
      PROVE  w # <<>> /\ sh'.waiting = Tail(w) /\ sh'.outq = Append(sh.outq, Head(w)) /\ sh'.sched = x
  BY <1>4, PutWakesDoes
<1>5. Flying = Elems(x) \cup Elems(w) /\ Flying' = Elems(sh'.sched) \cup Elems(sh'.waiting) BY DEF Flying
<1> HIDE DEF x, w
<1>6. CASE PutStarts
  <2>1. Elems(x) = {Head(x)} \cup Elems(Tail(x)) /\ Inj(Tail(x)) /\ Head(x) \notin Elems(Tail(x)) /\ Head(x) \in Items
    BY <1>1, <1>2, <1>3, <1>6, TailIs
  <2>2. CASE sh'.outq = Append(sh.outq, Head(x)) /\ sh'.waiting = w
    <3>1. Flying' = Flying \ {Head(x)} /\ Head(x) \in Flying BY <1>2, <1>3, <1>5, <1>6, <2>1, <2>2
    <3>2. Inj(sh'.sched) /\ Inj(sh'.waiting) /\ Elems(sh'.sched) \cap Elems(sh'.waiting) = {}
      BY <1>2, <1>3, <1>6, <2>1, <2>2
    <3>3. QED BY <1>6, <2>2, <3>1, <3>2, PutStartsDoes
  <2>3. CASE sh'.outq = sh.outq /\ sh'.waiting = Append(w, Head(x))
    <3>1. Head(x) \notin Elems(w) BY <1>2, <2>1
    <3>2. Elems(Append(w, Head(x))) = Elems(w) \cup {Head(x)} /\ Inj(Append(w, Head(x)))
      BY <1>1, <1>2, <2>1, <3>1, AppendIs
    <3>3. Inj(sh'.sched) /\ Inj(sh'.waiting) /\ Elems(sh'.sched) \cap Elems(sh'.waiting) = {} /\ Flying' = Flying
      BY <1>2, <1>3, <1>5, <1>6, <2>1, <2>3, <3>2
    <3>4. QED BY <1>6, <2>3, <3>3, PutStartsDoes
  <2>4. QED BY <1>3, <1>6, <2>2, <2>3
<1>7. CASE PutWakes
  <2>1. Elems(w) = {Head(w)} \cup Elems(Tail(w)) /\ Inj(Tail(w)) /\ Head(w) \notin Elems(Tail(w))
    BY <1>1, <1>2, <1>4, <1>7, TailIs
  <2>2. Flying' = Flying \ {Head(w)} /\ Head(w) \in Flying BY <1>2, <1>4, <1>5, <1>7, <2>1
  <2>3. Inj(sh'.sched) /\ Inj(sh'.waiting) /\ Elems(sh'.sched) \cap Elems(sh'.waiting) = {}
    BY <1>2, <1>4, <1>7, <2>1
  <2>4. QED BY <1>4, <1>7, <2>2, <2>3, PutWakesDoes
<1>8. QED BY <1>6, <1>7

-----------------------------------------------------------------------------
(* The steps keep the invariant of the lambda's shell *)

LEMMA AheadIs ==
    ASSUME ShellTypeOK
    PROVE  /\ Len(sh.sent) \in Nat /\ Ahead \in Nat
           /\ sh.pump = "send" => Ahead = Len(sh.sent) + 1
           /\ sh.pump # "send" => Ahead = Len(sh.sent)
<1>1. Len(sh.sent) \in Nat BY ShellIs, SeqIs
<1>2. sh.pump = "send" => Len(Held) = 1 BY DEF Held
<1>3. sh.pump # "send" => Len(Held) = 0 BY EmptyIs DEF Held
<1> DEFINE n == Len(sh.sent)
           h == Len(Held)
<1>4. Ahead = n + h BY DEF Ahead
<1> HIDE DEF n, h
<1>5. n \in Nat /\ (sh.pump = "send" => h = 1) /\ (sh.pump # "send" => h = 0) BY <1>1, <1>2, <1>3 DEF n, h
<1>6. Ahead \in Nat /\ (sh.pump = "send" => Ahead = n + 1) /\ (sh.pump # "send" => Ahead = n) BY <1>4, <1>5
<1>7. QED BY <1>1, <1>6 DEF n

LEMMA SingleIs ==
    ASSUME NEW e \in Items
    PROVE  /\ Append(<<>>, e) \in Seq(Items) /\ Elems(Append(<<>>, e)) = {e} /\ Inj(Append(<<>>, e))
<1> DEFINE z == <<>>
<1>1. z \in Seq(Items) /\ Elems(z) = {} /\ Inj(z) BY EmptyIs DEF Inj
<1> HIDE DEF z
<1>2. Append(z, e) \in Seq(Items) /\ Elems(Append(z, e)) = {e} /\ Inj(Append(z, e)) BY <1>1, AppendIs
<1>3. QED BY <1>2 DEF z

\* The pump stopped, or it and all that is read stayed as they were.
LEMMA LineKept ==
    ASSUME ShellTypeOK, ILine, sh'.sent = sh.sent,
           \/ sh'.pump = "done"
           \/ sh'.pump = sh.pump /\ sh'.item = sh.item /\ sh'.outq = sh.outq /\ sh'.read = sh.read /\ Flying' = Flying
    PROVE  ILine'
<1>1. CASE sh'.pump = "done" BY <1>1 DEF ILine
<1>2. CASE sh'.pump = sh.pump /\ sh'.item = sh.item /\ sh'.outq = sh.outq /\ sh'.read = sh.read /\ Flying' = Flying
  <2>1. Ahead' = Ahead BY <1>2 DEF Ahead, Held
  <2>2. QED BY <1>2, <2>1 DEF ILine
<1>3. QED BY <1>1, <1>2

LEMMA QuietKeeps == ASSUME ShellTypeOK, ShellInv, Quiet PROVE ShellInv'
<1>1. /\ ReaderKept /\ QueueKept /\ PumpKept
      /\ sh.exited => sh'.exited /\ sh'.avail = sh.avail
      /\ sh'.conn => sh.conn
      /\ sh'.main = "closed" <=> sh.main = "closed"
  BY QuietDoes
<1>2. IReader /\ ILine /\ IEnd BY DEF ShellInv
<1>3. Flying' = Flying BY <1>1 DEF Flying, QueueKept
<1>4. IReader' BY <1>1, <1>2, <1>3 DEF IReader, ReaderKept, QueueKept
<1>5. ILine' BY <1>1, <1>2, <1>3, LineKept DEF ReaderKept, QueueKept, PumpKept
<1>6. sh'.main = "closed" => ~sh'.conn BY <1>1, <1>2 DEF IEnd
<1>7. sh'.reader = "done" /\ ~sh'.gaveUp /\ ~sh'.broke => sh'.exited /\ sh'.read = sh'.avail
  BY <1>1, <1>2 DEF IEnd, ReaderKept
<1>8. AllBeforeEof'
  <2> SUFFICES ASSUME sh'.pump = "done", sh'.main # "closed", sh'.conn, ~sh'.gaveUp
               PROVE  Len(sh'.sent) = sh'.read /\ (sh'.broke \/ (sh'.exited /\ sh'.read = sh'.avail))
    BY DEF AllBeforeEof
  <2>1. sh.pump = "done" /\ sh.main # "closed" /\ sh.conn /\ ~sh.gaveUp BY <1>1 DEF ReaderKept, PumpKept
  <2>2. Len(sh.sent) = sh.read /\ (sh.broke \/ (sh.exited /\ sh.read = sh.avail)) BY <1>2, <2>1 DEF IEnd, AllBeforeEof
  <2>3. QED BY <1>1, <2>2 DEF PumpKept, ReaderKept
<1>9. IEnd' BY <1>1, <1>2, <1>3, <1>6, <1>7, <1>8 DEF IEnd, ReaderKept, QueueKept, PumpKept
<1>10. QED BY <1>4, <1>5, <1>9 DEF ShellInv

LEMMA StopKeeps == ASSUME ShellTypeOK, ShellInv, Stops PROVE ShellInv'
<1>1. /\ ReaderKept /\ QueueKept /\ sh'.pump = "done" /\ sh'.sent = sh.sent /\ ~sh'.conn
      /\ sh'.exited = sh.exited /\ sh'.avail = sh.avail
  BY StopDoes
<1>2. IReader /\ ILine /\ IEnd BY DEF ShellInv
<1>3. Flying' = Flying BY <1>1 DEF Flying, QueueKept
<1>4. IReader' BY <1>1, <1>2, <1>3 DEF IReader, ReaderKept, QueueKept
<1>5. ILine' BY <1>1, <1>2, LineKept
<1>6. sh'.main # "closed" => sh.main # "closed" BY DEF Stops, PumpFails, MainEnds, InputFails, Closes, ShellTypeOK
<1>7. IEnd' BY <1>1, <1>2, <1>6 DEF IEnd, ReaderKept, AllBeforeEof
<1>8. QED BY <1>4, <1>5, <1>7 DEF ShellInv

LEMMA ReaderRecvKeeps == ASSUME ShellTypeOK, ShellInv, ReaderRecv PROVE ShellInv'
<1>1. IReader /\ ILine /\ IEnd BY DEF ShellInv
<1>2. /\ PumpKept /\ OthersKept
      /\ sh.reader = "recv" /\ sh'.reader = "handoff" /\ sh'.read = sh.read + 1
      /\ sh'.gaveUp = sh.gaveUp /\ sh'.broke = sh.broke
      /\ sh.sched = <<>> /\ sh.waiting = <<>>
      /\ sh'.sched = Append(<<>>, sh.read + 1) /\ sh'.waiting = <<>> /\ sh'.outq = sh.outq
      /\ ShellTypeOK'
  BY <1>1, ReaderRecvDoes
<1>3. sh'.read \in Items /\ sh.read \in Nat /\ sh'.read # Eof
  <2>1. sh'.read \in 0..MaxChunks /\ MaxChunks \in Nat BY <1>2, ShellAssumption DEF ShellTypeOK
  <2>2. QED BY <1>2, <2>1, ShellIs DEF Items, Eof
<1>4. Flying = {} /\ Flying' = {sh'.read}
  BY <1>2, <1>3, SingleIs, EmptyIs DEF Flying
<1>5. Eof \notin Elems(sh.outq) BY <1>1, <1>2 DEF IReader
<1>6. IReader'
  <2>1. Inj(sh'.sched) /\ Inj(sh'.waiting) /\ Elems(sh'.waiting) = {} BY <1>2, <1>3, SingleIs, EmptyIs DEF Inj
  <2>2. QED BY <1>2, <1>3, <1>4, <1>5, <2>1 DEF IReader, Eof
<1>7. Ahead' = Ahead /\ Ahead \in Nat BY <1>2, AheadIs DEF Ahead, Held, PumpKept
<1>8. ILine'
  <2> SUFFICES ASSUME sh.pump # "done"
               PROVE /\ Rising(sh.outq)
                     /\ \A c \in Elems(sh.outq) : c # Eof => Ahead < c /\ c <= sh'.read
                     /\ Ahead <= sh'.read
                     /\ sh'.read # 0 /\ sh'.read \in Flying' => Ahead # sh'.read /\ sh'.read \notin Elems(sh.outq)
                     /\ \A c \in (Ahead + 1)..sh'.read : c \in Elems(sh.outq) \cup Flying'
    BY <1>1, <1>2, <1>7 DEF ILine, PumpKept
  <2>1. /\ Rising(sh.outq)
        /\ \A c \in Elems(sh.outq) : c # Eof => Ahead < c /\ c <= sh.read
        /\ Ahead <= sh.read
        /\ \A c \in (Ahead + 1)..sh.read : c \in Elems(sh.outq)
    BY <1>1, <1>4 DEF ILine
  <2>2. Elems(sh.outq) \subseteq Nat BY ShellIs, SeqIs
  <2>3. \A c \in Elems(sh.outq) : c # Eof => Ahead < c /\ c <= sh'.read /\ c # sh'.read
    BY <1>2, <1>3, <2>1, <2>2
  <2>4. Ahead <= sh'.read /\ Ahead # sh'.read BY <1>2, <1>3, <1>7, <2>1
  <2>5. \A c \in (Ahead + 1)..sh'.read : c \in (Ahead + 1)..sh.read \/ c = sh'.read BY <1>2, <1>3, <1>7
  <2>6. QED BY <1>3, <1>4, <2>1, <2>3, <2>4, <2>5
<1>9. IEnd' BY <1>1, <1>2 DEF IEnd, OthersKept, PumpKept, AllBeforeEof
<1>10. QED BY <1>6, <1>8, <1>9 DEF ShellInv

LEMMA ReaderStopsKeeps == ASSUME ShellTypeOK, ShellInv, ReaderEof \/ ReaderRaises PROVE ShellInv'
<1>1. IReader /\ ILine /\ IEnd BY DEF ShellInv
<1>2. /\ PumpKept /\ OthersKept
      /\ sh.reader = "recv" /\ sh'.reader = "done" /\ sh'.read = sh.read /\ sh'.gaveUp = sh.gaveUp
      /\ (sh.exited /\ sh.read = sh.avail /\ sh'.broke = sh.broke) \/ sh'.broke
      /\ sh.sched = <<>> /\ sh.waiting = <<>>
      /\ sh'.sched = Append(<<>>, Eof) /\ sh'.waiting = <<>> /\ sh'.outq = sh.outq
  BY <1>1, ReaderStopsDoes
<1>3. Flying = {} /\ Flying' = {Eof} BY <1>2, SingleIs, EmptyIs, ShellIs DEF Flying
<1>4. Eof \notin Elems(sh.outq) BY <1>1, <1>2 DEF IReader
<1>5. IReader'
  <2>1. Inj(sh'.sched) /\ Inj(sh'.waiting) /\ Elems(sh'.waiting) = {}
    BY <1>2, SingleIs, EmptyIs, ShellIs DEF Inj
  <2>2. QED BY <1>2, <1>3, <2>1 DEF IReader
<1>6. Ahead' = Ahead BY <1>2 DEF Ahead, Held, PumpKept
<1>7. ILine' BY <1>1, <1>2, <1>3, <1>6 DEF ILine, PumpKept, Eof
<1>8. \A i \in DOMAIN sh.outq : sh.outq[i] # Eof BY <1>4 DEF Elems
<1>9. AllBeforeEof' BY <1>1, <1>2 DEF IEnd, OthersKept, PumpKept, AllBeforeEof
<1>10. IEnd' BY <1>1, <1>2, <1>3, <1>4, <1>8, <1>9 DEF IEnd, OthersKept, PumpKept
<1>11. QED BY <1>5, <1>7, <1>10 DEF ShellInv

LEMMA HandoffDoneKeeps == ASSUME ShellTypeOK, ShellInv, HandoffDone PROVE ShellInv'
<1>1. IReader /\ ILine /\ IEnd BY DEF ShellInv
<1>2. /\ PumpKept /\ OthersKept /\ QueueKept
      /\ sh.reader = "handoff" /\ sh'.reader = "recv" /\ sh'.read = sh.read
      /\ sh'.gaveUp = sh.gaveUp /\ sh'.broke = sh.broke
      /\ sh.read \notin Flying
  BY HandoffDoneDoes
<1>3. Flying' = Flying /\ Flying = {} BY <1>1, <1>2 DEF Flying, QueueKept, IReader
<1>4. IReader' BY <1>1, <1>2, <1>3 DEF IReader, QueueKept
<1>5. ILine' BY <1>1, <1>2, <1>3, LineKept DEF PumpKept, QueueKept
<1>6. IEnd' BY <1>1, <1>2 DEF IEnd, OthersKept, PumpKept, AllBeforeEof
<1>7. QED BY <1>4, <1>5, <1>6 DEF ShellInv

LEMMA HandoffTimesOutKeeps == ASSUME ShellTypeOK, ShellInv, HandoffTimesOut PROVE ShellInv'
<1>1. IReader /\ ILine /\ IEnd BY DEF ShellInv
<1>2. /\ PumpKept /\ OthersKept
      /\ sh.reader = "handoff" /\ sh'.reader = "done" /\ sh'.read = sh.read
      /\ sh'.gaveUp /\ sh'.broke = sh.broke
      /\ sh'.sched = Append(sh.sched, Eof) /\ sh'.waiting = sh.waiting /\ sh'.outq = sh.outq
  BY <1>1, HandoffTimesOutDoes
<1>3. Eof \notin Elems(sh.sched) /\ Eof \notin Elems(sh.waiting) BY <1>1, <1>2 DEF IReader, Flying
<1>4. Elems(sh'.sched) = Elems(sh.sched) \cup {Eof} /\ Inj(sh'.sched)
  <2>1. sh.sched \in Seq(Items) /\ Eof \in Items /\ Inj(sh.sched) BY <1>1, ShellIs DEF IReader
  <2>2. QED BY <1>2, <1>3, <2>1, AppendIs
<1>5. Flying' = Flying \cup {Eof} BY <1>2, <1>4 DEF Flying
<1>6. IReader' BY <1>1, <1>2, <1>3, <1>4, <1>5 DEF IReader
<1>7. Ahead' = Ahead BY <1>2 DEF Ahead, Held, PumpKept
<1>8. ILine' BY <1>1, <1>2, <1>5, <1>7 DEF ILine, PumpKept, Eof
<1>9. IEnd' BY <1>1, <1>2 DEF IEnd, OthersKept, PumpKept, AllBeforeEof
<1>10. QED BY <1>6, <1>8, <1>9 DEF ShellInv

LEMMA RisingAppend ==
    ASSUME NEW q \in Seq(Items), NEW e \in Items, Rising(q),
           e = Eof \/ \A c \in Elems(q) : c # Eof => c < e
    PROVE  Rising(Append(q, e))
<1> DEFINE a == Append(q, e)
           n == Len(q)
<1>1. n \in Nat /\ DOMAIN q = 1..n BY SeqIs
<1>2. a \in Seq(Items) /\ Len(a) = n + 1 /\ a[n + 1] = e /\ \A i \in 1..n : a[i] = q[i] BY AppendIs
<1>3. DOMAIN a = 1..(n + 1) BY <1>2, SeqIs
<1>4. \A i, j \in 1..n : i < j /\ q[i] # Eof /\ q[j] # Eof => q[i] < q[j] BY <1>1 DEF Rising
<1>5. \A i \in 1..n : e # Eof /\ q[i] # Eof => q[i] < e BY <1>1 DEF Elems
<1> HIDE DEF a, n
<1>6. ASSUME NEW i \in 1..(n + 1), NEW j \in 1..(n + 1), i < j, a[i] # Eof, a[j] # Eof PROVE a[i] < a[j]
  <2>1. i \in 1..n /\ (j \in 1..n \/ j = n + 1) BY <1>1, <1>6
  <2>2. QED BY <1>2, <1>4, <1>5, <1>6, <2>1
<1>7. Rising(a) BY <1>3, <1>6 DEF Rising
<1>8. QED BY <1>7 DEF a

LEMMA RisingTail ==
    ASSUME NEW q \in Seq(Items), q # <<>>, Rising(q)
    PROVE  /\ Rising(Tail(q))
           /\ Head(q) # Eof => \A c \in Elems(Tail(q)) : c # Eof => Head(q) < c
<1> DEFINE t == Tail(q)
           n == Len(t)
<1>1. /\ Head(q) = q[1] /\ 1 \in DOMAIN q /\ t \in Seq(Items)
      /\ \A i \in 1..n : i + 1 \in DOMAIN q /\ t[i] = q[i + 1]
  BY TailIs
<1>2. n \in Nat /\ DOMAIN t = 1..n BY <1>1, SeqIs
<1>3. \A i, j \in DOMAIN q : i < j /\ q[i] # Eof /\ q[j] # Eof => q[i] < q[j] BY DEF Rising
<1> HIDE DEF t, n
<1>4. ASSUME NEW i \in 1..n, NEW j \in 1..n, i < j, t[i] # Eof, t[j] # Eof PROVE t[i] < t[j]
  <2>1. i + 1 < j + 1 BY <1>2, <1>4
  <2>2. QED BY <1>1, <1>3, <1>4, <2>1
<1>5. ASSUME NEW c \in Elems(t), c # Eof, q[1] # Eof PROVE q[1] < c
  <2>1. PICK i \in 1..n : t[i] = c BY <1>2, <1>5 DEF Elems
  <2>2. 1 < i + 1 BY <1>2
  <2>3. QED BY <1>1, <1>3, <1>5, <2>1, <2>2
<1>6. Rising(t) BY <1>2, <1>4 DEF Rising
<1>7. QED BY <1>1, <1>5, <1>6 DEF t

LEMMA PutKeeps == ASSUME ShellTypeOK, ShellInv, PutStarts \/ PutWakes PROVE ShellInv'
<1>1. IReader /\ ILine /\ IEnd BY DEF ShellInv
<1>2. /\ PumpKept /\ OthersKept /\ ReaderKept
      /\ Inj(sh'.sched) /\ Inj(sh'.waiting) /\ Elems(sh'.sched) \cap Elems(sh'.waiting) = {}
      /\ \/ Flying' = Flying /\ sh'.outq = sh.outq
         \/ \E e \in Flying : Flying' = Flying \ {e} /\ sh'.outq = Append(sh.outq, e)
  BY <1>1, PutDoes
<1>3. AllBeforeEof' BY <1>1, <1>2 DEF IEnd, OthersKept, PumpKept, ReaderKept, AllBeforeEof
<1>4. Ahead' = Ahead /\ Ahead \in Nat BY <1>2, AheadIs DEF Ahead, Held, PumpKept
<1>5. CASE Flying' = Flying /\ sh'.outq = sh.outq
  <2>1. IReader' BY <1>1, <1>2, <1>5 DEF IReader, ReaderKept
  <2>2. ILine' BY <1>1, <1>2, <1>5, LineKept DEF PumpKept, ReaderKept
  <2>3. IEnd' BY <1>1, <1>2, <1>3, <1>5 DEF IEnd, OthersKept, PumpKept, ReaderKept
  <2>4. QED BY <2>1, <2>2, <2>3 DEF ShellInv
<1>6. CASE \E e \in Flying : Flying' = Flying \ {e} /\ sh'.outq = Append(sh.outq, e)
  <2> PICK e \in Flying : Flying' = Flying \ {e} /\ sh'.outq = Append(sh.outq, e) BY <1>6
  <2>1. e \in {sh.read, Eof} BY <1>1 DEF IReader
  <2>2. /\ e \in Items /\ sh.read \in Nat /\ Eof = 0 /\ sh.outq \in Seq(Items) /\ Elems(sh.outq) \subseteq Nat
    <3>1. sh.read \in Items BY ShellIs DEF Items
    <3>2. QED BY <2>1, <3>1, ShellIs, SeqIs
  <2> DEFINE q == sh.outq
             n == Len(q)
             a == Append(q, e)
  <2>3. Elems(sh'.outq) = Elems(q) \cup {e} BY <2>2, AppendIs
  <2>4. IReader'
    <3>1. Flying' \cup Elems(sh'.outq) = Flying \cup Elems(sh.outq) /\ Flying' \subseteq Flying BY <2>3
    <3>2. sh.reader = "recv" => Flying' = {} BY <1>1, <3>1 DEF IReader
    <3>3. QED BY <1>1, <1>2, <3>1, <3>2 DEF IReader, ReaderKept
  <2>5. ILine'
    <3> SUFFICES ASSUME sh.pump # "done"
                 PROVE /\ Rising(a)
                       /\ \A c \in Elems(q) \cup {e} : c # Eof => Ahead < c /\ c <= sh.read
                       /\ sh.read # 0 /\ sh.read \in Flying' => sh.read \notin Elems(q) \cup {e}
                       /\ \A c \in (Ahead + 1)..sh.read : c \in Elems(q) \cup {e} \cup Flying'
      BY <1>1, <1>2, <1>4, <2>3 DEF ILine, PumpKept, ReaderKept
    <3>1. /\ Rising(q)
          /\ \A c \in Elems(q) : c # Eof => Ahead < c /\ c <= sh.read
          /\ Ahead <= sh.read
          /\ sh.read # 0 /\ sh.read \in Flying => Ahead # sh.read /\ sh.read \notin Elems(q)
          /\ \A c \in (Ahead + 1)..sh.read : c \in Elems(q) \cup Flying
      BY <1>1 DEF ILine
    <3>2. e # Eof => e = sh.read /\ Ahead < e /\ sh.read \notin Elems(q) BY <1>4, <2>1, <2>2, <3>1
    <3>3. \A c \in Elems(q) : e # Eof /\ c # Eof => c < e BY <2>2, <3>1, <3>2
    <3>4. Rising(a) BY <2>2, <3>1, <3>3, RisingAppend
    <3>5. sh.read # 0 /\ sh.read \in Flying' => sh.read \notin Elems(q) \cup {e} BY <3>1
    <3>6. \A c \in Elems(q) \cup {e} : c # Eof => Ahead < c /\ c <= sh.read BY <2>2, <3>1, <3>2
    <3>7. QED BY <3>1, <3>4, <3>5, <3>6
  <2>6. IEnd'
    <3>1. ASSUME sh.reader = "done", sh.pump # "done", ~sh.gaveUp
          PROVE  Flying' = {} /\ \A i \in DOMAIN a : a[i] = Eof => i = Len(a)
      <4>1. e = Eof /\ Flying' = {} /\ Eof \notin Elems(q) BY <1>1, <3>1 DEF IEnd
      <4>2. n \in Nat /\ DOMAIN q = 1..n /\ \A i \in 1..n : q[i] # Eof BY <2>2, <4>1, SeqIs DEF Elems
      <4>3. a \in Seq(Items) /\ Len(a) = n + 1 /\ \A i \in 1..n : a[i] = q[i] BY <2>2, AppendIs
      <4>4. DOMAIN a = 1..(n + 1) BY <4>3, SeqIs
      <4> HIDE DEF a, n, q
      <4>5. \A i \in 1..(n + 1) : i \in 1..n \/ i = n + 1 BY <4>2
      <4>6. QED BY <4>1, <4>2, <4>3, <4>4, <4>5
    <3>2. QED BY <1>1, <1>2, <1>3, <3>1 DEF IEnd, OthersKept, PumpKept, ReaderKept
  <2>7. QED BY <2>4, <2>5, <2>6 DEF ShellInv
<1>7. QED BY <1>2, <1>5, <1>6

LEMMA PumpGetKeeps == ASSUME ShellTypeOK, ShellInv, PumpGet PROVE ShellInv'
<1>1. IReader /\ ILine /\ IEnd BY DEF ShellInv
<1> DEFINE q == sh.outq
           h == Head(q)
           t == Tail(q)
<1>2. /\ OthersKept /\ ReaderKept /\ sh.pump = "get"
      /\ q # <<>> /\ sh'.outq = t /\ sh'.sched = sh.sched /\ sh'.waiting = sh.waiting
      /\ sh'.item = h /\ sh'.sent = sh.sent
      /\ sh'.pump = IF h = Eof THEN "done" ELSE "send"
      /\ ShellTypeOK'
  BY PumpGetDoes
<1>3. q \in Seq(Items) /\ sh.read \in Nat /\ Elems(q) \subseteq Nat /\ Eof = 0 BY ShellIs, SeqIs
<1>4. /\ Elems(q) = {h} \cup Elems(t) /\ h = q[1] /\ 1 \in DOMAIN q
      /\ t \in Seq(Items) /\ Len(t) = Len(q) - 1 /\ \A i \in 1..Len(t) : i + 1 \in DOMAIN q /\ t[i] = q[i + 1]
  BY <1>2, <1>3, TailIs
<1>5. Flying' = Flying BY <1>2 DEF Flying
<1>6. IReader' BY <1>1, <1>2, <1>4, <1>5 DEF IReader, ReaderKept
<1>7. Ahead = Len(sh.sent) /\ Ahead \in Nat BY <1>2, AheadIs
<1>8. /\ Rising(q)
      /\ \A c \in Elems(q) : c # Eof => Ahead < c /\ c <= sh.read
      /\ Ahead <= sh.read
      /\ sh.read # 0 /\ sh.read \in Flying => Ahead # sh.read /\ sh.read \notin Elems(q)
      /\ \A c \in (Ahead + 1)..sh.read : c \in Elems(q) \cup Flying
  BY <1>1, <1>2 DEF ILine
<1>9. DOMAIN q = 1..Len(q) /\ Len(q) \in Nat /\ DOMAIN t = 1..Len(t) /\ Len(t) \in Nat BY <1>3, <1>4, SeqIs
<1> HIDE DEF h, t
<1>10. CASE h = Eof
  <2>1. sh'.pump = "done" BY <1>2, <1>10
  <2>2. ILine' BY <1>1, <1>2, <2>1 DEF ILine
  <2>3. sh.reader = "done" BY <1>1, <1>4, <1>10 DEF IReader
  <2>4. ASSUME ~sh.gaveUp PROVE Len(sh.sent) = sh.read /\ (sh.broke \/ (sh.exited /\ sh.read = sh.avail))
    <3>1. sh.broke \/ (sh.exited /\ sh.read = sh.avail) BY <1>1, <2>3, <2>4 DEF IEnd
    <3>2. Flying \subseteq {Eof} BY <1>1, <1>2, <2>3, <2>4 DEF IEnd
    <3>3. Len(q) = 1 BY <1>1, <1>2, <1>4, <1>10, <2>3, <2>4 DEF IEnd
    <3>4. \A c \in Elems(q) : c = Eof
      <4>1. \A i \in DOMAIN q : i = 1 BY <1>9, <3>3
      <4>2. QED BY <1>4, <1>10, <4>1 DEF Elems
    <3>5. \A c \in (Ahead + 1)..sh.read : c = Eof BY <1>8, <3>2, <3>4
    <3>6. ~(Ahead < sh.read)
      <4> SUFFICES ASSUME Ahead < sh.read PROVE FALSE
        OBVIOUS
      <4>1. sh.read \in (Ahead + 1)..sh.read /\ sh.read # 0 BY <1>3, <1>7
      <4>2. QED BY <1>3, <3>5, <4>1
    <3>7. QED BY <1>3, <1>7, <1>8, <3>1, <3>6
  <2>5. AllBeforeEof' BY <1>2, <2>4 DEF AllBeforeEof, OthersKept, ReaderKept
  <2>6. IEnd' BY <1>1, <1>2, <2>1, <2>3, <2>5 DEF IEnd, OthersKept, ReaderKept
  <2>7. QED BY <1>6, <2>2, <2>6 DEF ShellInv
<1>11. CASE h # Eof
  <2>1. /\ Rising(t) /\ \A c \in Elems(t) : c # Eof => h < c BY <1>2, <1>3, <1>8, <1>11, RisingTail DEF h, t
  <2>2. h \in Nat /\ h # 0 /\ Ahead < h /\ h <= sh.read BY <1>3, <1>4, <1>8, <1>11
  <2>3. h = Ahead + 1
    <3>1. Ahead + 1 \in (Ahead + 1)..sh.read /\ Ahead + 1 # Eof BY <1>3, <1>7, <2>2
    <3>2. CASE Ahead + 1 \in Elems(t)
      <4>1. h < Ahead + 1 BY <2>1, <3>1, <3>2
      <4>2. QED BY <1>7, <2>2, <4>1
    <3>3. CASE Ahead + 1 \in Flying
      <4>1. Ahead + 1 = sh.read BY <1>1, <3>1, <3>3 DEF IReader
      <4>2. h = sh.read BY <1>7, <2>2, <4>1
      <4>3. QED BY <4>1, <4>2
    <3>4. QED BY <1>4, <1>8, <3>1, <3>2, <3>3
  <2>4. Ahead' = Ahead + 1
    <3>1. sh'.pump = "send" BY <1>2, <1>11
    <3>2. Ahead' = Len(sh'.sent) + 1
      <4>1. Len(Held') = 1 BY <3>1 DEF Held
      <4>2. QED BY <4>1 DEF Ahead
    <3>3. QED BY <1>2, <1>7, <3>2
  <2>5. ILine'
    <3> SUFFICES /\ h = Len(sh.sent) + 1
                 /\ Rising(t)
                 /\ \A c \in Elems(t) : c # Eof => h < c /\ c <= sh.read
                 /\ h <= sh.read
                 /\ sh.read # 0 /\ sh.read \in Flying => h # sh.read /\ sh.read \notin Elems(t)
                 /\ \A c \in (h + 1)..sh.read : c \in Elems(t) \cup Flying
      BY <1>1, <1>2, <1>5, <2>3, <2>4 DEF ILine, ReaderKept
    <3>1. h = Len(sh.sent) + 1 BY <1>7, <2>3
    <3>2. \A c \in Elems(t) : c # Eof => h < c /\ c <= sh.read BY <1>4, <1>8, <2>1
    <3>3. sh.read # 0 /\ sh.read \in Flying => h # sh.read /\ sh.read \notin Elems(t) BY <1>4, <1>8
    <3>4. \A c \in (h + 1)..sh.read : c \in Elems(t) \cup Flying
      <4>1. \A c \in (h + 1)..sh.read : c \in (Ahead + 1)..sh.read /\ c # h BY <1>3, <1>7, <2>2, <2>3
      <4>2. QED BY <1>4, <1>8, <4>1
    <3>5. QED BY <2>1, <2>2, <3>1, <3>2, <3>3, <3>4
  <2>6. IEnd'
    <3>1. sh'.pump = "send" BY <1>2, <1>11
    <3>2. ASSUME sh.reader = "done", ~sh.gaveUp
          PROVE /\ Flying \subseteq {Eof} /\ (Flying # {} => Eof \notin Elems(t))
                /\ \A i \in DOMAIN t : t[i] = Eof => i = Len(t)
      <4>1. /\ Flying \subseteq {Eof} /\ (Flying # {} => Eof \notin Elems(q))
            /\ \A i \in DOMAIN q : q[i] = Eof => i = Len(q)
        BY <1>1, <1>2, <3>2 DEF IEnd
      <4> DEFINE m == Len(t)
                 n == Len(q)
      <4>2. m \in Nat /\ n \in Nat /\ m = n - 1 BY <1>4, <1>9
      <4>3. \A i \in 1..m : t[i] = Eof => i + 1 = n BY <1>4, <4>1
      <4> HIDE DEF m, n
      <4>4. \A i \in 1..m : t[i] = Eof => i = m BY <4>2, <4>3
      <4>5. QED BY <1>4, <1>9, <4>1, <4>4 DEF m
    <3>3. QED BY <1>1, <1>2, <1>5, <3>1, <3>2 DEF IEnd, OthersKept, ReaderKept, AllBeforeEof
  <2>7. QED BY <1>6, <2>5, <2>6 DEF ShellInv
<1>12. QED BY <1>10, <1>11

LEMMA PumpSentKeeps == ASSUME ShellTypeOK, ShellInv, PumpSent PROVE ShellInv'
<1>1. IReader /\ ILine /\ IEnd BY DEF ShellInv
<1> DEFINE s == sh.sent
           n == Len(s)
           a == Append(s, sh.item)
<1>2. /\ OthersKept /\ ReaderKept /\ QueueKept
      /\ sh.pump = "send" /\ sh'.pump = "get" /\ sh'.sent = a /\ ShellTypeOK'
  BY PumpSentDoes
<1>3. s \in Seq(Items) /\ n \in Nat /\ DOMAIN s = 1..n BY ShellIs, SeqIs
<1>4. a \in Seq(Items) /\ Len(a) = n + 1 /\ a[n + 1] = sh.item /\ \A i \in 1..n : a[i] = s[i]
  BY <1>3, ShellIs, AppendIs
<1>5. DOMAIN a = 1..(n + 1) BY <1>4, SeqIs
<1>6. sh.item = n + 1 /\ \A i \in 1..n : s[i] = i BY <1>1, <1>2, <1>3 DEF ILine
<1>7. Ahead' = Ahead
  <2>1. Ahead = n + 1 BY <1>2, AheadIs
  <2>2. Ahead' = Len(sh'.sent)
    <3>1. ShellTypeOK' /\ sh'.pump # "send" BY <1>2
    <3>2. Len(Held') = 0 BY <3>1, EmptyIs DEF Held
    <3>3. Ahead' = Len(a) + Len(Held') BY <1>2 DEF Ahead
    <3> HIDE DEF a, n
    <3>4. QED BY <1>2, <1>3, <1>4, <3>2, <3>3
  <2>3. QED BY <1>2, <1>4, <2>1, <2>2
<1>8. Flying' = Flying BY <1>2 DEF Flying, QueueKept
<1> HIDE DEF a, n
<1>9. \A i \in DOMAIN a : a[i] = i
  <2>1. \A i \in 1..(n + 1) : i \in 1..n \/ i = n + 1 BY <1>3
  <2>2. QED BY <1>4, <1>5, <1>6, <2>1
<1>10. ILine' BY <1>1, <1>2, <1>7, <1>8, <1>9 DEF ILine, ReaderKept, QueueKept
<1>11. IReader' BY <1>1, <1>2, <1>8 DEF IReader, ReaderKept, QueueKept
<1>12. IEnd' BY <1>1, <1>2, <1>8 DEF IEnd, OthersKept, ReaderKept, QueueKept, AllBeforeEof
<1>13. QED BY <1>10, <1>11, <1>12 DEF ShellInv

LEMMA ShellStarts == ShellInit => ShellTypeOK /\ ShellInv
<1> SUFFICES ASSUME ShellInit PROVE ShellTypeOK /\ ShellInv
  OBVIOUS
<1>1. /\ sh.avail = 0 /\ sh.exited = FALSE /\ sh.reader = "recv" /\ sh.read = 0
      /\ sh.sched = <<>> /\ sh.outq = <<>> /\ sh.waiting = <<>>
      /\ sh.pump = "get" /\ sh.item = Eof /\ sh.main = "recv" /\ sh.conn = TRUE
      /\ sh.sent = <<>> /\ sh.gaveUp = FALSE /\ sh.broke = FALSE
  BY DEF ShellInit
<1>2. <<>> \in Seq(Items) /\ Eof \in Items BY EmptyIs, ShellAssumption DEF Items, Eof
<1>3. ShellTypeOK
  <2> DEFINE z == <<>>
  <2>1. z \in Seq(Items) /\ Len(z) = 0 BY <1>2, EmptyIs
  <2>2. sh.sched = z /\ sh.outq = z /\ sh.waiting = z /\ sh.sent = z BY <1>1
  <2>3. sh = [avail |-> 0, exited |-> FALSE, reader |-> "recv", read |-> 0,
              sched |-> z, outq |-> z, waiting |-> z,
              pump |-> "get", item |-> Eof, main |-> "recv", conn |-> TRUE,
              sent |-> z, gaveUp |-> FALSE, broke |-> FALSE]
    BY DEF ShellInit
  <2> HIDE DEF z
  <2>4. Len(sh.outq) <= Cap /\ Len(sh.sched) + Len(sh.waiting) <= 2 /\ sh.read <= sh.avail
    BY <2>1, <2>2, <1>1, ShellAssumption
  <2>5. QED BY <2>1, <2>3, <2>4, <1>2, ShellAssumption DEF ShellTypeOK
<1>4. Flying = {} /\ Elems(sh.outq) = {} /\ Ahead = 0
  <2>1. Held = <<>> BY <1>1 DEF Held
  <2>2. QED BY <1>1, <2>1, EmptyIs DEF Flying, Ahead
<1>5. IReader BY <1>1, <1>4, EmptyIs DEF IReader, Inj
<1>6. ILine BY <1>1, <1>4, EmptyIs DEF ILine, Rising
<1>7. IEnd BY <1>1 DEF IEnd, AllBeforeEof
<1>8. QED BY <1>3, <1>5, <1>6, <1>7 DEF ShellInv

LEMMA ShellSteps == ASSUME ShellTypeOK, ShellInv, ShellNext PROVE ShellTypeOK' /\ ShellInv'
<1> USE DEF ShellInv
<1>1. CASE Quiet BY <1>1, QuietDoes, QuietKeeps
<1>2. CASE Stops BY <1>2, StopDoes, StopKeeps
<1>3. CASE ReaderRecv BY <1>3, ReaderRecvDoes, ReaderRecvKeeps
<1>4. CASE ReaderEof \/ ReaderRaises BY <1>4, ReaderStopsDoes, ReaderStopsKeeps
<1>5. CASE HandoffDone BY <1>5, HandoffDoneDoes, HandoffDoneKeeps
<1>6. CASE HandoffTimesOut BY <1>6, HandoffTimesOutDoes, HandoffTimesOutKeeps
<1>7. CASE PutStarts \/ PutWakes BY <1>7, PutDoes, PutKeeps
<1>8. CASE PumpGet BY <1>8, PumpGetDoes, PumpGetKeeps
<1>9. CASE PumpSent BY <1>9, PumpSentDoes, PumpSentKeeps
<1>10. QED
  BY <1>1, <1>2, <1>3, <1>4, <1>5, <1>6, <1>7, <1>8, <1>9 DEF ShellNext, Quiet, Stops

-----------------------------------------------------------------------------
(* The line from the client to the reader *)

LEMMA RisingConcat ==
    ASSUME NEW p \in Seq(Items), NEW q \in Seq(Items), Rising(p), Rising(q),
           \A c \in Elems(p), d \in Elems(q) : c # Eof /\ d # Eof => c < d
    PROVE  Rising(p \o q) /\ p \o q \in Seq(Items) /\ Elems(p \o q) = Elems(p) \cup Elems(q)
<1> DEFINE c == p \o q
           m == Len(p)
           n == Len(q)
<1>1. /\ c \in Seq(Items) /\ Len(c) = m + n /\ Elems(c) = Elems(p) \cup Elems(q)
      /\ (\A i \in 1..m : c[i] = p[i]) /\ (\A i \in 1..n : c[m + i] = q[i])
  BY ConcatIs
<1>2. m \in Nat /\ DOMAIN p = 1..m /\ n \in Nat /\ DOMAIN q = 1..n BY SeqIs
<1>3. DOMAIN c = 1..(m + n) BY <1>1, SeqIs
<1>4. /\ \A i, j \in 1..m : i < j /\ p[i] # Eof /\ p[j] # Eof => p[i] < p[j]
      /\ \A i, j \in 1..n : i < j /\ q[i] # Eof /\ q[j] # Eof => q[i] < q[j]
      /\ \A i \in 1..m, j \in 1..n : p[i] # Eof /\ q[j] # Eof => p[i] < q[j]
  BY <1>2 DEF Rising, Elems
<1> HIDE DEF c, m, n
<1>5. ASSUME NEW i \in 1..(m + n), NEW j \in 1..(m + n), i < j, c[i] # Eof, c[j] # Eof PROVE c[i] < c[j]
  <2>1. CASE j \in 1..m
    <3>1. i \in 1..m BY <1>2, <1>5, <2>1
    <3>2. QED BY <1>1, <1>4, <1>5, <2>1, <3>1
  <2>2. CASE j \notin 1..m
    <3> DEFINE b == j - m
    <3>1. b \in 1..n /\ m + b = j BY <1>2, <2>2
    <3> HIDE DEF b
    <3>2. c[j] = q[b] BY <1>1, <3>1
    <3>3. CASE i \in 1..m BY <1>1, <1>4, <1>5, <3>1, <3>2, <3>3
    <3>4. CASE i \notin 1..m
      <4> DEFINE a == i - m
      <4>1. a \in 1..n /\ m + a = i /\ a < b BY <1>2, <1>5, <3>1, <3>4
      <4> HIDE DEF a
      <4>2. c[i] = q[a] BY <1>1, <4>1
      <4>3. QED BY <1>4, <1>5, <3>1, <3>2, <4>1, <4>2
    <3>5. QED BY <3>3, <3>4
  <2>3. QED BY <2>1, <2>2
<1>6. Rising(c) BY <1>3, <1>5 DEF Rising
<1>7. QED BY <1>1, <1>6 DEF c

\* The invariant says what the property says of the line.
LEMMA LineInOrder == ASSUME ShellTypeOK, ShellInv PROVE OutputInOrder
<1>1. IReader /\ ILine BY DEF ShellInv
<1> SUFFICES ASSUME sh.pump # "done" PROVE Rising(Line) /\ Elems(Line) \ {Eof} = 1..sh.read
  BY <1>1 DEF OutputInOrder, ILine
<1> DEFINE s == sh.sent
           h == Held
           o == sh.outq
           w == sh.waiting
           x == sh.sched
           n == Len(s)
<1>2. /\ s \in Seq(Items) /\ o \in Seq(Items) /\ w \in Seq(Items) /\ x \in Seq(Items)
      /\ sh.read \in Nat /\ Eof = 0 /\ Eof \in Items
      /\ Elems(o) \subseteq Nat
  BY ShellIs, SeqIs
<1>3. n \in Nat /\ DOMAIN s = 1..n BY <1>2, SeqIs
<1>4. /\ Rising(o)
      /\ \A c \in Elems(o) : c # Eof => Ahead < c /\ c <= sh.read
      /\ Ahead <= sh.read
      /\ sh.read # 0 /\ sh.read \in Flying => Ahead # sh.read /\ sh.read \notin Elems(o)
      /\ \A c \in (Ahead + 1)..sh.read : c \in Elems(o) \cup Flying
  BY <1>1 DEF ILine
<1>5. Ahead \in Nat BY AheadIs
<1>6. /\ Elems(w) \subseteq {sh.read, Eof} /\ Elems(x) \subseteq {sh.read, Eof}
      /\ Inj(w) /\ Inj(x) /\ Elems(x) \cap Elems(w) = {} /\ Flying = Elems(x) \cup Elems(w)
  BY <1>1 DEF IReader, Flying
<1>7. Rising(s) /\ Elems(s) = 1..n BY <1>1, <1>3 DEF ILine, Rising, Elems
<1>8. h \in Seq(Items) /\ Rising(h) /\ Elems(h) = (n + 1)..Ahead /\ (Ahead = n \/ Ahead = n + 1)
  <2>1. CASE sh.pump = "send"
    <3> DEFINE z == <<sh.item>>
    <3>1. h = z /\ z = Append(<<>>, sh.item) BY <2>1 DEF Held
    <3>2. z \in Seq(Items) /\ Elems(z) = {sh.item} /\ Inj(z) BY <3>1, ShellIs, SingleIs
    <3>3. sh.item = n + 1 /\ Ahead = n + 1 BY <1>1, <2>1, AheadIs DEF ILine
    <3> HIDE DEF z, n
    <3>4. Rising(z)
      <4>1. DOMAIN z = 1..1 BY DEF z
      <4>2. QED BY <4>1 DEF Rising
    <3>5. Elems(z) = (n + 1)..Ahead BY <1>3, <3>2, <3>3
    <3>6. QED BY <3>1, <3>2, <3>3, <3>4, <3>5
  <2>2. CASE sh.pump # "send"
    <3>1. h = <<>> /\ Ahead = n BY <2>2, AheadIs DEF Held
    <3>2. (n + 1)..n = {} BY <1>3
    <3>3. Rising(<<>>) BY EmptyIs DEF Rising
    <3>4. QED BY <3>1, <3>2, <3>3, EmptyIs
  <2>3. QED BY <2>1, <2>2
<1>9. ASSUME NEW q \in Seq(Items), Inj(q), Elems(q) \subseteq {sh.read, Eof} PROVE Rising(q)
  <2>1. Len(q) \in Nat /\ DOMAIN q = 1..Len(q) BY SeqIs
  <2>2. \A i \in DOMAIN q : q[i] \in {sh.read, Eof} BY <1>9 DEF Elems
  <2> DEFINE k == Len(q)
  <2> HIDE DEF k
  <2>3. \A i, j \in 1..k : i < j => q[i] = Eof \/ q[j] = Eof
    <3>1. \A i, j \in 1..k : i < j => i # j OBVIOUS
    <3>2. QED BY <1>9, <2>1, <2>2, <3>1 DEF Inj, k
  <2>4. QED BY <2>1, <2>3 DEF Rising, k
<1>10. Line = (((s \o h) \o o) \o w) \o x BY DEF Line
<1> HIDE DEF s, h, o, w, x, n
<1>11. Rising(s \o h) /\ s \o h \in Seq(Items) /\ Elems(s \o h) = 1..Ahead
  <2>1. \A c \in Elems(s), d \in Elems(h) : c # Eof /\ d # Eof => c < d BY <1>3, <1>5, <1>7, <1>8
  <2>2. (1..n) \cup ((n + 1)..Ahead) = 1..Ahead BY <1>3, <1>5, <1>8
  <2>3. Rising(s \o h) /\ s \o h \in Seq(Items) /\ Elems(s \o h) = Elems(s) \cup Elems(h)
    BY <1>2, <1>7, <1>8, <2>1, RisingConcat
  <2>4. QED BY <1>7, <1>8, <2>2, <2>3
<1> DEFINE a == s \o h
<1> HIDE DEF a
<1>12. Rising(a \o o) /\ a \o o \in Seq(Items) /\ Elems(a \o o) = (1..Ahead) \cup Elems(o)
  <2>1. a \in Seq(Items) /\ Rising(a) /\ Elems(a) = 1..Ahead BY <1>11 DEF a
  <2>2. \A c \in 1..Ahead, d \in Elems(o) : d # Eof => c < d BY <1>2, <1>4, <1>5
  <2>3. QED BY <1>2, <1>4, <2>1, <2>2, RisingConcat
<1> DEFINE b == a \o o
<1> HIDE DEF b
<1>13. sh.read # 0 /\ sh.read \in Flying => \A c \in Elems(b) : c < sh.read
  <2>1. Elems(b) = (1..Ahead) \cup Elems(o) BY <1>12 DEF b
  <2> SUFFICES ASSUME sh.read # 0, sh.read \in Flying, NEW c \in (1..Ahead) \cup Elems(o) PROVE c < sh.read
    BY <2>1
  <2>2. Ahead < sh.read /\ sh.read \notin Elems(o) BY <1>2, <1>4, <1>5
  <2>3. CASE c \in 1..Ahead BY <1>2, <1>5, <2>2, <2>3
  <2>4. CASE c \in Elems(o) BY <1>2, <1>4, <2>2, <2>4
  <2>5. QED BY <2>3, <2>4
<1>14. Rising(b \o w) /\ b \o w \in Seq(Items) /\ Elems(b \o w) = Elems(b) \cup Elems(w)
  <2>1. b \in Seq(Items) /\ Rising(b) BY <1>12 DEF b
  <2>2. \A c \in Elems(b), d \in Elems(w) : d # Eof => c < d BY <1>2, <1>6, <1>13
  <2>3. Rising(w) BY <1>2, <1>6, <1>9
  <2>4. QED BY <1>2, <2>1, <2>2, <2>3, RisingConcat
<1> DEFINE d == b \o w
<1> HIDE DEF d
<1>15. Rising(d \o x) /\ Elems(d \o x) = Elems(b) \cup Elems(w) \cup Elems(x)
  <2>1. d \in Seq(Items) /\ Rising(d) /\ Elems(d) = Elems(b) \cup Elems(w) BY <1>14 DEF d
  <2>2. \A c \in Elems(b) \cup Elems(w), e \in Elems(x) : c # Eof /\ e # Eof => c < e BY <1>2, <1>6, <1>13
  <2>3. Rising(x) BY <1>2, <1>6, <1>9
  <2>4. QED BY <1>2, <2>1, <2>2, <2>3, RisingConcat
<1>16. Line = d \o x BY <1>10 DEF a, b, d
<1>17. Elems(Line) = (1..Ahead) \cup Elems(o) \cup Flying BY <1>6, <1>12, <1>15, <1>16 DEF b
<1>18. Elems(Line) \ {Eof} = 1..sh.read
  <2>1. ASSUME NEW c \in (1..Ahead) \cup Elems(o) \cup Flying, c # Eof PROVE c \in 1..sh.read
    <3>1. CASE c \in 1..Ahead BY <1>2, <1>4, <1>5, <3>1
    <3>2. CASE c \in Elems(o) BY <1>2, <1>4, <1>5, <2>1, <3>2
    <3>3. CASE c \in Flying
      <4>1. c = sh.read BY <1>6, <2>1, <3>3
      <4>2. QED BY <1>2, <2>1, <4>1
    <3>4. QED BY <2>1, <3>1, <3>2, <3>3
  <2>2. ASSUME NEW c \in 1..sh.read PROVE c \in (1..Ahead) \cup Elems(o) \cup Flying /\ c # Eof
    <3>1. c \in 1..Ahead \/ c \in (Ahead + 1)..sh.read BY <1>2, <1>5
    <3>2. QED BY <1>2, <1>4, <3>1
  <2>3. QED BY <1>17, <2>1, <2>2
<1>19. QED BY <1>15, <1>16, <1>18

-----------------------------------------------------------------------------
(* The administrator's shell *)

\* Messages the main loop has received.
Taken == Len(ws.typed) - Len(ws.inbox)
Stored == ws.got \o ws.tty

\* The tasks and the main loop.
ITasks ==
    /\ \A k \in Streams \ Used(ws.kind) : ws.reader[k] = "done"
    /\ \A k \in Streams : ws.reader[k] = "cancelled" => ws.main = "closed"
    /\ ws.main \in {"closed", "failed"} => ~ws.conn
    /\ ws.main = "spawn" => \A k \in Streams : ws.reader[k] = "done" /\ ws.read[k] = 0 /\ ws.sent[k] = <<>>

\* Each stream was sent as far as its task has read it, while the client is there.
ISent ==
    \A k \in Streams :
      /\ \A i \in DOMAIN ws.sent[k] : ws.sent[k][i] = i
      /\ Len(ws.sent[k]) <= ws.read[k]
      /\ ws.reader[k] = "send" => Len(ws.sent[k]) < ws.read[k]
      /\ ws.conn /\ ws.reader[k] = "read" => Len(ws.sent[k]) = ws.read[k]
      /\ ws.conn /\ ws.reader[k] = "send" => Len(ws.sent[k]) + 1 = ws.read[k]
      /\ k \in Used(ws.kind) /\ ws.reader[k] = "done" /\ ws.main \in {"recv", "write"} /\ ws.conn
           => /\ Len(ws.sent[k]) = ws.read[k]
              /\ ws.broke[k] \/ (~ws.alive /\ ws.read[k] = ws.printed[k])

\* Messages are received in the order they were typed.
IInbox ==
    /\ Len(ws.inbox) <= Len(ws.typed)
    /\ \A i \in DOMAIN ws.inbox : ws.inbox[i] = Taken + i
    /\ ws.main = "spawn" => Taken = 0

\* What the shell was given is of messages received, in order, and has a piece
\* of each: but for the one that is being written.
InOrder(q) == \A i, j \in DOMAIN q : i < j => Before(q[i], q[j])
IStored ==
    /\ ws.main = "write" => ws.kind # "pty" /\ ws.item = Taken /\ Taken # 0
    /\ InOrder(Stored)
    /\ \A p \in Elems(Stored) : p[1] <= Taken /\ (ws.main = "write" => p[1] < Taken)
    /\ ws.main \in {"recv", "write"} =>
         \A m \in 1..Taken : ws.typed[m] = "keys" /\ (ws.main = "write" => m # Taken) =>
           /\ <<m, 1>> \in Elems(Stored)
           /\ ws.kind # "pty" => <<m, 2>> \in Elems(Stored)

WebInv == ITasks /\ ISent /\ IInbox /\ IStored

LEMMA WebIs ==
    ASSUME WebTypeOK
    PROVE  /\ ws.kind \in Kinds /\ ws.alive \in BOOLEAN /\ ws.conn \in BOOLEAN /\ ws.open \in BOOLEAN
           /\ ws.main \in {"spawn", "recv", "write", "closed", "failed"} /\ ws.item \in 0..MaxTyped
           /\ \A k \in Streams :
                /\ ws.printed[k] \in 0..MaxPrints /\ ws.read[k] \in 0..MaxPrints /\ ws.read[k] <= ws.printed[k]
                /\ ws.reader[k] \in {"read", "send", "cancelled", "done"} /\ ws.sent[k] \in Seq(1..MaxPrints)
                /\ ws.broke[k] \in BOOLEAN
           /\ ws.typed \in Seq(Typeable) /\ ws.inbox \in Seq(1..MaxTyped)
           /\ ws.tty \in Seq(Pieces) /\ ws.got \in Seq(Pieces)
           /\ MaxPrints \in Nat /\ MaxTyped \in Nat /\ Room \in Nat
BY WebshellAssumption DEF WebTypeOK

\* Nothing but these fields changes.
TasksKept == /\ ws'.kind = ws.kind /\ ws'.alive = ws.alive /\ ws'.printed = ws.printed
             /\ ws'.read = ws.read /\ ws'.reader = ws.reader /\ ws'.sent = ws.sent
             /\ ws'.broke = ws.broke
WritesKept == ws'.kind = ws.kind /\ ws'.typed = ws.typed /\ ws'.tty = ws.tty /\ ws'.got = ws.got
SessionKept == ws'.main = ws.main /\ ws'.conn = ws.conn /\ ws'.item = ws.item

\* The session does not go back.
GoesOn == /\ ws'.main = "spawn" => ws.main = "spawn"
          /\ ws'.main \in {"recv", "write"} => ws.main \in {"recv", "write"}
          /\ ws.main = "closed" => ws'.main = "closed"
          /\ ws'.conn => ws.conn /\ ws'.main \notin {"closed", "failed"}

\* What a step on one stream does.
StreamDoes(k) ==
    /\ WritesKept /\ SessionKept /\ ws'.inbox = ws.inbox /\ ws'.alive = ws.alive
    /\ \A j \in Streams \ {k} : /\ ws'.printed[j] = ws.printed[j] /\ ws'.read[j] = ws.read[j]
                                /\ ws'.reader[j] = ws.reader[j] /\ ws'.sent[j] = ws.sent[j]
                                /\ ws'.broke[j] = ws.broke[j]

LEMMA PrintsDoes ==
    ASSUME WebTypeOK, NEW k \in Streams, Prints(k)
    PROVE  /\ WebTypeOK' /\ StreamDoes(k) /\ ws.alive /\ k \in Used(ws.kind)
           /\ ws'.read = ws.read /\ ws'.reader = ws.reader /\ ws'.sent = ws.sent /\ ws'.broke = ws.broke
<1> DEFINE f == [ws.printed EXCEPT ![k] = @ + 1]
<1>1. ws.alive /\ k \in Used(ws.kind) /\ ws.printed[k] < MaxPrints /\ ws' = [ws EXCEPT !.printed = f]
  BY DEF Prints
<1>2. f \in [Streams -> 0..MaxPrints] /\ (\A j \in Streams \ {k} : f[j] = ws.printed[j])
      /\ \A j \in Streams : ws.read[j] <= f[j]
  BY <1>1, WebIs DEF WebTypeOK
<1> HIDE DEF f
<1>3. WebTypeOK' /\ StreamDoes(k) /\ ws'.read = ws.read /\ ws'.reader = ws.reader /\ ws'.sent = ws.sent
      /\ ws'.broke = ws.broke
  BY <1>1, <1>2 DEF WebTypeOK, StreamDoes, WritesKept, SessionKept
<1>4. QED BY <1>1, <1>3

LEMMA TakesDoes ==
    ASSUME WebTypeOK, NEW k \in Streams, Takes(k)
    PROVE  /\ WebTypeOK' /\ StreamDoes(k) /\ ws'.printed = ws.printed /\ ws'.sent = ws.sent /\ ws'.broke = ws.broke
           /\ ws.reader[k] = "read" /\ ws'.reader[k] = "send" /\ ws'.read[k] = ws.read[k] + 1
<1> DEFINE f == [ws.read EXCEPT ![k] = @ + 1]
           g == [ws.reader EXCEPT ![k] = "send"]
<1>1. ws.reader[k] = "read" /\ ws.read[k] < ws.printed[k] /\ ws' = [ws EXCEPT !.read = f, !.reader = g]
  BY DEF Takes
<1>2. /\ f \in [Streams -> 0..MaxPrints] /\ g \in [Streams -> {"read", "send", "cancelled", "done"}]
      /\ \A j \in Streams : f[j] <= ws.printed[j]
      /\ \A j \in Streams \ {k} : f[j] = ws.read[j] /\ g[j] = ws.reader[j]
      /\ f[k] = ws.read[k] + 1 /\ g[k] = "send"
  BY <1>1, WebIs DEF WebTypeOK
<1> HIDE DEF f, g
<1>3. WebTypeOK' /\ StreamDoes(k) /\ ws'.printed = ws.printed /\ ws'.sent = ws.sent /\ ws'.read = f /\ ws'.reader = g
      /\ ws'.broke = ws.broke
  BY <1>1, <1>2 DEF WebTypeOK, StreamDoes, WritesKept, SessionKept
<1>4. QED BY <1>1, <1>2, <1>3

LEMMA SendsDoes ==
    ASSUME WebTypeOK, ISent, NEW k \in Streams, Sends(k)
    PROVE  /\ WebTypeOK' /\ StreamDoes(k) /\ ws'.printed = ws.printed /\ ws'.read = ws.read /\ ws'.broke = ws.broke
           /\ ws.reader[k] = "send" /\ ws.conn /\ ws'.reader[k] = "read"
           /\ ws'.sent[k] = Append(ws.sent[k], ws.read[k]) /\ ws.read[k] \in 1..MaxPrints
<1> DEFINE a == Append(ws.sent[k], ws.read[k])
           s == [ws.sent EXCEPT ![k] = a]
           g == [ws.reader EXCEPT ![k] = "read"]
<1>1. ws.reader[k] = "send" /\ ws.conn /\ ws' = [ws EXCEPT !.sent = s, !.reader = g] BY DEF Sends
<1>2. ws.read[k] \in 1..MaxPrints
  <2>1. ws.read[k] \in 0..MaxPrints /\ Len(ws.sent[k]) \in Nat BY WebIs, SeqIs
  <2>2. Len(ws.sent[k]) < ws.read[k] BY <1>1 DEF ISent
  <2>3. QED BY <2>1, <2>2, WebIs
<1>3. a \in Seq(1..MaxPrints) BY <1>2, WebIs, AppendIs
<1> HIDE DEF a
<1>4. /\ s \in [Streams -> Seq(1..MaxPrints)] /\ g \in [Streams -> {"read", "send", "cancelled", "done"}]
      /\ \A j \in Streams \ {k} : s[j] = ws.sent[j] /\ g[j] = ws.reader[j]
      /\ s[k] = a /\ g[k] = "read"
  BY <1>3 DEF WebTypeOK
<1> HIDE DEF s, g
<1>5. WebTypeOK' /\ StreamDoes(k) /\ ws'.printed = ws.printed /\ ws'.read = ws.read /\ ws'.sent = s /\ ws'.reader = g
      /\ ws'.broke = ws.broke
  BY <1>1, <1>4 DEF WebTypeOK, StreamDoes, WritesKept, SessionKept
<1>6. QED BY <1>1, <1>2, <1>4, <1>5 DEF a

\* A task that ends, or does not send what it has read.
Rests(k) ==
    \/ ws.reader[k] = "send" /\ ~ws.conn /\ ws'.reader[k] \in {"read", "done"}
    \/ ws.reader[k] = "read" /\ ~ws.alive /\ ws.read[k] = ws.printed[k] /\ ws'.reader[k] = "done"
    \/ ws.reader[k] = "cancelled" /\ ws'.reader[k] = "done"

LEMMA RestsDoes ==
    ASSUME WebTypeOK, NEW k \in Streams, SendFails(k) \/ ReadsEnd(k) \/ ThreadReturns(k)
    PROVE  /\ WebTypeOK' /\ StreamDoes(k) /\ ws'.printed = ws.printed /\ ws'.read = ws.read /\ ws'.sent = ws.sent
           /\ ws'.broke = ws.broke /\ Rests(k)
<1>1. \E next \in {"read", "done"} :
        /\ ws' = [ws EXCEPT !.reader = [ws.reader EXCEPT ![k] = next]]
        /\ \/ ws.reader[k] = "send" /\ ~ws.conn
           \/ ws.reader[k] = "read" /\ ~ws.alive /\ ws.read[k] = ws.printed[k] /\ next = "done"
           \/ ws.reader[k] = "cancelled" /\ next = "done"
  BY DEF SendFails, ReadsEnd, ThreadReturns, Drained
<1>2. PICK next \in {"read", "done"} :
        /\ ws' = [ws EXCEPT !.reader = [ws.reader EXCEPT ![k] = next]]
        /\ \/ ws.reader[k] = "send" /\ ~ws.conn
           \/ ws.reader[k] = "read" /\ ~ws.alive /\ ws.read[k] = ws.printed[k] /\ next = "done"
           \/ ws.reader[k] = "cancelled" /\ next = "done"
  BY <1>1
<1> DEFINE g == [ws.reader EXCEPT ![k] = next]
<1>3. g \in [Streams -> {"read", "send", "cancelled", "done"}] /\ (\A j \in Streams \ {k} : g[j] = ws.reader[j]) /\ g[k] = next
  BY DEF WebTypeOK
<1>4. ws' = [ws EXCEPT !.reader = g] BY <1>2
<1> HIDE DEF g
<1>5. WebTypeOK' /\ StreamDoes(k) /\ ws'.printed = ws.printed /\ ws'.read = ws.read /\ ws'.sent = ws.sent /\ ws'.reader = g
      /\ ws'.broke = ws.broke
  BY <1>3, <1>4 DEF WebTypeOK, StreamDoes, WritesKept, SessionKept
<1>6. QED BY <1>2, <1>3, <1>5 DEF Rests

LEMMA ReadFailsDoes ==
    ASSUME WebTypeOK, NEW k \in Streams, ReadFails(k)
    PROVE  /\ WebTypeOK' /\ StreamDoes(k) /\ ws'.printed = ws.printed /\ ws'.read = ws.read /\ ws'.sent = ws.sent
           /\ ws.reader[k] = "read" /\ ws'.reader[k] = "done" /\ ws'.broke[k]
<1> DEFINE g == [ws.reader EXCEPT ![k] = "done"]
           b == [ws.broke EXCEPT ![k] = TRUE]
<1>1. ws.reader[k] = "read" /\ ws' = [ws EXCEPT !.reader = g, !.broke = b] BY DEF ReadFails
<1>2. /\ g \in [Streams -> {"read", "send", "cancelled", "done"}] /\ b \in [Streams -> BOOLEAN]
      /\ \A j \in Streams \ {k} : g[j] = ws.reader[j] /\ b[j] = ws.broke[j]
      /\ g[k] = "done" /\ b[k]
  BY DEF WebTypeOK
<1> HIDE DEF g, b
<1>3. WebTypeOK' /\ StreamDoes(k) /\ ws'.printed = ws.printed /\ ws'.read = ws.read /\ ws'.sent = ws.sent
      /\ ws'.reader = g /\ ws'.broke = b
  BY <1>1, <1>2 DEF WebTypeOK, StreamDoes, WritesKept, SessionKept
<1>4. QED BY <1>1, <1>2, <1>3

-----------------------------------------------------------------------------
(* The steps keep the invariants of its tasks *)

LEMMA TasksGoOn == ASSUME WebTypeOK, ITasks, ISent, TasksKept, GoesOn PROVE ITasks' /\ ISent'
<1>1. ITasks' BY DEF ITasks, TasksKept, GoesOn
<1>2. ISent' BY DEF ISent, TasksKept, GoesOn
<1>3. QED BY <1>1, <1>2

LEMMA TasksOfStream ==
    ASSUME WebTypeOK, ITasks, ISent, NEW k \in Streams, Prints(k) \/ ReaderStep(k)
    PROVE  ITasks' /\ ISent'
<1>1. StreamDoes(k)
  BY PrintsDoes, TakesDoes, SendsDoes, RestsDoes, ReadFailsDoes DEF ReaderStep
<1>2. ws'.kind = ws.kind /\ ws'.main = ws.main /\ ws'.conn = ws.conn /\ ws'.alive = ws.alive
  BY <1>1 DEF StreamDoes, WritesKept, SessionKept
<1> DEFINE Sent(j) ==
             /\ \A i \in DOMAIN ws.sent[j] : ws.sent[j][i] = i
             /\ Len(ws.sent[j]) <= ws.read[j]
             /\ ws.reader[j] = "send" => Len(ws.sent[j]) < ws.read[j]
             /\ ws.conn /\ ws.reader[j] = "read" => Len(ws.sent[j]) = ws.read[j]
             /\ ws.conn /\ ws.reader[j] = "send" => Len(ws.sent[j]) + 1 = ws.read[j]
             /\ j \in Used(ws.kind) /\ ws.reader[j] = "done" /\ ws.main \in {"recv", "write"} /\ ws.conn
                  => /\ Len(ws.sent[j]) = ws.read[j]
                     /\ ws.broke[j] \/ (~ws.alive /\ ws.read[j] = ws.printed[j])
<1>3. \A j \in Streams : Sent(j) BY DEF ISent
<1>4. ASSUME NEW j \in Streams \ {k} PROVE Sent(j)'
  BY <1>1, <1>2, <1>3 DEF StreamDoes
<1>5. /\ ws.sent[k] \in Seq(1..MaxPrints) /\ Len(ws.sent[k]) \in Nat /\ DOMAIN ws.sent[k] = 1..Len(ws.sent[k])
      /\ ws.read[k] \in Nat /\ ws.printed[k] \in Nat
      /\ ws.reader[k] \in {"read", "send", "cancelled", "done"}
  BY WebIs, SeqIs
<1>6. ASSUME ws'.reader[k] # "cancelled" \/ ws'.reader[k] = ws.reader[k],
             k \notin Used(ws.kind) => ws'.reader[k] = "done",
             ws.main = "spawn" => ws'.reader[k] = "done" /\ ws'.read[k] = 0 /\ ws'.sent[k] = <<>>
      PROVE  ITasks'
  BY <1>1, <1>2, <1>6 DEF ITasks, StreamDoes
<1>7. ASSUME Sent(k)' PROVE ISent'
  <2>1. \A j \in Streams : Sent(j)' BY <1>4, <1>7
  <2>2. QED BY <2>1 DEF ISent
<1>8. k \in Used(ws.kind) \/ ws.reader[k] = "done" BY DEF ITasks
<1> DEFINE n == Len(ws.sent[k])
<1> HIDE DEF n
<1>9. CASE Prints(k)
  <2>1. /\ ws.alive /\ ws'.read = ws.read /\ ws'.reader = ws.reader /\ ws'.sent = ws.sent /\ ws'.broke = ws.broke
    BY <1>9, PrintsDoes
  <2>2. Sent(k)' BY <1>2, <1>3, <2>1
  <2>3. ITasks' BY <1>6, <2>1 DEF ITasks
  <2>4. QED BY <1>7, <2>2, <2>3
<1>10. CASE Takes(k)
  <2>1. /\ ws'.printed = ws.printed /\ ws'.sent = ws.sent
        /\ ws.reader[k] = "read" /\ ws'.reader[k] = "send" /\ ws'.read[k] = ws.read[k] + 1
    BY <1>10, TakesDoes
  <2>2. Sent(k)
    BY <1>3
  <2>3. /\ n \in Nat /\ n <= ws.read[k] /\ ws.read[k] \in Nat /\ (ws.conn => n = ws.read[k])
        /\ Len(ws'.sent[k]) = n
    BY <1>5, <2>1, <2>2 DEF n
  <2>4. n <= ws'.read[k] /\ n < ws'.read[k] /\ (ws.conn => n + 1 = ws'.read[k]) BY <2>1, <2>3
  <2>5. Sent(k)' BY <1>2, <2>1, <2>2, <2>3, <2>4
  <2>6. ws.main # "spawn" BY <2>1 DEF ITasks
  <2>7. ITasks' BY <1>6, <1>8, <2>1, <2>6
  <2>8. QED BY <1>7, <2>5, <2>7
<1>11. CASE Sends(k)
  <2>1. /\ ws'.printed = ws.printed /\ ws'.read = ws.read
        /\ ws.reader[k] = "send" /\ ws.conn /\ ws'.reader[k] = "read"
        /\ ws'.sent[k] = Append(ws.sent[k], ws.read[k]) /\ ws.read[k] \in 1..MaxPrints
    BY <1>11, SendsDoes
  <2>2. n + 1 = ws.read[k] /\ n \in Nat /\ \A i \in 1..n : ws.sent[k][i] = i BY <1>3, <1>5, <2>1 DEF n
  <2> DEFINE a == Append(ws.sent[k], ws.read[k])
  <2>3. a \in Seq(1..MaxPrints) /\ Len(a) = n + 1 /\ a[n + 1] = ws.read[k] /\ \A i \in 1..n : a[i] = ws.sent[k][i]
    BY <1>5, <2>1, AppendIs DEF n
  <2>4. DOMAIN a = 1..(n + 1) BY <2>3, SeqIs
  <2> HIDE DEF a
  <2>5. \A i \in DOMAIN a : a[i] = i
    <3>1. \A i \in 1..(n + 1) : i \in 1..n \/ i = n + 1 BY <2>2
    <3>2. QED BY <2>2, <2>3, <2>4, <3>1
  <2>6. ws'.sent[k] = a /\ Len(a) = ws.read[k] /\ ws.read[k] \in Nat BY <1>5, <2>1, <2>2, <2>3 DEF a
  <2>7. Sent(k)' BY <1>2, <2>1, <2>5, <2>6
  <2>8. ws.main # "spawn" BY <2>1 DEF ITasks
  <2>9. ITasks' BY <1>6, <1>8, <2>1, <2>8
  <2>10. QED BY <1>7, <2>7, <2>9
<1>12. CASE SendFails(k) \/ ReadsEnd(k) \/ ThreadReturns(k)
  <2>1. /\ ws'.printed = ws.printed /\ ws'.read = ws.read /\ ws'.sent = ws.sent /\ ws'.broke = ws.broke
        /\ Rests(k)
    BY <1>12, RestsDoes
  <2>2. ws.reader[k] = "cancelled" => ws.main = "closed" BY DEF ITasks
  <2>3. Sent(k)' BY <1>2, <1>3, <2>1, <2>2 DEF Rests
  <2>4. ITasks' BY <1>6, <1>8, <2>1 DEF Rests, ITasks
  <2>5. QED BY <1>7, <2>3, <2>4
<1>13. CASE ReadFails(k)
  <2>1. /\ ws'.printed = ws.printed /\ ws'.read = ws.read /\ ws'.sent = ws.sent
        /\ ws.reader[k] = "read" /\ ws'.reader[k] = "done" /\ ws'.broke[k]
    BY <1>13, ReadFailsDoes
  <2>2. Sent(k)' BY <1>2, <1>3, <2>1
  <2>3. ws.main # "spawn" BY <2>1 DEF ITasks
  <2>4. ITasks' BY <1>6, <2>1, <2>3
  <2>5. QED BY <1>7, <2>2, <2>4
<1>14. QED BY <1>9, <1>10, <1>11, <1>12, <1>13 DEF ReaderStep

-----------------------------------------------------------------------------
(* What the steps of its main loop do *)

\* Nothing but main, conn, open and item changes.
LEMMA EndsDoes ==
    ASSUME WebTypeOK, ClientLeaves \/ SpawnFails
    PROVE  WebTypeOK' /\ TasksKept /\ WritesKept /\ GoesOn /\ ws'.inbox = ws.inbox
           /\ ws'.main \in {ws.main, "failed"} /\ ws'.item = ws.item
<1> USE DEF WebTypeOK, TasksKept, WritesKept, GoesOn
<1>1. CASE ClientLeaves
  <2>1. ws.conn /\ ws' = [ws EXCEPT !.conn = FALSE] BY <1>1 DEF ClientLeaves
  <2>2. QED BY <2>1
<1>2. CASE SpawnFails
  <2>1. ws.main = "spawn" /\ ws' = [ws EXCEPT !.main = "failed", !.conn = FALSE] BY <1>2 DEF SpawnFails
  <2>2. QED BY <2>1
<1>3. QED BY <1>1, <1>2

LEMMA ExitsDoes ==
    ASSUME WebTypeOK, Exits
    PROVE  /\ WebTypeOK' /\ WritesKept /\ SessionKept /\ ws'.inbox = ws.inbox /\ ~ws'.alive
           /\ ws'.printed = ws.printed /\ ws'.read = ws.read /\ ws'.reader = ws.reader /\ ws'.sent = ws.sent
           /\ ws'.broke = ws.broke
BY DEF WebTypeOK, Exits, WritesKept, SessionKept

LEMMA SpawnsDoes ==
    ASSUME WebTypeOK, Spawns
    PROVE  /\ WebTypeOK' /\ WritesKept /\ ws'.inbox = ws.inbox /\ ws'.printed = ws.printed
           /\ ws'.read = ws.read /\ ws'.sent = ws.sent /\ ws.main = "spawn" /\ ws'.main = "recv"
           /\ ws'.conn = ws.conn
           /\ \A k \in Streams : ws'.reader[k] = IF k \in Used(ws.kind) THEN "read" ELSE "done"
<1> DEFINE g == [k \in Streams |-> IF k \in Used(ws.kind) THEN "read" ELSE "done"]
<1>1. ws.main = "spawn" /\ ws' = [ws EXCEPT !.main = "recv", !.alive = TRUE, !.reader = g] BY DEF Spawns
<1>2. /\ g \in [Streams -> {"read", "send", "cancelled", "done"}]
      /\ \A k \in Streams : g[k] = IF k \in Used(ws.kind) THEN "read" ELSE "done"
  OBVIOUS
<1> HIDE DEF g
<1>3. /\ WebTypeOK' /\ WritesKept /\ ws'.inbox = ws.inbox /\ ws'.printed = ws.printed
      /\ ws'.read = ws.read /\ ws'.sent = ws.sent /\ ws'.main = "recv" /\ ws'.reader = g /\ ws'.conn = ws.conn
  BY <1>1, <1>2 DEF WebTypeOK, WritesKept
<1>4. QED BY <1>1, <1>2, <1>3

LEMMA TypesDoes ==
    ASSUME WebTypeOK, NEW what \in Typeable, Types(what)
    PROVE  /\ WebTypeOK' /\ TasksKept /\ SessionKept /\ ws'.tty = ws.tty /\ ws'.got = ws.got /\ ws.conn
           /\ ws'.typed = Append(ws.typed, what) /\ ws'.inbox = Append(ws.inbox, Len(ws.typed) + 1)
           /\ Len(ws.typed) + 1 \in 1..MaxTyped
<1> DEFINE t == Append(ws.typed, what)
           n == Len(ws.typed)
           q == Append(ws.inbox, n + 1)
<1>1. ws.conn /\ n < MaxTyped /\ ws' = [ws EXCEPT !.typed = t, !.inbox = q] BY DEF Types
<1>2. n \in Nat /\ t \in Seq(Typeable) /\ Len(t) = n + 1 BY WebIs, SeqIs, AppendIs
<1> HIDE DEF t, n
<1>3. n + 1 \in 1..MaxTyped BY <1>1, <1>2, WebIs
<1>4. q \in Seq(1..MaxTyped) BY <1>3, WebIs, AppendIs
<1>5. Len(t) <= MaxTyped BY <1>2, <1>3
<1> HIDE DEF q
<1>6. /\ WebTypeOK' /\ TasksKept /\ SessionKept /\ ws'.tty = ws.tty /\ ws'.got = ws.got
      /\ ws'.typed = t /\ ws'.inbox = q
  BY <1>1, <1>2, <1>4, <1>5 DEF WebTypeOK, TasksKept, SessionKept
<1>7. QED BY <1>1, <1>3, <1>6 DEF t, n, q

LEMMA ReadsInputDoes ==
    ASSUME WebTypeOK, ReadsInput
    PROVE  /\ WebTypeOK' /\ TasksKept /\ SessionKept /\ ws'.typed = ws.typed /\ ws'.inbox = ws.inbox
           /\ ws.tty # <<>> /\ ws'.tty = Tail(ws.tty) /\ ws'.got = Append(ws.got, Head(ws.tty))
<1> DEFINE x == ws.tty
           t == Tail(x)
           g == Append(ws.got, Head(x))
<1>1. x # <<>> /\ ws' = [ws EXCEPT !.tty = t, !.got = g] BY DEF ReadsInput
<1>2. x \in Seq(Pieces) BY WebIs
<1>3. Head(x) \in Pieces /\ t \in Seq(Pieces) /\ Len(t) = Len(x) - 1 /\ Len(x) \in Nat BY <1>1, <1>2, TailIs, SeqIs
<1>4. g \in Seq(Pieces) BY <1>3, WebIs, AppendIs
<1>5. Len(x) <= Room /\ Room \in Nat BY WebIs DEF WebTypeOK
<1> HIDE DEF x, t, g
<1>6. Len(t) <= Room BY <1>3, <1>5
<1>7. /\ WebTypeOK' /\ TasksKept /\ SessionKept /\ ws'.typed = ws.typed /\ ws'.inbox = ws.inbox
      /\ ws'.tty = t /\ ws'.got = g
  BY <1>1, <1>3, <1>4, <1>6 DEF WebTypeOK, TasksKept, SessionKept
<1>8. QED BY <1>1, <1>7 DEF x, t, g

\* A message is taken off the inbox.
Receives == ws.main = "recv" /\ ws.inbox # <<>> /\ ws'.inbox = Tail(ws.inbox) /\ ws'.typed = ws.typed

LEMMA InboxTailIs == ASSUME WebTypeOK, ws.inbox # <<>> PROVE Tail(ws.inbox) \in Seq(1..MaxTyped) /\ Head(ws.inbox) \in 1..MaxTyped
BY WebIs, TailIs

\* A size is passed over.
LEMMA ResizesDoes ==
    ASSUME WebTypeOK, Resizes
    PROVE  WebTypeOK' /\ TasksKept /\ WritesKept /\ SessionKept /\ Receives /\ ws.typed[Head(ws.inbox)] # "keys"
<1> DEFINE q == Tail(ws.inbox)
<1>1. ws.main = "recv" /\ ws.inbox # <<>> /\ ws.typed[Head(ws.inbox)] # "keys" /\ ws' = [ws EXCEPT !.inbox = q]
  BY DEF Resizes, Arrives, Received
<1>2. q \in Seq(1..MaxTyped) BY <1>1, InboxTailIs
<1> HIDE DEF q
<1>3. WebTypeOK' /\ TasksKept /\ WritesKept /\ SessionKept /\ ws'.inbox = q
  BY <1>1, <1>2 DEF WebTypeOK, TasksKept, WritesKept, SessionKept
<1>4. QED BY <1>1, <1>3 DEF Receives, WritesKept, q

LEMMA StartsWriteDoes ==
    ASSUME WebTypeOK, StartsWrite
    PROVE  /\ WebTypeOK' /\ TasksKept /\ WritesKept /\ GoesOn /\ Receives
           /\ ws.kind # "pty" /\ ws'.main = "write" /\ ws'.item = Head(ws.inbox)
<1> DEFINE q == Tail(ws.inbox)
           h == Head(ws.inbox)
<1>1. ws.kind # "pty" /\ ws.main = "recv" /\ ws.inbox # <<>> /\ ws' = [ws EXCEPT !.inbox = q, !.main = "write", !.item = h]
  BY DEF StartsWrite, Arrives, Received
<1>2. q \in Seq(1..MaxTyped) /\ h \in 0..MaxTyped BY <1>1, InboxTailIs, WebIs
<1> HIDE DEF q, h
<1>3. WebTypeOK' /\ TasksKept /\ WritesKept /\ GoesOn /\ ws'.inbox = q /\ ws'.main = "write" /\ ws'.item = h
  BY <1>1, <1>2 DEF WebTypeOK, TasksKept, WritesKept, GoesOn
<1>4. QED BY <1>1, <1>3 DEF Receives, WritesKept, q, h

\* The end of the session, from a state in which it has received, or not, what ends it.
EndsSession == \/ ws.main \in {"recv", "write"} /\ ws' = Closed(ws)
               \/ ws.main = "recv" /\ ws.inbox # <<>> /\ ws' = Closed(Received)

LEMMA MainStepIs ==
    MainStep => \/ Spawns \/ SpawnFails \/ EndsSession
                \/ ~EndsSession /\ (Resizes \/ StartsWrite \/ WritesNow \/ EndsWrite)
BY DEF MainStep, EndsSession, WriteFails, ResizeFails, EndsAtEot, SeesDisconnect, Arrives

LEMMA EndsSessionDoes ==
    ASSUME WebTypeOK, ITasks, EndsSession
    PROVE  /\ WebTypeOK' /\ WritesKept /\ ws'.main = "closed" /\ ~ws'.conn
           /\ ws'.inbox = ws.inbox \/ Receives
           /\ ws'.alive = ws.alive /\ ws'.printed = ws.printed /\ ws'.read = ws.read /\ ws'.sent = ws.sent
           /\ \A k \in Streams : /\ ws'.reader[k] \in {"cancelled", "done"}
                                 /\ k \notin Used(ws.kind) => ws'.reader[k] = "done"
<1> DEFINE g == [k \in Streams |-> IF ws.kind # "pty" /\ ws.reader[k] = "read" THEN "cancelled" ELSE "done"]
           q == ws'.inbox
<1>1. /\ ws' = [ws EXCEPT !.inbox = q, !.main = "closed", !.conn = FALSE, !.open = FALSE, !.item = 0, !.reader = g]
      /\ q = ws.inbox \/ (ws.main = "recv" /\ ws.inbox # <<>> /\ q = Tail(ws.inbox))
  <2>1. CASE ws' = Closed(ws) BY <2>1 DEF Closed, WebTypeOK
  <2>2. CASE ws.main = "recv" /\ ws.inbox # <<>> /\ ws' = Closed(Received)
    BY <2>2 DEF Closed, Received, WebTypeOK
  <2>3. QED BY <2>1, <2>2 DEF EndsSession
<1>2. q \in Seq(1..MaxTyped) BY <1>1, InboxTailIs, WebIs
<1>3. /\ g \in [Streams -> {"read", "send", "cancelled", "done"}]
      /\ \A k \in Streams : g[k] \in {"cancelled", "done"} /\ (k \notin Used(ws.kind) => g[k] = "done")
  BY DEF ITasks
<1> HIDE DEF g, q
<1>4. 0 \in 0..MaxTyped BY WebIs
<1>5. /\ WritesKept /\ ws'.main = "closed" /\ ~ws'.conn
      /\ ws'.alive = ws.alive /\ ws'.printed = ws.printed /\ ws'.read = ws.read /\ ws'.sent = ws.sent
      /\ ws'.reader = g
  BY <1>1 DEF WebTypeOK, WritesKept
<1>6. WebTypeOK' BY <1>1, <1>2, <1>3, <1>4 DEF WebTypeOK
<1>7. QED BY <1>1, <1>3, <1>5, <1>6 DEF Receives, WritesKept, q

\* The pieces of a message, or the first of them.
LEMMA PiecesIs ==
    ASSUME NEW m \in 1..MaxTyped, NEW n \in 0..2
    PROVE  /\ PiecesOf(m) \in Seq(Pieces) /\ Len(PiecesOf(m)) = 2 /\ SubSeq(PiecesOf(m), 1, 2) = PiecesOf(m)
           /\ SubSeq(PiecesOf(m), 1, n) \in Seq(Pieces) /\ Len(SubSeq(PiecesOf(m), 1, n)) = n
           /\ \A i \in 1..n : SubSeq(PiecesOf(m), 1, n)[i] = <<m, i>>
<1> DEFINE q == PiecesOf(m)
           u == SubSeq(q, 1, n)
<1>1. <<m, 1>> \in Pieces /\ <<m, 2>> \in Pieces BY DEF Pieces
<1>2. q \in Seq(Pieces) /\ Len(q) = 2 /\ q[1] = <<m, 1>> /\ q[2] = <<m, 2>> BY <1>1 DEF PiecesOf
<1> HIDE DEF q
<1>3. SubSeq(q, 1, 2) = q BY <1>2, SubSeqFull
<1>4. /\ u \in Seq(Pieces) /\ Len(u) = (IF 1 <= n THEN n - 1 + 1 ELSE 0)
      /\ \A i \in 1..(n - 1 + 1) : u[i] = q[1 + i - 1]
  <2>1. \A i \in 1..n : q[i] \in Pieces
    <3>1. \A i \in 1..n : i = 1 \/ i = 2 OBVIOUS
    <3>2. QED BY <1>1, <1>2, <3>1
  <2>2. 1 \in Int /\ n \in Int OBVIOUS
  <2>3. QED BY <2>1, <2>2, SubSeqProperties
<1> HIDE DEF u
<1>5. n - 1 + 1 = n /\ (IF 1 <= n THEN n - 1 + 1 ELSE 0) = n OBVIOUS
<1>6. Len(u) = n /\ \A i \in 1..n : u[i] = <<m, i>>
  <2>1. Len(u) = n BY <1>4, <1>5
  <2>2. ASSUME NEW i \in 1..n PROVE u[i] = <<m, i>>
    <3>1. 1 + i - 1 = i /\ (i = 1 \/ i = 2) OBVIOUS
    <3>2. u[i] = q[i] BY <1>4, <1>5, <3>1
    <3>3. QED BY <1>2, <3>1, <3>2
  <2>3. QED BY <2>1, <2>2
<1>7. QED BY <1>2, <1>3, <1>4, <1>6 DEF q, u

\* The shell is given n pieces of message m.
Gives(m, n) == /\ ws'.tty = ws.tty \o SubSeq(PiecesOf(m), 1, n) /\ ws'.got = ws.got
               /\ ws'.main = "recv" /\ ws'.conn = ws.conn /\ TasksKept /\ ws'.typed = ws.typed

LEMMA WritesNowDoes ==
    ASSUME WebTypeOK, WritesNow, ~EndsSession
    PROVE  /\ WebTypeOK' /\ Receives /\ ws.kind = "pty"
           /\ \E n \in 1..2 : Gives(Head(ws.inbox), n)
<1> DEFINE x == ws.tty
           h == Head(ws.inbox)
           q == Tail(ws.inbox)
           r == Room - Len(x)
           n == IF r < 2 THEN r ELSE 2
           p == SubSeq(PiecesOf(h), 1, n)
           t == x \o p
<1>1. ws.kind = "pty" /\ ws.main = "recv" /\ ws.inbox # <<>> BY DEF WritesNow, Arrives
<1>2. n > 0 /\ ws' = [ws EXCEPT !.inbox = q, !.tty = t]
  BY <1>1 DEF WritesNow, EndsSession, Received
<1>3. h \in 1..MaxTyped /\ q \in Seq(1..MaxTyped) BY <1>1, InboxTailIs
<1>4. Len(x) \in Nat /\ Len(x) <= Room /\ Room \in Nat BY WebIs, SeqIs DEF WebTypeOK
<1> HIDE DEF h, q, p, x
<1>5. n \in 1..2 /\ Len(x) + n <= Room BY <1>2, <1>4
<1>6. p \in Seq(Pieces) /\ Len(p) = n
  <2> HIDE DEF n
  <2>1. n \in 0..2 BY <1>5
  <2>2. QED BY <1>3, <2>1, PiecesIs DEF p
<1> HIDE DEF n, r
<1>7. t \in Seq(Pieces) /\ Len(t) = Len(x) + n BY <1>6, WebIs, ConcatIs DEF x
<1>8. Len(t) <= Room BY <1>5, <1>7
<1> HIDE DEF t
<1>9. /\ WebTypeOK' /\ TasksKept /\ ws'.inbox = q /\ ws'.tty = t /\ ws'.got = ws.got /\ ws'.typed = ws.typed
      /\ ws'.main = "recv" /\ ws'.conn = ws.conn
  BY <1>1, <1>2, <1>3, <1>7, <1>8 DEF WebTypeOK, TasksKept
<1>10. Gives(h, n) BY <1>9 DEF Gives, t, p, x
<1>11. QED BY <1>1, <1>5, <1>9, <1>10 DEF Receives, q, h

LEMMA EndsWriteDoes ==
    ASSUME WebTypeOK, IStored, EndsWrite
    PROVE  /\ WebTypeOK' /\ ws'.inbox = ws.inbox /\ ws.main = "write"
           /\ ws.item \in 1..MaxTyped /\ Gives(ws.item, 2)
<1> DEFINE x == ws.tty
           p == PiecesOf(ws.item)
           t == x \o p
<1>1. ws.main = "write" /\ Len(x) + 2 <= Room /\ ws' = [ws EXCEPT !.main = "recv", !.item = 0, !.tty = t]
  BY DEF EndsWrite
<1>2. ws.item \in 1..MaxTyped
  <2>1. ws.item # 0 BY <1>1 DEF IStored
  <2>2. QED BY <2>1, WebIs
<1>3. p \in Seq(Pieces) /\ Len(p) = 2 /\ SubSeq(p, 1, 2) = p
  <2>1. 2 \in 0..2 OBVIOUS
  <2>2. QED BY <1>2, <2>1, PiecesIs
<1>4. x \in Seq(Pieces) BY WebIs
<1> HIDE DEF p, x
<1>5. t \in Seq(Pieces) /\ Len(t) = Len(x) + 2 BY <1>3, <1>4, ConcatIs
<1> HIDE DEF t
<1>6. Len(t) <= Room BY <1>1, <1>5
<1>7. 0 \in 0..MaxTyped BY WebIs
<1>8. /\ WebTypeOK' /\ TasksKept /\ ws'.inbox = ws.inbox /\ ws'.tty = t /\ ws'.got = ws.got /\ ws'.typed = ws.typed
      /\ ws'.main = "recv" /\ ws'.conn = ws.conn
  BY <1>1, <1>5, <1>6, <1>7 DEF WebTypeOK, TasksKept
<1>9. Gives(ws.item, 2) BY <1>3, <1>8 DEF Gives, t, p, x
<1>10. QED BY <1>1, <1>2, <1>8, <1>9

-----------------------------------------------------------------------------
(* The steps keep the order of what is typed *)

LEMMA TakenIs ==
    ASSUME WebTypeOK, IInbox
    PROVE  /\ Taken \in Nat /\ Taken <= Len(ws.typed) /\ Taken + Len(ws.inbox) = Len(ws.typed)
           /\ Len(ws.typed) \in Nat /\ Len(ws.inbox) \in Nat
           /\ DOMAIN ws.typed = 1..Len(ws.typed) /\ DOMAIN ws.inbox = 1..Len(ws.inbox)
<1> DEFINE a == Len(ws.typed)
           b == Len(ws.inbox)
<1>1. a \in Nat /\ b \in Nat /\ DOMAIN ws.typed = 1..a /\ DOMAIN ws.inbox = 1..b BY WebIs, SeqIs
<1>2. b <= a /\ Taken = a - b BY DEF IInbox, Taken
<1> HIDE DEF a, b
<1>3. Taken \in Nat /\ Taken <= a /\ Taken + b = a BY <1>1, <1>2
<1>4. QED BY <1>1, <1>3 DEF a, b

LEMMA InboxSame ==
    ASSUME IInbox, ws'.inbox = ws.inbox, ws'.typed = ws.typed, ws'.main = "spawn" => ws.main = "spawn"
    PROVE  IInbox' /\ Taken' = Taken
<1>1. Taken' = Taken BY DEF Taken
<1>2. QED BY <1>1 DEF IInbox

LEMMA InboxTyped ==
    ASSUME WebTypeOK, IInbox, NEW what \in Typeable, Types(what)
    PROVE  IInbox' /\ Taken' = Taken /\ \A m \in 1..Taken : ws'.typed[m] = ws.typed[m]
<1> DEFINE a == Len(ws.typed)
           b == Len(ws.inbox)
           t == Append(ws.typed, what)
           q == Append(ws.inbox, a + 1)
<1>1. /\ SessionKept /\ ws'.typed = t /\ ws'.inbox = q /\ a + 1 \in 1..MaxTyped
  BY TypesDoes
<1>2. /\ Taken \in Nat /\ Taken <= a /\ Taken + b = a /\ a \in Nat /\ b \in Nat
      /\ \A i \in 1..b : ws.inbox[i] = Taken + i
  BY TakenIs DEF IInbox
<1>3. /\ Len(t) = a + 1 /\ \A m \in 1..a : t[m] = ws.typed[m] BY WebIs, AppendIs
<1>4. /\ q \in Seq(1..MaxTyped) /\ Len(q) = b + 1 /\ q[b + 1] = a + 1 /\ \A i \in 1..b : q[i] = ws.inbox[i]
  BY <1>1, WebIs, AppendIs
<1>5. DOMAIN q = 1..(b + 1) BY <1>4, SeqIs
<1>6. Taken' = Len(t) - Len(q) BY <1>1 DEF Taken
<1> HIDE DEF a, b, t, q
<1>7. Taken' = Taken BY <1>2, <1>3, <1>4, <1>6
<1>8. \A i \in 1..(b + 1) : q[i] = Taken + i
  <2>1. \A i \in 1..(b + 1) : i \in 1..b \/ i = b + 1 BY <1>2
  <2>2. a + 1 = Taken + (b + 1) BY <1>2
  <2>3. QED BY <1>2, <1>4, <2>1, <2>2
<1>9. \A m \in 1..Taken : t[m] = ws.typed[m]
  <2>1. \A m \in 1..Taken : m \in 1..a BY <1>2
  <2>2. QED BY <1>3, <2>1
<1>10. b + 1 <= a + 1 BY <1>2
<1>11. IInbox' BY <1>1, <1>3, <1>4, <1>5, <1>7, <1>8, <1>10 DEF IInbox, SessionKept
<1>12. QED BY <1>1, <1>7, <1>9, <1>11

LEMMA InboxReceived ==
    ASSUME WebTypeOK, IInbox, Receives, ws'.main # "spawn"
    PROVE  IInbox' /\ Taken' = Taken + 1 /\ Head(ws.inbox) = Taken + 1
<1> DEFINE x == ws.inbox
           a == Len(ws.typed)
           b == Len(x)
           t == Tail(x)
           c == Len(t)
<1>1. x # <<>> /\ x \in Seq(1..MaxTyped) /\ ws'.inbox = t /\ ws'.typed = ws.typed BY WebIs DEF Receives
<1>2. /\ Taken \in Nat /\ Taken + b = a /\ a \in Nat /\ b \in Nat
      /\ \A i \in DOMAIN x : x[i] = Taken + i
  BY TakenIs DEF IInbox
<1>3. Taken' = a - c BY <1>1 DEF Taken
<1> HIDE DEF x
<1>4. /\ Head(x) = x[1] /\ 1 \in DOMAIN x
      /\ t \in Seq(1..MaxTyped) /\ c = b - 1
      /\ \A i \in 1..c : i + 1 \in DOMAIN x /\ t[i] = x[i + 1]
  BY <1>1, TailIs
<1>5. c \in Nat /\ DOMAIN t = 1..c BY <1>4, SeqIs
<1> HIDE DEF a, b, t, c
<1>6. Taken' = Taken + 1 /\ c <= a BY <1>2, <1>3, <1>4, <1>5
<1>7. \A i \in 1..c : t[i] = (Taken + 1) + i
  <2>1. \A i \in 1..c : t[i] = Taken + (i + 1) BY <1>2, <1>4
  <2>2. \A i \in 1..c : Taken + (i + 1) = (Taken + 1) + i BY <1>2, <1>5
  <2>3. QED BY <2>1, <2>2
<1>8. IInbox' BY <1>1, <1>5, <1>6, <1>7 DEF IInbox, a, c
<1>9. Head(x) = Taken + 1 BY <1>2, <1>4
<1>10. QED BY <1>6, <1>8, <1>9 DEF x

LEMMA StoredIs == ASSUME WebTypeOK PROVE Stored \in Seq(Pieces)
BY WebIs, ConcatIs DEF Stored

\* What the shell was given stays, and so does what is written to it.
LEMMA StoredKept ==
    ASSUME IStored, Stored' = Stored, ws'.kind = ws.kind, Taken' = Taken,
           \A m \in 1..Taken : ws'.typed[m] = ws.typed[m],
           ws'.main \in {"recv", "write"} => ws'.main = ws.main /\ ws'.item = ws.item
    PROVE  IStored'
BY DEF IStored

\* A message is received that is not to be written, or not yet.
LEMMA StoredReceived ==
    ASSUME WebTypeOK, IInbox, IStored, Receives, Stored' = Stored, ws'.kind = ws.kind, Taken' = Taken + 1,
           \/ ws'.main = "recv" /\ ws.typed[Taken + 1] # "keys"
           \/ ws'.main = "write" /\ ws.kind # "pty" /\ ws'.item = Taken + 1
           \/ ws'.main = "closed"
    PROVE  IStored'
<1>1. ws.main = "recv" /\ ws'.typed = ws.typed BY DEF Receives
<1>2. Taken \in Nat BY TakenIs
<1>3. /\ InOrder(Stored)
      /\ \A p \in Elems(Stored) : p[1] <= Taken
      /\ \A m \in 1..Taken : ws.typed[m] = "keys" =>
           <<m, 1>> \in Elems(Stored) /\ (ws.kind # "pty" => <<m, 2>> \in Elems(Stored))
  BY <1>1 DEF IStored
<1>4. \A p \in Elems(Stored) : p[1] < Taken + 1
  <2> SUFFICES ASSUME NEW p \in Elems(Stored) PROVE p[1] < Taken + 1
    OBVIOUS
  <2>1. p \in Pieces BY StoredIs, SeqIs
  <2>2. p[1] \in Nat /\ p[1] <= Taken BY <1>3, <2>1 DEF Pieces
  <2>3. QED BY <1>2, <2>2
<1>5. \A m \in 1..(Taken + 1) : m \in 1..Taken \/ m = Taken + 1 BY <1>2
<1>6. \A p \in Elems(Stored) : p[1] <= Taken + 1
  <2> SUFFICES ASSUME NEW p \in Elems(Stored) PROVE p[1] <= Taken + 1
    OBVIOUS
  <2>1. p \in Pieces BY StoredIs, SeqIs
  <2>2. p[1] \in Nat BY <2>1 DEF Pieces
  <2>3. QED BY <1>2, <1>4, <2>2
<1>7. Taken + 1 # 0 BY <1>2
<1>8. QED BY <1>1, <1>3, <1>4, <1>5, <1>6, <1>7 DEF IStored

LEMMA InOrderConcat ==
    ASSUME NEW p \in Seq(Pieces), NEW q \in Seq(Pieces), InOrder(p), InOrder(q),
           \A a \in Elems(p), b \in Elems(q) : Before(a, b)
    PROVE  InOrder(p \o q) /\ p \o q \in Seq(Pieces) /\ Elems(p \o q) = Elems(p) \cup Elems(q)
<1> DEFINE c == p \o q
           m == Len(p)
           n == Len(q)
<1>1. /\ c \in Seq(Pieces) /\ Len(c) = m + n /\ Elems(c) = Elems(p) \cup Elems(q)
      /\ (\A i \in 1..m : c[i] = p[i]) /\ (\A i \in 1..n : c[m + i] = q[i])
  BY ConcatIs
<1>2. m \in Nat /\ DOMAIN p = 1..m /\ n \in Nat /\ DOMAIN q = 1..n BY SeqIs
<1>3. DOMAIN c = 1..(m + n) BY <1>1, SeqIs
<1>4. /\ \A i, j \in 1..m : i < j => Before(p[i], p[j])
      /\ \A i, j \in 1..n : i < j => Before(q[i], q[j])
      /\ \A i \in 1..m, j \in 1..n : Before(p[i], q[j])
  BY <1>2 DEF InOrder, Elems
<1> HIDE DEF c, m, n
<1>5. ASSUME NEW i \in 1..(m + n), NEW j \in 1..(m + n), i < j PROVE Before(c[i], c[j])
  <2>1. CASE j \in 1..m
    <3>1. i \in 1..m BY <1>2, <1>5, <2>1
    <3>2. QED BY <1>1, <1>4, <1>5, <2>1, <3>1
  <2>2. CASE j \notin 1..m
    <3> DEFINE b == j - m
    <3>1. b \in 1..n /\ m + b = j BY <1>2, <2>2
    <3> HIDE DEF b
    <3>2. c[j] = q[b] BY <1>1, <3>1
    <3>3. CASE i \in 1..m BY <1>1, <1>4, <1>5, <3>1, <3>2, <3>3
    <3>4. CASE i \notin 1..m
      <4> DEFINE a == i - m
      <4>1. a \in 1..n /\ m + a = i /\ a < b BY <1>2, <1>5, <3>1, <3>4
      <4> HIDE DEF a
      <4>2. c[i] = q[a] BY <1>1, <4>1
      <4>3. QED BY <1>4, <1>5, <3>1, <3>2, <4>1, <4>2
    <3>5. QED BY <3>3, <3>4
  <2>3. QED BY <2>1, <2>2
<1>6. InOrder(c) BY <1>3, <1>5 DEF InOrder
<1>7. QED BY <1>1, <1>6 DEF c

\* Pieces of a message go behind those of earlier ones.
LEMMA PiecesGoBehind ==
    ASSUME NEW q \in Seq(Pieces), InOrder(q), NEW m \in 1..MaxTyped, NEW n \in 1..2,
           \A p \in Elems(q) : p[1] < m
    PROVE  LET u == SubSeq(PiecesOf(m), 1, n)
           IN  /\ u \in Seq(Pieces) /\ q \o u \in Seq(Pieces) /\ InOrder(q \o u)
               /\ Elems(q \o u) = Elems(q) \cup {<<m, i>> : i \in 1..n}
<1> DEFINE u == SubSeq(PiecesOf(m), 1, n)
<1>1. n \in 0..2 OBVIOUS
<1>2. u \in Seq(Pieces) /\ Len(u) = n /\ \A i \in 1..n : u[i] = <<m, i>> BY <1>1, PiecesIs
<1>3. DOMAIN u = 1..n BY <1>2, SeqIs
<1> HIDE DEF u
<1>4. Elems(u) = {<<m, i>> : i \in 1..n} BY <1>2, <1>3 DEF Elems
<1>5. InOrder(u)
  <2>1. \A i, j \in 1..n : i < j => Before(<<m, i>>, <<m, j>>) BY DEF Before
  <2>2. QED BY <1>2, <1>3, <2>1 DEF InOrder
<1>6. \A a \in Elems(q), b \in Elems(u) : Before(a, b)
  <2>1. \A b \in Elems(u) : b[1] = m BY <1>4
  <2>2. QED BY <2>1 DEF Before
<1>7. /\ InOrder(q \o u) /\ q \o u \in Seq(Pieces) /\ Elems(q \o u) = Elems(q) \cup Elems(u)
  BY <1>2, <1>5, <1>6, InOrderConcat
<1>8. QED BY <1>2, <1>4, <1>7 DEF u

LEMMA ConcatMoves ==
    /\ \A S : \A p, q, r \in Seq(S) : (p \o q) \o r = p \o (q \o r)
    /\ \A S : \A p, q \in Seq(S) : q # <<>> => Append(p, Head(q)) \o Tail(q) = p \o q
<1>1. ASSUME NEW S, NEW p \in Seq(S), NEW q \in Seq(S), NEW r \in Seq(S) PROVE (p \o q) \o r = p \o (q \o r)
  BY ConcatAssociative
<1>2. ASSUME NEW S, NEW p \in Seq(S), NEW q \in Seq(S), q # <<>>
      PROVE  Append(p, Head(q)) \o Tail(q) = p \o q
  <2>1. Head(q) \in S /\ Tail(q) \in Seq(S) BY <1>2, TailIs
  <2> DEFINE h == Head(q)
             t == Tail(q)
             z == <<h>>
  <2>2. z \in Seq(S) BY <2>1
  <2>3. Append(p, h) = p \o z BY <2>1, AppendIsConcat
  <2>4. z \o t = q
    <3>1. z \o t \in Seq(S) /\ Len(z \o t) = 1 + Len(t)
          /\ (z \o t)[1] = h /\ \A i \in 1..Len(t) : (z \o t)[1 + i] = t[i]
      <4> HIDE DEF t, h
      <4>1. Len(z) = 1 /\ z[1] = h /\ 1 \in 1..1 OBVIOUS
      <4> HIDE DEF z
      <4>2. QED BY <2>1, <2>2, <4>1, ConcatIs DEF t, h
    <3> DEFINE c == z \o t
               n == Len(q)
               k == Len(t)
    <3>2. q[1] = h /\ n \in Nat /\ k \in Nat /\ k = n - 1 /\ \A i \in 1..k : t[i] = q[i + 1]
      BY <1>2, TailIs, SeqIs
    <3>3. c \in Seq(S) /\ Len(c) = 1 + k /\ c[1] = h /\ \A i \in 1..k : c[1 + i] = t[i] BY <3>1
    <3> HIDE DEF c, n, k, h, t
    <3>4. ASSUME NEW i \in 1..n PROVE c[i] = q[i]
      <4>1. CASE i = 1 BY <3>2, <3>3, <4>1
      <4>2. CASE i # 1
        <5> DEFINE j == i - 1
        <5>1. j \in 1..k /\ 1 + j = i /\ j + 1 = i BY <3>2, <4>2
        <5> HIDE DEF j
        <5>2. c[i] = t[j] BY <3>3, <5>1
        <5>3. t[j] = q[i] BY <3>2, <5>1
        <5>4. QED BY <5>2, <5>3
      <4>3. QED BY <4>1, <4>2
    <3>5. Len(c) = n BY <3>2, <3>3
    <3>6. c = q BY <3>3, <3>4, <3>5, SeqEqual DEF n
    <3>7. QED BY <3>6 DEF c
  <2> HIDE DEF h, t, z
  <2>5. (p \o z) \o t = p \o (z \o t) BY <1>1, <2>1, <2>2 DEF t
  <2>6. Append(p, h) \o t = p \o q BY <2>3, <2>4, <2>5
  <2>7. QED BY <2>6 DEF h, t
<1>3. QED BY <1>1, <1>2

LEMMA StoredGrows ==
    ASSUME WebTypeOK, NEW m \in 1..MaxTyped, NEW n \in 1..2, Gives(m, n),
           InOrder(Stored), \A p \in Elems(Stored) : p[1] < m,
           Taken' = m, ws.kind # "pty" => n = 2,
           \A k \in 1..m : k # m /\ ws.typed[k] = "keys" =>
              <<k, 1>> \in Elems(Stored) /\ (ws.kind # "pty" => <<k, 2>> \in Elems(Stored))
    PROVE  IStored'
<1> DEFINE q == Stored
           u == SubSeq(PiecesOf(m), 1, n)
<1>1. q \in Seq(Pieces) BY StoredIs
<1>2. /\ u \in Seq(Pieces) /\ InOrder(q \o u)
      /\ Elems(q \o u) = Elems(q) \cup {<<m, i>> : i \in 1..n}
  BY <1>1, PiecesGoBehind
<1>3. Stored' = q \o u
  <2>1. Stored' = ws.got \o (ws.tty \o u) BY DEF Stored, Gives
  <2> DEFINE g == ws.got
             x == ws.tty
  <2>2. g \in Seq(Pieces) /\ x \in Seq(Pieces) BY WebIs
  <2>3. Stored = g \o x /\ Stored' = g \o (x \o u) BY <2>1 DEF Stored
  <2> HIDE DEF g, x, u
  <2>4. (g \o x) \o u = g \o (x \o u) BY <1>2, <2>2, ConcatMoves
  <2>5. QED BY <2>3, <2>4
<1>4. ws'.main = "recv" /\ ws'.kind = ws.kind /\ ws'.typed = ws.typed BY DEF Gives, TasksKept
<1> HIDE DEF u
<1>5. \A p \in Elems(q \o u) : p[1] <= m
  <2>1. ASSUME NEW p \in Elems(q) PROVE p[1] <= m
    <3>1. p \in Pieces BY <1>1, <2>1, SeqIs
    <3>2. p[1] \in Nat /\ p[1] < m BY <2>1, <3>1 DEF Pieces
    <3>3. QED BY <3>2
  <2>2. \A i \in 1..n : <<m, i>>[1] <= m OBVIOUS
  <2>3. QED BY <1>2, <2>1, <2>2
<1>6. <<m, 1>> \in Elems(q \o u) /\ (ws.kind # "pty" => <<m, 2>> \in Elems(q \o u))
  <2>1. 1 \in 1..n /\ (n = 2 => 2 \in 1..n) OBVIOUS
  <2>2. QED BY <1>2, <2>1
<1>7. \A k \in 1..m : ws.typed[k] = "keys" =>
        <<k, 1>> \in Elems(q \o u) /\ (ws.kind # "pty" => <<k, 2>> \in Elems(q \o u))
  BY <1>2, <1>6
<1>8. QED BY <1>2, <1>3, <1>4, <1>5, <1>7 DEF IStored

-----------------------------------------------------------------------------
(* The invariant of the administrator's session *)

LEMMA WebStarts == WebInit => WebTypeOK /\ WebInv
<1> SUFFICES ASSUME WebInit PROVE WebTypeOK /\ WebInv
  OBVIOUS
<1> DEFINE z == <<>>
           zero == [k \in Streams |-> 0]
           done == [k \in Streams |-> "done"]
           none == [k \in Streams |-> z]
           well == [k \in Streams |-> FALSE]
<1>1. PICK kind \in Kinds :
        ws = [kind |-> kind, alive |-> FALSE, printed |-> zero, read |-> zero, reader |-> done, sent |-> none,
              broke |-> well, typed |-> z, inbox |-> z, tty |-> z, got |-> z,
              main |-> "spawn", item |-> 0, conn |-> TRUE, open |-> kind = "pty"]
  BY DEF WebInit
<1>2. (\A S : z \in Seq(S)) /\ Len(z) = 0 /\ Elems(z) = {} /\ DOMAIN z = {} BY EmptyIs
<1> HIDE DEF z
<1>3. /\ zero \in [Streams -> 0..MaxPrints] /\ done \in [Streams -> {"read", "send", "cancelled", "done"}]
      /\ none \in [Streams -> Seq(1..MaxPrints)] /\ well \in [Streams -> BOOLEAN]
      /\ \A k \in Streams : zero[k] = 0 /\ done[k] = "done" /\ none[k] = z
  BY <1>2, WebshellAssumption
<1> HIDE DEF zero, done, none, well
<1>4. /\ ws.kind = kind /\ ws.alive = FALSE /\ ws.printed = zero /\ ws.read = zero /\ ws.reader = done
      /\ ws.sent = none /\ ws.typed = z /\ ws.inbox = z /\ ws.tty = z /\ ws.got = z
      /\ ws.main = "spawn" /\ ws.item = 0 /\ ws.conn = TRUE
  BY <1>1
<1>5. WebTypeOK
  <2>1. Len(z) <= MaxTyped /\ Len(z) <= Room /\ 0 \in 0..MaxTyped /\ \A k \in Streams : zero[k] <= zero[k]
    BY <1>2, <1>3, WebshellAssumption
  <2>2. QED BY <1>1, <1>2, <1>3, <2>1 DEF WebTypeOK
<1>6. ITasks BY <1>3, <1>4 DEF ITasks, z
<1>7. ISent BY <1>2, <1>3, <1>4 DEF ISent
<1>8. Taken = 0 BY <1>2, <1>4 DEF Taken
<1>9. IInbox BY <1>2, <1>4, <1>8 DEF IInbox
<1>10. Stored = z
  <2>1. z \o z = z BY EmptyIs DEF z
  <2>2. QED BY <1>4, <2>1 DEF Stored
<1>11. IStored BY <1>2, <1>4, <1>8, <1>10 DEF IStored, InOrder
<1>12. QED BY <1>5, <1>6, <1>7, <1>9, <1>11 DEF WebInv

LEMMA WebOtherSteps ==
    ASSUME WebTypeOK, WebInv,
           \/ \E what \in Typeable : Types(what)
           \/ ClientLeaves \/ SpawnFails \/ ReadsInput \/ Exits \/ Spawns
    PROVE  WebTypeOK' /\ WebInv'
<1>1. ITasks /\ ISent /\ IInbox /\ IStored BY DEF WebInv
<1>2. SessionKept => GoesOn BY <1>1 DEF SessionKept, GoesOn, ITasks
<1>3. WritesKept => Stored' = Stored BY DEF WritesKept, Stored
<1>4. CASE \E what \in Typeable : Types(what)
  <2>1. PICK what \in Typeable : Types(what) BY <1>4
  <2>2. /\ WebTypeOK' /\ TasksKept /\ SessionKept /\ ws'.tty = ws.tty /\ ws'.got = ws.got BY <2>1, TypesDoes
  <2>3. ITasks' /\ ISent' BY <1>1, <1>2, <2>2, TasksGoOn
  <2>4. IInbox' /\ Taken' = Taken /\ \A m \in 1..Taken : ws'.typed[m] = ws.typed[m] BY <1>1, <2>1, InboxTyped
  <2>5. Stored' = Stored BY <2>2 DEF Stored
  <2>6. IStored' BY <1>1, <2>2, <2>4, <2>5, StoredKept DEF TasksKept, SessionKept
  <2>7. QED BY <2>2, <2>3, <2>4, <2>6 DEF WebInv
<1>5. CASE ClientLeaves \/ SpawnFails
  <2>1. WebTypeOK' /\ TasksKept /\ WritesKept /\ GoesOn /\ ws'.inbox = ws.inbox
        /\ ws'.main \in {ws.main, "failed"} /\ ws'.item = ws.item
    BY <1>5, EndsDoes
  <2>2. ITasks' /\ ISent' BY <1>1, <2>1, TasksGoOn
  <2>3. IInbox' /\ Taken' = Taken BY <1>1, <2>1, InboxSame DEF WritesKept, GoesOn
  <2>4. IStored' BY <1>1, <1>3, <2>1, <2>3, StoredKept DEF WritesKept
  <2>5. QED BY <2>1, <2>2, <2>3, <2>4 DEF WebInv
<1>6. CASE ReadsInput
  <2>1. /\ WebTypeOK' /\ TasksKept /\ SessionKept /\ ws'.typed = ws.typed /\ ws'.inbox = ws.inbox
        /\ ws.tty # <<>> /\ ws'.tty = Tail(ws.tty) /\ ws'.got = Append(ws.got, Head(ws.tty))
    BY <1>6, ReadsInputDoes
  <2>2. ITasks' /\ ISent' BY <1>1, <1>2, <2>1, TasksGoOn
  <2>3. IInbox' /\ Taken' = Taken BY <1>1, <2>1, InboxSame DEF SessionKept
  <2>4. Stored' = Stored
    <3> DEFINE g == ws.got
               x == ws.tty
    <3>1. g \in Seq(Pieces) /\ x \in Seq(Pieces) BY WebIs
    <3>2. Stored = g \o x /\ Stored' = Append(g, Head(x)) \o Tail(x) /\ x # <<>> BY <2>1 DEF Stored
    <3> HIDE DEF g, x
    <3>3. QED BY <3>1, <3>2, ConcatMoves
  <2>5. IStored' BY <1>1, <2>1, <2>3, <2>4, StoredKept DEF TasksKept, SessionKept
  <2>6. QED BY <2>1, <2>2, <2>3, <2>5 DEF WebInv
<1>7. CASE Exits
  <2>1. /\ WebTypeOK' /\ WritesKept /\ SessionKept /\ ws'.inbox = ws.inbox /\ ~ws'.alive
        /\ ws'.printed = ws.printed /\ ws'.read = ws.read /\ ws'.reader = ws.reader /\ ws'.sent = ws.sent
        /\ ws'.broke = ws.broke
    BY <1>7, ExitsDoes
  <2>2. ITasks' BY <1>1, <2>1 DEF ITasks, WritesKept, SessionKept
  <2>3. ISent' BY <1>1, <2>1 DEF ISent, WritesKept, SessionKept
  <2>4. IInbox' /\ Taken' = Taken BY <1>1, <2>1, InboxSame DEF WritesKept, SessionKept
  <2>5. IStored' BY <1>1, <1>3, <2>1, <2>4, StoredKept DEF WritesKept, SessionKept
  <2>6. QED BY <2>1, <2>2, <2>3, <2>4, <2>5 DEF WebInv
<1>8. CASE Spawns
  <2>1. /\ WebTypeOK' /\ WritesKept /\ ws'.inbox = ws.inbox /\ ws'.printed = ws.printed
        /\ ws'.read = ws.read /\ ws'.sent = ws.sent /\ ws.main = "spawn" /\ ws'.main = "recv"
        /\ ws'.conn = ws.conn
        /\ \A k \in Streams : ws'.reader[k] = IF k \in Used(ws.kind) THEN "read" ELSE "done"
    BY <1>8, SpawnsDoes
  <2>2. ITasks' BY <2>1 DEF ITasks, WritesKept
  <2>3. ISent'
    <3>1. \A k \in Streams : ws.read[k] = 0 /\ ws.sent[k] = <<>> BY <1>1, <2>1 DEF ITasks
    <3> SUFFICES ASSUME NEW k \in Streams
                 PROVE  /\ \A i \in DOMAIN ws.sent[k] : ws.sent[k][i] = i
                        /\ Len(ws.sent[k]) = ws.read[k]
      BY <2>1 DEF ISent, WritesKept
    <3>2. QED BY <3>1, EmptyIs
  <2>4. IInbox' /\ Taken' = Taken /\ Taken = 0 BY <1>1, <2>1, InboxSame DEF WritesKept, IInbox
  <2>5. Stored' = Stored BY <1>3, <2>1
  <2>6. IStored'
    <3>1. \A m \in 1..0 : FALSE OBVIOUS
    <3>2. QED BY <1>1, <2>1, <2>4, <2>5, <3>1 DEF IStored, WritesKept
  <2>7. QED BY <2>1, <2>2, <2>3, <2>4, <2>6 DEF WebInv
<1>9. QED BY <1>4, <1>5, <1>6, <1>7, <1>8

LEMMA WebStreamSteps ==
    ASSUME WebTypeOK, WebInv, NEW k \in Streams, Prints(k) \/ ReaderStep(k)
    PROVE  WebTypeOK' /\ WebInv'
<1>1. ITasks /\ ISent /\ IInbox /\ IStored BY DEF WebInv
<1>2. WebTypeOK' /\ StreamDoes(k)
  BY <1>1, PrintsDoes, TakesDoes, SendsDoes, RestsDoes, ReadFailsDoes DEF ReaderStep
<1>3. WritesKept /\ SessionKept /\ ws'.inbox = ws.inbox BY <1>2 DEF StreamDoes
<1>4. ITasks' /\ ISent' BY <1>1, TasksOfStream
<1>5. IInbox' /\ Taken' = Taken BY <1>1, <1>3, InboxSame DEF WritesKept, SessionKept
<1>6. Stored' = Stored BY <1>3 DEF WritesKept, Stored
<1>7. IStored' BY <1>1, <1>3, <1>5, <1>6, StoredKept DEF WritesKept, SessionKept
<1>8. QED BY <1>2, <1>4, <1>5, <1>7 DEF WebInv

LEMMA WebEndSteps == ASSUME WebTypeOK, WebInv, EndsSession PROVE WebTypeOK' /\ WebInv'
<1>1. ITasks /\ ISent /\ IInbox /\ IStored BY DEF WebInv
<1>2. /\ WebTypeOK' /\ WritesKept /\ ws'.main = "closed" /\ ~ws'.conn
      /\ ws'.inbox = ws.inbox \/ Receives
      /\ ws'.alive = ws.alive /\ ws'.printed = ws.printed /\ ws'.read = ws.read /\ ws'.sent = ws.sent
      /\ \A k \in Streams : /\ ws'.reader[k] \in {"cancelled", "done"}
                            /\ k \notin Used(ws.kind) => ws'.reader[k] = "done"
  BY <1>1, EndsSessionDoes
<1>3. ITasks' BY <1>2 DEF ITasks, WritesKept
<1>4. ISent' BY <1>1, <1>2 DEF ISent, WritesKept
<1>5. Stored' = Stored BY <1>2 DEF WritesKept, Stored
<1>6. CASE ws'.inbox = ws.inbox
  <2>1. IInbox' /\ Taken' = Taken BY <1>1, <1>2, <1>6, InboxSame DEF WritesKept
  <2>2. IStored' BY <1>1, <1>2, <1>5, <2>1, StoredKept DEF WritesKept
  <2>3. QED BY <1>2, <1>3, <1>4, <2>1, <2>2 DEF WebInv
<1>7. CASE Receives
  <2>1. IInbox' /\ Taken' = Taken + 1 BY <1>1, <1>2, <1>7, InboxReceived
  <2>2. IStored' BY <1>1, <1>2, <1>5, <1>7, <2>1, StoredReceived DEF WritesKept
  <2>3. QED BY <1>2, <1>3, <1>4, <2>1, <2>2 DEF WebInv
<1>8. QED BY <1>2, <1>6, <1>7

LEMMA WebInputSteps ==
    ASSUME WebTypeOK, WebInv, ~EndsSession, Resizes \/ StartsWrite \/ WritesNow \/ EndsWrite
    PROVE  WebTypeOK' /\ WebInv'
<1>1. ITasks /\ ISent /\ IInbox /\ IStored BY DEF WebInv
<1>2. Taken \in Nat BY <1>1, TakenIs
<1>3. CASE Resizes
  <2>1. WebTypeOK' /\ TasksKept /\ WritesKept /\ SessionKept /\ Receives /\ ws.typed[Head(ws.inbox)] # "keys"
    BY <1>3, ResizesDoes
  <2>2. GoesOn /\ ws'.main = "recv" BY <1>1, <2>1 DEF SessionKept, GoesOn, ITasks, Receives
  <2>3. ITasks' /\ ISent' BY <1>1, <2>1, <2>2, TasksGoOn
  <2>4. IInbox' /\ Taken' = Taken + 1 /\ Head(ws.inbox) = Taken + 1 BY <1>1, <2>1, <2>2, InboxReceived
  <2>5. Stored' = Stored BY <2>1 DEF WritesKept, Stored
  <2>6. IStored' BY <1>1, <2>1, <2>2, <2>4, <2>5, StoredReceived DEF WritesKept
  <2>7. QED BY <2>1, <2>3, <2>4, <2>6 DEF WebInv
<1>4. CASE StartsWrite
  <2>1. /\ WebTypeOK' /\ TasksKept /\ WritesKept /\ GoesOn /\ Receives
        /\ ws.kind # "pty" /\ ws'.main = "write" /\ ws'.item = Head(ws.inbox)
    BY <1>4, StartsWriteDoes
  <2>2. ITasks' /\ ISent' BY <1>1, <2>1, TasksGoOn
  <2>3. IInbox' /\ Taken' = Taken + 1 /\ Head(ws.inbox) = Taken + 1 BY <1>1, <2>1, InboxReceived
  <2>4. Stored' = Stored BY <2>1 DEF WritesKept, Stored
  <2>5. IStored' BY <1>1, <2>1, <2>3, <2>4, StoredReceived DEF WritesKept
  <2>6. QED BY <2>1, <2>2, <2>3, <2>5 DEF WebInv
<1>5. CASE WritesNow
  <2>1. /\ WebTypeOK' /\ Receives /\ ws.kind = "pty"
        /\ \E n \in 1..2 : Gives(Head(ws.inbox), n)
    BY <1>5, WritesNowDoes
  <2>2. PICK n \in 1..2 : Gives(Head(ws.inbox), n) BY <2>1
  <2>3. TasksKept /\ ws'.main = "recv" /\ ws'.conn = ws.conn BY <2>2 DEF Gives
  <2>4. IInbox' /\ Taken' = Taken + 1 /\ Head(ws.inbox) = Taken + 1 BY <1>1, <2>1, <2>3, InboxReceived
  <2>5. ws.main = "recv" /\ Taken + 1 \in 1..MaxTyped
    <3>1. ws.main = "recv" /\ Head(ws.inbox) \in 1..MaxTyped BY <2>1, InboxTailIs DEF Receives
    <3>2. QED BY <2>4, <3>1
  <2>6. GoesOn BY <1>1, <2>3, <2>5 DEF GoesOn, ITasks
  <2>7. ITasks' /\ ISent' BY <1>1, <2>3, <2>6, TasksGoOn
  <2>8. \A p \in Elems(Stored) : p[1] < Taken + 1
    <3> SUFFICES ASSUME NEW p \in Elems(Stored) PROVE p[1] < Taken + 1
      OBVIOUS
    <3>1. p \in Pieces BY StoredIs, SeqIs
    <3>2. p[1] \in Nat /\ p[1] <= Taken BY <1>1, <3>1 DEF Pieces, IStored
    <3>3. QED BY <1>2, <3>2
  <2>9. \A m \in 1..(Taken + 1) : m # Taken + 1 /\ ws.typed[m] = "keys" =>
          <<m, 1>> \in Elems(Stored) /\ (ws.kind # "pty" => <<m, 2>> \in Elems(Stored))
    <3>1. \A m \in 1..(Taken + 1) : m # Taken + 1 => m \in 1..Taken BY <1>2
    <3>2. QED BY <1>1, <2>5, <3>1 DEF IStored
  <2>10. InOrder(Stored) BY <1>1 DEF IStored
  <2>11. IStored' BY <2>1, <2>2, <2>4, <2>5, <2>8, <2>9, <2>10, StoredGrows
  <2>12. QED BY <2>1, <2>4, <2>7, <2>11 DEF WebInv
<1>6. CASE EndsWrite
  <2>1. /\ WebTypeOK' /\ ws'.inbox = ws.inbox /\ ws.main = "write"
        /\ ws.item \in 1..MaxTyped /\ Gives(ws.item, 2)
    BY <1>1, <1>6, EndsWriteDoes
  <2>2. TasksKept /\ ws'.main = "recv" /\ ws'.conn = ws.conn /\ ws'.typed = ws.typed BY <2>1 DEF Gives
  <2>3. GoesOn BY <1>1, <2>1, <2>2 DEF GoesOn, ITasks
  <2>4. ITasks' /\ ISent' BY <1>1, <2>2, <2>3, TasksGoOn
  <2>5. IInbox' /\ Taken' = Taken BY <1>1, <2>1, <2>2, InboxSame
  <2>6. /\ ws.item = Taken /\ InOrder(Stored) /\ \A p \in Elems(Stored) : p[1] < Taken
        /\ \A m \in 1..Taken : m # Taken /\ ws.typed[m] = "keys" =>
             <<m, 1>> \in Elems(Stored) /\ (ws.kind # "pty" => <<m, 2>> \in Elems(Stored))
    BY <1>1, <2>1 DEF IStored
  <2>7. 2 \in 1..2 OBVIOUS
  <2>8. IStored' BY <2>1, <2>5, <2>6, <2>7, StoredGrows
  <2>9. QED BY <2>1, <2>4, <2>5, <2>8 DEF WebInv
<1>7. QED BY <1>3, <1>4, <1>5, <1>6

LEMMA WebSteps == ASSUME WebTypeOK, WebInv, WebNext PROVE WebTypeOK' /\ WebInv'
<1>1. WriteFails => EndsSession BY DEF WriteFails, EndsSession
<1>2. QED BY <1>1, MainStepIs, WebOtherSteps, WebStreamSteps, WebEndSteps, WebInputSteps DEF WebNext

\* What the shell was given, and what is being written to it, is the input.
LEMMA InputIs ==
    ASSUME WebTypeOK, WebInv
    PROVE  /\ InOrder(Input)
           /\ Elems(Input) = Elems(Stored) \cup (IF ws.main = "write" THEN {<<Taken, 1>>, <<Taken, 2>>} ELSE {})
<1>1. ITasks /\ ISent /\ IInbox /\ IStored BY DEF WebInv
<1> DEFINE q == Stored
<1>2. q \in Seq(Pieces) /\ InOrder(q) BY <1>1, StoredIs DEF IStored
<1>3. CASE ws.main = "write"
  <2>1. ws.item = Taken /\ Taken # 0 /\ \A p \in Elems(q) : p[1] < Taken BY <1>1, <1>3 DEF IStored
  <2>2. Taken \in 1..MaxTyped
    <3>1. ws.item \in 0..MaxTyped BY WebIs
    <3>2. QED BY <2>1, <3>1, WebIs
  <2> DEFINE u == SubSeq(PiecesOf(Taken), 1, 2)
  <2>3. u = PiecesOf(Taken)
    <3>1. 2 \in 0..2 OBVIOUS
    <3>2. QED BY <2>2, <3>1, PiecesIs
  <2>4. Input = q \o u BY <1>3, <2>1, <2>3 DEF Input, Stored
  <2>5. InOrder(q \o u) /\ Elems(q \o u) = Elems(q) \cup {<<Taken, i>> : i \in 1..2}
    <3>1. 2 \in 1..2 OBVIOUS
    <3>2. QED BY <1>2, <2>1, <2>2, <3>1, PiecesGoBehind
  <2>6. {<<Taken, i>> : i \in 1..2} = {<<Taken, 1>>, <<Taken, 2>>}
    <3>1. 1..2 = {1, 2} OBVIOUS
    <3>2. QED BY <3>1
  <2>7. QED BY <1>3, <2>4, <2>5, <2>6
<1>4. CASE ws.main # "write"
  <2>1. Input = q \o <<>> BY <1>4 DEF Input, Stored
  <2>2. q \o <<>> = q BY <1>2, ConcatEmptySeq
  <2>3. QED BY <1>2, <1>4, <2>1, <2>2
<1>5. QED BY <1>3, <1>4

LEMMA WebKeepsInput == ASSUME WebTypeOK, WebInv PROVE InputKept
<1>1. ITasks /\ ISent /\ IInbox /\ IStored BY DEF WebInv
<1>2. InOrder(Input)
      /\ Elems(Input) = Elems(Stored) \cup (IF ws.main = "write" THEN {<<Taken, 1>>, <<Taken, 2>>} ELSE {})
  BY InputIs
<1>3. \A i, j \in DOMAIN Input : i < j => Before(Input[i], Input[j]) BY <1>2 DEF InOrder
<1>4. ASSUME NEW m \in DOMAIN ws.typed, ws.typed[m] = "keys", \A i \in DOMAIN ws.inbox : ws.inbox[i] # m,
             ws.main \in {"recv", "write"}
      PROVE  <<m, 1>> \in Elems(Input) /\ (ws.kind # "pty" => <<m, 2>> \in Elems(Input))
  <2> DEFINE a == Len(ws.typed)
             b == Len(ws.inbox)
  <2>1. /\ Taken \in Nat /\ Taken + b = a /\ a \in Nat /\ b \in Nat
        /\ DOMAIN ws.typed = 1..a /\ DOMAIN ws.inbox = 1..b
    BY <1>1, TakenIs
  <2>2. \A i \in 1..b : ws.inbox[i] = Taken + i BY <1>1, <2>1 DEF IInbox
  <2> HIDE DEF a, b
  <2>3. m \in 1..Taken
    <3> SUFFICES ASSUME m \notin 1..Taken PROVE FALSE
      OBVIOUS
    <3> DEFINE i == m - Taken
    <3>1. m \in 1..a BY <2>1
    <3>2. i \in 1..b /\ Taken + i = m BY <2>1, <3>1
    <3> HIDE DEF i
    <3>3. ws.inbox[i] = m BY <2>2, <3>2
    <3>4. QED BY <1>4, <2>1, <3>2, <3>3
  <2>4. CASE ws.main = "write" /\ m = Taken BY <1>2, <2>4
  <2>5. CASE ~(ws.main = "write" /\ m = Taken) BY <1>1, <1>2, <1>4, <2>3, <2>5 DEF IStored
  <2>6. QED BY <2>4, <2>5
<1>5. QED BY <1>3, <1>4 DEF InputKept, Elems

LEMMA WebKeepsOutput == ASSUME WebTypeOK, WebInv PROVE StreamsInOrder /\ StreamSentBeforeEnd
<1>1. ISent BY DEF WebInv
<1>2. StreamsInOrder BY <1>1 DEF ISent, StreamsInOrder
<1>3. Used(ws.kind) \subseteq Streams BY DEF Used, Streams
<1>4. StreamSentBeforeEnd BY <1>1, <1>3 DEF ISent, StreamSentBeforeEnd
<1>5. QED BY <1>2, <1>4

-----------------------------------------------------------------------------
(* Towards the end: what ReaderEnds and SessionsEnd rest on besides fairness *)

\* The most steps the reader can still take, once no more is printed.
Rest == IF sh.reader = "done" THEN 0
        ELSE 2 * (sh.avail - sh.read) + (IF sh.reader = "handoff" THEN 2 ELSE 1)

\* The most steps the main loop can still take, once nothing more is typed.
Work == IF ws.main \in {"closed", "failed"} THEN 0
        ELSE 2 * Len(ws.inbox) + (IF ws.main = "spawn" THEN 3 ELSE IF ws.main = "write" THEN 2 ELSE 1)

\* After the shell has ended, no step of the session gives the reader thread more
\* to do, and each of its own steps leaves it less.
ReaderNearsItsEnd ==
    [][sh.exited => Rest' <= Rest /\ (OfLambda(ReaderGoesOn) => Rest' < Rest)]_vars
\* After its client has left, no step of the administrator's terminal gives the main
\* loop more to do, and each of its own steps leaves it less.
MainNearsItsEnd ==
    [][~ws.conn => ~ws'.conn /\ Work' <= Work /\ (OfAdmin(MainStep) => Work' < Work)]_vars

LEMMA RestShrinks ==
    ASSUME ShellTypeOK, ShellInv, sh.exited, ShellNext
    PROVE  Rest' <= Rest /\ (ReaderGoesOn => Rest' < Rest)
<1>1. IReader BY DEF ShellInv
<1>2. sh.avail \in Nat /\ sh.read \in Nat /\ sh.read <= sh.avail BY ShellIs
<1>3. CASE ReaderRecv
  <2>1. sh.reader = "recv" /\ sh'.reader = "handoff" /\ sh'.read = sh.read + 1 /\ sh'.avail = sh.avail /\ sh.read < sh.avail
    BY <1>1, <1>3, ReaderRecvDoes DEF OthersKept, ReaderRecv
  <2>2. QED BY <1>2, <2>1 DEF Rest
<1>4. CASE ReaderEof \/ ReaderRaises
  <2>1. sh.reader = "recv" /\ sh'.reader = "done" BY <1>1, <1>4, ReaderStopsDoes
  <2>2. QED BY <1>2, <2>1 DEF Rest
<1>5. CASE HandoffDone
  <2>1. sh.reader = "handoff" /\ sh'.reader = "recv" /\ sh'.read = sh.read /\ sh'.avail = sh.avail
    BY <1>5, HandoffDoneDoes DEF OthersKept
  <2>2. QED BY <1>2, <2>1 DEF Rest
<1>6. CASE HandoffTimesOut
  <2>1. sh.reader = "handoff" /\ sh'.reader = "done" BY <1>1, <1>6, HandoffTimesOutDoes
  <2>2. QED BY <1>2, <2>1 DEF Rest
<1>7. CASE Quiet \/ Stops \/ PutStarts \/ PutWakes \/ PumpGet \/ PumpSent
  <2>1. ReaderKept /\ sh'.avail = sh.avail
    BY <1>1, <1>7, QuietDoes, StopDoes, PutStartsDoes, PutWakesDoes, PumpGetDoes, PumpSentDoes DEF OthersKept
  <2>2. Rest' = Rest /\ Rest \in Nat BY <1>2, <2>1 DEF Rest, ReaderKept
  <2>3. ~ReaderGoesOn
    <3>1. ReaderGoesOn => sh'.reader # sh.reader
      BY <1>1, ReaderRecvDoes, ReaderStopsDoes, HandoffDoneDoes, HandoffTimesOutDoes DEF ReaderGoesOn
    <3>2. QED BY <2>1, <3>1 DEF ReaderKept
  <2>4. QED BY <2>2, <2>3
<1>8. QED BY <1>3, <1>4, <1>5, <1>6, <1>7 DEF ShellNext, Quiet, Stops

LEMMA WorkShrinks ==
    ASSUME WebTypeOK, WebInv, ~ws.conn, WebNext
    PROVE  ~ws'.conn /\ Work' <= Work /\ (MainStep => Work' < Work)
<1>1. ITasks /\ ISent /\ IStored BY DEF WebInv
<1>2. Len(ws.inbox) \in Nat /\ (ws.inbox # <<>> => Len(Tail(ws.inbox)) = Len(ws.inbox) - 1)
  BY WebIs, SeqIs, TailIs
<1> DEFINE n == Len(ws.inbox)
           m == Len(ws'.inbox)
<1>3. Receives => n \in Nat /\ m = n - 1 /\ n # 0
  <2> SUFFICES ASSUME Receives PROVE n \in Nat /\ m = n - 1 /\ n # 0
    OBVIOUS
  <2>1. ws.inbox # <<>> /\ ws'.inbox = Tail(ws.inbox) BY DEF Receives
  <2>2. QED BY <1>2, <2>1, WebIs, SeqIs
<1>4. n \in Nat /\ (ws'.inbox = ws.inbox => m = n) BY <1>2
<1>5. /\ Work = IF ws.main \in {"closed", "failed"} THEN 0
                ELSE 2 * n + (IF ws.main = "spawn" THEN 3 ELSE IF ws.main = "write" THEN 2 ELSE 1)
      /\ Work' = IF ws'.main \in {"closed", "failed"} THEN 0
                 ELSE 2 * m + (IF ws'.main = "spawn" THEN 3 ELSE IF ws'.main = "write" THEN 2 ELSE 1)
  BY DEF Work
<1> HIDE DEF n, m
<1>6. ~(\E what \in Typeable : Types(what)) /\ ~ClientLeaves BY DEF Types, ClientLeaves
<1>7. Work \in Nat BY <1>4, <1>5
<1>8. CASE EndsSession
  <2>1. ws'.main = "closed" /\ ~ws'.conn BY <1>1, <1>8, EndsSessionDoes
  <2>2. ws.main \in {"recv", "write"} BY <1>8 DEF EndsSession
  <2>3. QED BY <1>4, <1>5, <2>1, <2>2
<1>9. CASE Spawns \/ SpawnFails
  <2>1. ws.main = "spawn" /\ ws'.main \in {"recv", "failed"} /\ ws'.inbox = ws.inbox /\ ~ws'.conn
    BY <1>9, SpawnsDoes, EndsDoes DEF SpawnFails, GoesOn, WebTypeOK
  <2>2. QED BY <1>4, <1>5, <2>1
<1>10. CASE ~EndsSession /\ (Resizes \/ StartsWrite \/ WritesNow)
  <2>1. ws.main = "recv" /\ Receives /\ ws'.main \in {"recv", "write"} /\ ~ws'.conn
    BY <1>10, ResizesDoes, StartsWriteDoes, WritesNowDoes DEF Receives, SessionKept, GoesOn, Gives
  <2>2. QED BY <1>3, <1>5, <2>1
<1>11. CASE ~EndsSession /\ EndsWrite
  <2>1. ws.main = "write" /\ ws'.main = "recv" /\ ws'.inbox = ws.inbox /\ ~ws'.conn
    BY <1>1, <1>11, EndsWriteDoes DEF Gives
  <2>2. QED BY <1>4, <1>5, <2>1
<1>12. CASE ReadsInput \/ Exits \/ \E k \in Streams : Prints(k) \/ ReaderStep(k)
  <2>1. SessionKept /\ ws'.inbox = ws.inbox
    BY <1>1, <1>12, ReadsInputDoes, ExitsDoes, PrintsDoes, TakesDoes, SendsDoes, RestsDoes, ReadFailsDoes
       DEF ReaderStep, StreamDoes
  <2>2. Work' = Work BY <1>4, <1>5, <2>1 DEF SessionKept
  <2>3. QED BY <1>7, <1>8, <1>9, <1>10, <1>11, <2>1, <2>2, MainStepIs DEF SessionKept
<1>13. WriteFails => EndsSession BY DEF WriteFails, EndsSession
<1>14. QED BY <1>6, <1>8, <1>9, <1>10, <1>11, <1>12, <1>13, MainStepIs DEF WebNext

-----------------------------------------------------------------------------
(* The two kinds of sessions together *)

Inv == TypeOK /\ ShellInv /\ WebInv

LEMMA Inductive == Spec => []Inv
<1>1. Init => Inv BY ShellStarts, WebStarts DEF Init, Inv, TypeOK
<1>2. Inv /\ [Next]_vars => Inv'
  <2> SUFFICES ASSUME Inv, [Next]_vars PROVE Inv'
    OBVIOUS
  <2>1. ShellTypeOK /\ ShellInv /\ WebTypeOK /\ WebInv BY DEF Inv, TypeOK
  <2>2. ASSUME sh' = sh PROVE ShellTypeOK' /\ ShellInv'
    BY <2>1, <2>2 DEF ShellTypeOK, ShellInv, IReader, ILine, IEnd, Flying, Ahead, Held, AllBeforeEof
  <2>3. ASSUME ws' = ws PROVE WebTypeOK' /\ WebInv'
    BY <2>1, <2>3 DEF WebTypeOK, WebInv, ITasks, ISent, IInbox, IStored, Taken, Stored
  <2>4. CASE OfLambda(ShellNext) BY <2>1, <2>3, <2>4, ShellSteps DEF OfLambda, Inv, TypeOK
  <2>5. CASE OfAdmin(WebNext) BY <2>1, <2>2, <2>5, WebSteps DEF OfAdmin, Inv, TypeOK
  <2>6. CASE UNCHANGED vars BY <2>1, <2>2, <2>3, <2>6 DEF vars, Inv, TypeOK
  <2>7. QED BY <2>4, <2>5, <2>6 DEF Next
<1>3. QED BY <1>1, <1>2, PTL DEF Spec

\* Both sessions keep their types and bounds: no queue holds more than its size,
\* no reader thread has more than two puts under way, and no terminal holds more
\* input than it has room for.
THEOREM TypeCorrect == Spec => []TypeOK
<1>1. Inv => TypeOK BY DEF Inv
<1>2. QED BY <1>1, Inductive, PTL

\* Output reaches the client in order and without a gap, whatever the size of the
\* queue, and wherever puts wait for it, and from every task that reads a stream.
THEOREM OutputKeptHolds == Spec => []OutputKept
<1>1. Inv => OutputKept BY LineInOrder, WebKeepsOutput DEF Inv, TypeOK, OutputKept
<1>2. QED BY <1>1, Inductive, PTL

\* A client that is still there when the output ends has been sent all that was
\* read of it, also when a read has failed, unless a hand-off to the loop took
\* longer than its 30 seconds; and unless a read has failed that is all there was.
THEOREM AllSentAtEndHolds == Spec => []AllSentAtEnd
<1>1. Inv => AllSentAtEnd BY WebKeepsOutput DEF Inv, TypeOK, AllSentAtEnd, ShellInv, IEnd
<1>2. QED BY <1>1, Inductive, PTL

\* Keystrokes reach the administrator's shell once and in the order they were
\* typed, and while the session goes on none is left out but for the ends of
\* messages cut at a full pseudo-terminal and for what begins with ESC [.
THEOREM InputKeptHolds == Spec => []InputKept
<1>1. Inv => InputKept BY WebKeepsInput DEF Inv, TypeOK
<1>2. QED BY <1>1, Inductive, PTL

\* Once the shell has ended, every step of the reader thread brings it nearer to
\* its end and no other step takes it back, whatever queue and client do: what
\* ReaderEnds needs of the code, besides that the thread goes on.
THEOREM ReaderNearsItsEndHolds == Spec => ReaderNearsItsEnd
<1>1. Inv /\ [Next]_vars => [sh.exited => Rest' <= Rest /\ (OfLambda(ReaderGoesOn) => Rest' < Rest)]_vars
  <2> SUFFICES ASSUME Inv, Next, sh.exited PROVE Rest' <= Rest /\ (OfLambda(ReaderGoesOn) => Rest' < Rest)
    OBVIOUS
  <2>1. CASE OfLambda(ShellNext) BY <2>1, RestShrinks DEF Inv, TypeOK, OfLambda
  <2>2. CASE OfAdmin(WebNext)
    <3>1. of = "admin" /\ Rest' = Rest BY <2>2 DEF OfAdmin, Rest
    <3>2. Rest \in Nat
      <4>1. sh.avail \in Nat /\ sh.read \in Nat /\ sh.read <= sh.avail BY ShellIs DEF Inv, TypeOK
      <4>2. QED BY <4>1 DEF Rest
    <3>3. QED BY <3>1, <3>2 DEF OfLambda
  <2>3. QED BY <2>1, <2>2 DEF Next
<1>2. QED BY <1>1, Inductive, PTL DEF Spec, ReaderNearsItsEnd

\* Once the client of the administrator's terminal has gone, every step of the
\* main loop brings it nearer to its end, and no step of the shell, of the tasks
\* or of their threads takes it back: SessionsEnd needs this besides fairness.
THEOREM MainNearsItsEndHolds == Spec => MainNearsItsEnd
<1>1. Inv /\ [Next]_vars => [~ws.conn => ~ws'.conn /\ Work' <= Work /\ (OfAdmin(MainStep) => Work' < Work)]_vars
  <2> SUFFICES ASSUME Inv, Next, ~ws.conn PROVE ~ws'.conn /\ Work' <= Work /\ (OfAdmin(MainStep) => Work' < Work)
    OBVIOUS
  <2>1. CASE OfAdmin(WebNext) BY <2>1, WorkShrinks DEF Inv, TypeOK, OfAdmin
  <2>2. CASE OfLambda(ShellNext)
    <3>1. of = "lambda" /\ Work' = Work /\ ~ws'.conn BY <2>2 DEF OfLambda, Work
    <3>2. Work \in Nat
      <4> DEFINE n == Len(ws.inbox)
      <4>1. n \in Nat BY WebIs, SeqIs DEF Inv, TypeOK
      <4>2. Work = IF ws.main \in {"closed", "failed"} THEN 0
                   ELSE 2 * n + (IF ws.main = "spawn" THEN 3 ELSE IF ws.main = "write" THEN 2 ELSE 1)
        BY DEF Work
      <4> HIDE DEF n
      <4>3. QED BY <4>1, <4>2
    <3>3. QED BY <3>1, <3>2 DEF OfAdmin
  <2>3. QED BY <2>1, <2>2 DEF Next
<1>2. QED BY <1>1, Inductive, PTL DEF Spec, MainNearsItsEnd

=============================================================================
