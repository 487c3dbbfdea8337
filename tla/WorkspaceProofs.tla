--------------------------- MODULE WorkspaceProofs --------------------------
(***************************************************************************)
(* Proofs about Workspace, for any names, uploads and limit: its type      *)
(* invariant, and that a document holds one whole write and is open to no  *)
(* upload, unless two uploads or rename_file touched a temporary file.     *)
(***************************************************************************)
EXTENDS Workspace, SequenceTheorems, TLAPS

-----------------------------------------------------------------------------
(* Places, handles and contents *)

LEMMA PlacesAre ==
    /\ \A n \in Names : Doc(n) \in Places /\ Tmp(n) \in Places
    /\ \A n, m \in Names : Doc(n) # Tmp(m)
    /\ \A n, m \in Names : (Tmp(n) = Tmp(m) => n = m) /\ (Doc(n) = Doc(m) => n = m)
    /\ \A n \in Names : Doc(n) # Gone /\ Tmp(n) # Gone
    /\ \A p \in Places : \E n \in Names : p = Doc(n) \/ p = Tmp(n)
BY WorkspaceAssumption DEF Places, Doc, Tmp

\* What a handle is once the file at p is at q.
LEMMA FollowType ==
    ASSUME NEW ups \in [Uploads -> {None} \cup Upload], NEW p \in Places, NEW q \in Places \cup {Gone}
    PROVE  Follow(ups, p, q) \in [Uploads -> {None} \cup Upload]
<1>1. \A v \in Uploads : ups[v] # None =>
        ups[v] \in Upload /\ [ups[v] EXCEPT !.at = q] \in Upload /\ [ups[v] EXCEPT !.at = Gone] \in Upload
  BY DEF Upload
<1>2. QED BY <1>1 DEF Follow

LEMMA FollowIs ==
    ASSUME NEW ups \in [Uploads -> {None} \cup Upload], NEW p \in Places, NEW q \in Places \cup {Gone},
           NEW u \in Uploads
    PROVE  /\ Follow(ups, p, q)[u] # None <=> ups[u] # None
           /\ ups[u] # None =>
                LET w == Follow(ups, p, q)[u]
                IN  /\ w.name = ups[u].name /\ w.off = ups[u].off /\ w.size = ups[u].size
                    /\ w.at = IF ups[u].at = p THEN q ELSE IF ups[u].at = q THEN Gone ELSE ups[u].at
<1>1. \A v \in Uploads : ups[v] # None =>
        ups[v] \in Upload /\ [ups[v] EXCEPT !.at = q] \in Upload /\ [ups[v] EXCEPT !.at = Gone] \in Upload
  BY DEF Upload
<1>2. QED BY <1>1, WorkspaceAssumption DEF Follow, Upload

LEMMA ClosedIs ==
    ASSUME TypeOK, NEW u \in Uploads
    PROVE  /\ Closed(u) \in [Uploads -> {None} \cup Upload] /\ Closed(u)[u] = None
           /\ \A v \in Uploads : v # u => Closed(u)[v] = up[v]
BY DEF Closed, TypeOK

\* The contents after a write, when the file is no longer than the limit.
LEMMA WrittenIs ==
    ASSUME NEW S, NEW c \in Seq(S), NEW at \in Nat \ {0}, NEW cell \in S, Hole \in S
    PROVE  /\ Written(c, at, cell) \in Seq(S)
           /\ Len(Written(c, at, cell)) = IF Len(c) < at THEN at ELSE Len(c)
<1> DEFINE n == IF Len(c) < at THEN at ELSE Len(c)
<1>1. n \in Nat /\ n >= Len(c) /\ n >= at OBVIOUS
<1>2. \A i \in 1..Len(c) : c[i] \in S OBVIOUS
<1>3. Written(c, at, cell) = [i \in 1..n |-> IF i = at THEN cell ELSE IF i <= Len(c) THEN c[i] ELSE Hole]
  BY DEF Written
<1> HIDE DEF n
<1>4. Written(c, at, cell) \in [1..n -> S]
  <2>1. \A i \in 1..n : (IF i = at THEN cell ELSE IF i <= Len(c) THEN c[i] ELSE Hole) \in S
    BY <1>1, <1>2
  <2>2. QED BY <1>3, <2>1
<1>5. Len(Written(c, at, cell)) = n BY <1>1, <1>3, LenProperties DEF Seq
<1>6. QED BY <1>1, <1>4, <1>5 DEF Seq, n

CellOf == [by : Uploads \cup {"hole", "create", "save"}, i : Nat]

LEMMA ContentsAre ==
    /\ Hole \in CellOf /\ \A u \in Uploads, i \in Nat : Cell(u, i) \in CellOf
    /\ \A mixed \in BOOLEAN :
         File(Created, mixed) \in Files /\ File(Saved, mixed) \in Files /\ File(<<>>, mixed) \in Files
    /\ \A mixed : /\ Len(File(Created, mixed).contents) <= Chunks
                  /\ Len(File(Saved, mixed).contents) <= Chunks
                  /\ Len(File(<<>>, mixed).contents) <= Chunks
    /\ \A c, mixed : File(c, mixed).contents = c /\ File(c, mixed).mixed = mixed
<1>1. \A c, mixed : File(c, mixed).contents = c /\ File(c, mixed).mixed = mixed BY DEF File
<1>2. Len(Created) = 1 /\ Len(Saved) = 1 BY DEF Created, Saved
<1>3. Len(<<>>) = 0 OBVIOUS
<1>4. QED BY <1>1, <1>2, <1>3, WorkspaceAssumption DEF Hole, Cell, File, Created, Saved, Files, CellOf

LEMMA FileIs ==
    ASSUME TypeOK, NEW p \in Places, disk[p] # None
    PROVE  /\ disk[p] \in Files /\ disk[p].contents \in Seq(CellOf)
           /\ Len(disk[p].contents) \in 0..Chunks
<1>1. disk[p] \in Files /\ Len(disk[p].contents) <= Chunks BY DEF TypeOK
<1>2. disk[p].contents \in Seq(CellOf) BY <1>1 DEF Files, CellOf
<1>3. Len(disk[p].contents) \in Nat BY <1>2, LenProperties
<1>4. QED BY <1>1, <1>2, <1>3, WorkspaceAssumption

-----------------------------------------------------------------------------
(* The type invariant *)

LEMMA InitTypeOK == Init => TypeOK
BY WorkspaceAssumption DEF Init, TypeOK, Open

\* A step that replaces one file, or takes it away, and lets the handles follow.
LEMMA ReplaceType ==
    ASSUME TypeOK, NEW p \in Places, NEW f \in {None} \cup Files, f # None => Len(f.contents) <= Chunks,
           NEW ups \in [Uploads -> {None} \cup Upload],
           \A u \in Uploads : ups[u] # None => ups[u] = up[u],
           disk' = [disk EXCEPT ![p] = f], up' = Follow(ups, p, Gone)
    PROVE  TypeOK'
<1>1. disk' \in [Places -> {None} \cup Files] /\ disk'[p] = f
      /\ \A q \in Places : q # p => disk'[q] = disk[q]
  BY DEF TypeOK
<1>2. \A q \in Places : disk'[q] # None => Len(disk'[q].contents) <= Chunks BY <1>1 DEF TypeOK
<1>3. up' \in [Uploads -> {None} \cup Upload] BY FollowType
<1>4. ASSUME NEW u \in Uploads, up'[u] # None
      PROVE  up'[u].off <= up'[u].size /\ (up'[u].at = Gone \/ disk'[up'[u].at] # None)
  <2>1. ups[u] # None /\ ups[u] = up[u] /\ up[u] # None BY <1>4, FollowIs
  <2>2. /\ up'[u].off = up[u].off /\ up'[u].size = up[u].size
        /\ up'[u].at = IF up[u].at = p THEN Gone ELSE up[u].at
    BY <2>1, FollowIs, WorkspaceAssumption
  <2>3. up[u].off <= up[u].size /\ (up[u].at = Gone \/ disk[up[u].at] # None) BY <2>1 DEF TypeOK, Open
  <2>4. up[u].at \in Places \cup {Gone} BY <2>1 DEF TypeOK, Upload
  <2>5. QED BY <1>1, <2>2, <2>3, <2>4
<1>5. QED BY <1>1, <1>2, <1>3, <1>4 DEF TypeOK, Open

\* A step that renames a file, maybe over another, and may mark it.
LEMMA MoveType ==
    ASSUME TypeOK, NEW p \in Places, NEW q \in Places, p # q, disk[p] # None,
           NEW f \in Files, f.contents = disk[p].contents,
           NEW ups \in [Uploads -> {None} \cup Upload],
           \A u \in Uploads : ups[u] # None => ups[u] = up[u],
           disk' = [disk EXCEPT ![q] = f, ![p] = None], up' = Follow(ups, p, q)
    PROVE  TypeOK'
<1>1. /\ disk' \in [Places -> {None} \cup Files] /\ disk'[q] = f /\ f # None /\ disk'[p] = None
      /\ \A r \in Places : r # p /\ r # q => disk'[r] = disk[r]
  BY WorkspaceAssumption DEF TypeOK
<1>2. \A r \in Places : disk'[r] # None => Len(disk'[r].contents) <= Chunks BY <1>1 DEF TypeOK
<1>3. up' \in [Uploads -> {None} \cup Upload] BY FollowType
<1>4. ASSUME NEW u \in Uploads, up'[u] # None
      PROVE  up'[u].off <= up'[u].size /\ (up'[u].at = Gone \/ disk'[up'[u].at] # None)
  <2>1. ups[u] # None /\ ups[u] = up[u] /\ up[u] # None BY <1>4, FollowIs
  <2>2. /\ up'[u].off = up[u].off /\ up'[u].size = up[u].size
        /\ up'[u].at = IF up[u].at = p THEN q ELSE IF up[u].at = q THEN Gone ELSE up[u].at
    BY <2>1, FollowIs
  <2>3. up[u].off <= up[u].size /\ (up[u].at = Gone \/ disk[up[u].at] # None) BY <2>1 DEF TypeOK, Open
  <2>4. up[u].at \in Places \cup {Gone} BY <2>1 DEF TypeOK, Upload
  <2>5. QED BY <1>1, <2>2, <2>3, <2>4
<1>5. QED BY <1>1, <1>2, <1>3, <1>4 DEF TypeOK, Open

\* What rename_file makes of the file.
Renamed(p, q) == File(disk[p].contents, disk[p].mixed \/ Touching(p) \cup Touching(q) # {})

LEMMA RenameIs ==
    ASSUME TypeOK, NEW p \in Places, NEW q \in Places, Rename(p, q)
    PROVE  /\ p # q /\ disk[p] # None
           /\ Renamed(p, q) \in Files /\ Renamed(p, q).contents = disk[p].contents
           /\ Renamed(p, q).mixed = (disk[p].mixed \/ Touching(p) \cup Touching(q) # {})
           /\ disk' = [disk EXCEPT ![q] = Renamed(p, q), ![p] = None] /\ up' = Follow(up, p, q)
<1>1. disk[p] # None /\ disk[q] = None BY DEF Rename
<1>2. disk[p] \in Files BY <1>1 DEF TypeOK
<1>3. Renamed(p, q) \in Files BY <1>2 DEF Renamed, File, Files
<1>4. QED BY <1>1, <1>3 DEF Rename, Renamed, File

LEMMA BeginsType ==
    ASSUME TypeOK, NEW u \in Uploads, NEW n \in Names, NEW size \in 1..(Chunks + 1),
           UploadBegins(u, n, size)
    PROVE  TypeOK'
<1> DEFINE new == [name |-> n, at |-> Tmp(n), off |-> 0, size |-> size]
<1>1. new \in Upload BY PlacesAre, WorkspaceAssumption DEF Upload
<1>2. up' = [up EXCEPT ![u] = new] BY DEF UploadBegins
<1>3. up' \in [Uploads -> {None} \cup Upload] BY <1>1, <1>2 DEF TypeOK
<1>4. /\ disk' \in [Places -> {None} \cup Files]
      /\ \A p \in Places : disk'[p] # None => Len(disk'[p].contents) <= Chunks
      /\ \A p \in Places : disk[p] # None \/ p = Tmp(n) => disk'[p] # None
  <2> DEFINE f == File(<<>>, Touching(Tmp(n)) # {})
  <2>1. f \in Files /\ Len(f.contents) <= Chunks /\ f # None BY ContentsAre, WorkspaceAssumption
  <2>2. disk' = [disk EXCEPT ![Tmp(n)] = f] BY DEF UploadBegins
  <2> HIDE DEF f
  <2>3. QED BY <2>1, <2>2, PlacesAre DEF TypeOK
<1>6. ASSUME NEW v \in Uploads, up'[v] # None
      PROVE  up'[v].off <= up'[v].size /\ (up'[v].at = Gone \/ disk'[up'[v].at] # None)
  <2>1. CASE v = u
    <3>1. up'[v] = new BY <1>2, <2>1 DEF TypeOK
    <3>2. QED BY <1>4, <3>1, PlacesAre
  <2>2. CASE v # u
    <3>1. up'[v] = up[v] /\ up[v] \in Upload BY <1>2, <1>6, <2>2 DEF TypeOK
    <3>2. up[v].at \in Places \cup {Gone} BY <3>1 DEF Upload
    <3>3. QED BY <1>4, <1>6, <3>1, <3>2 DEF TypeOK, Open
  <2>3. QED BY <2>1, <2>2
<1>7. QED BY <1>3, <1>4, <1>6 DEF TypeOK, Open

\* A chunk is written to the file the handle is at.
LEMMA ChunkIs ==
    ASSUME TypeOK, NEW u \in Uploads, UploadChunk(u)
    PROVE  /\ up[u] \in Upload /\ up'[u] = [up[u] EXCEPT !.off = @ + 1]
           /\ up'[u] \in Upload /\ up'[u].off <= up'[u].size
           /\ \A v \in Uploads : v # u => up'[v] = up[v]
           /\ \A p \in Places : p # up[u].at => disk'[p] = disk[p]
           /\ up[u].at # Gone =>
                LET f == disk'[up[u].at]
                IN  /\ f \in Files /\ Len(f.contents) <= Chunks /\ f.mixed = disk[up[u].at].mixed
                    /\ f.contents = Written(disk[up[u].at].contents, up[u].off + 1, Cell(u, up[u].off + 1))
<1> DEFINE p == up[u].at
           off == up[u].off
<1>1. up[u] \in Upload /\ off \in 0..Chunks /\ up[u].size \in 1..(Chunks + 1)
      /\ off < up[u].size /\ off < Chunks
  BY DEF UploadChunk, TypeOK, Open, Upload
<1>2. off + 1 \in 0..Chunks /\ off + 1 <= up[u].size BY <1>1, WorkspaceAssumption
<1>3. /\ up'[u] = [up[u] EXCEPT !.off = off + 1] /\ \A v \in Uploads : v # u => up'[v] = up[v]
  BY DEF UploadChunk, TypeOK
<1>4. up'[u] \in Upload /\ up'[u].off <= up'[u].size BY <1>1, <1>2, <1>3 DEF Upload
<1>5. \A q \in Places : q # p => disk'[q] = disk[q] BY DEF UploadChunk
<1>6. ASSUME p # Gone
      PROVE  LET f == disk'[p]
             IN  /\ f \in Files /\ Len(f.contents) <= Chunks /\ f.mixed = disk[p].mixed
                 /\ f.contents = Written(disk[p].contents, off + 1, Cell(u, off + 1))
  <2> DEFINE c == Written(disk[p].contents, off + 1, Cell(u, off + 1))
  <2>1. p \in Places /\ disk[p] # None BY <1>1, <1>6 DEF Upload, TypeOK, UploadChunk, Open
  <2>2. disk[p] \in Files /\ disk[p].contents \in Seq(CellOf) /\ Len(disk[p].contents) \in 0..Chunks
    BY <2>1, FileIs
  <2>3. disk'[p] = [disk[p] EXCEPT !.contents = c] BY <2>1 DEF UploadChunk
  <2>4. off + 1 \in Nat \ {0} BY <1>1
  <2>5. c \in Seq(CellOf) /\ Len(c) <= Chunks
    <3>1. Cell(u, off + 1) \in CellOf /\ Hole \in CellOf BY <2>4, ContentsAre
    <3>2. /\ c \in Seq(CellOf)
          /\ Len(c) = IF Len(disk[p].contents) < off + 1 THEN off + 1 ELSE Len(disk[p].contents)
      BY <2>2, <2>4, <3>1, WrittenIs
    <3>3. QED BY <1>2, <2>2, <3>2, WorkspaceAssumption
  <2> HIDE DEF c
  <2>6. disk'[p].contents = c /\ disk'[p].mixed = disk[p].mixed /\ disk'[p] \in Files
    BY <2>2, <2>3, <2>5 DEF Files, CellOf
  <2>7. QED BY <2>5, <2>6 DEF c
<1>7. QED BY <1>1, <1>3, <1>4, <1>5, <1>6

LEMMA NextTypeOK == TypeOK /\ [Next]_vars => TypeOK'
<1> SUFFICES ASSUME TypeOK, [Next]_vars PROVE TypeOK' OBVIOUS
<1>1. ASSUME NEW n \in Names, Create(n) PROVE TypeOK'
  <2>1. File(Created, FALSE) \in Files BY ContentsAre
  <2>2. Len(File(Created, FALSE).contents) <= Chunks BY ContentsAre, WorkspaceAssumption
  <2>3. /\ disk' = [disk EXCEPT ![Doc(n)] = File(Created, FALSE)] /\ up' = up BY <1>1 DEF Create
  <2>4. disk' \in [Places -> {None} \cup Files] BY <2>1, <2>3 DEF TypeOK
  <2>5. \A p \in Places : disk'[p] # None => Len(disk'[p].contents) <= Chunks
    BY <2>2, <2>3 DEF TypeOK
  <2>6. \A p \in Places : disk[p] # None => disk'[p] # None
    BY <2>1, <2>3, WorkspaceAssumption DEF TypeOK
  <2>7. \A u \in Uploads : Open(u) => up[u].at \in Places \cup {Gone} BY DEF TypeOK, Open, Upload
  <2>8. QED BY <2>3, <2>4, <2>5, <2>6, <2>7 DEF TypeOK, Open
<1>2. ASSUME NEW p \in Places, Delete(p) PROVE TypeOK'
  BY <1>2, ReplaceType DEF Delete, TypeOK
<1>3. ASSUME NEW p \in Places, Save(p) PROVE TypeOK'
  <2>1. File(Saved, FALSE) \in Files /\ Len(File(Saved, FALSE).contents) <= Chunks
    BY ContentsAre, WorkspaceAssumption
  <2>2. QED BY <1>3, <2>1, ReplaceType DEF Save, TypeOK
<1>4. ASSUME NEW p \in Places, NEW q \in Places, Rename(p, q) PROVE TypeOK'
  <2>1. up \in [Uploads -> {None} \cup Upload] BY DEF TypeOK
  <2>2. QED BY <1>4, <2>1, RenameIs, MoveType
<1>5. ASSUME NEW u \in Uploads, UploadChunk(u) PROVE TypeOK'
  <2>1. up' \in [Uploads -> {None} \cup Upload] BY <1>5, ChunkIs DEF UploadChunk, TypeOK
  <2> DEFINE q == up[u].at
  <2>2. /\ \A p \in Places : p # q => disk'[p] = disk[p]
        /\ q # Gone => disk'[q] \in Files /\ Len(disk'[q].contents) <= Chunks
    BY <1>5, ChunkIs
  <2> HIDE DEF q
  <2>3. ASSUME NEW p \in Places
        PROVE  /\ disk'[p] \in {None} \cup Files
               /\ disk'[p] # None => Len(disk'[p].contents) <= Chunks
               /\ disk[p] # None => disk'[p] # None
    <3>1. CASE p = q BY <2>2, <3>1, WorkspaceAssumption
    <3>2. CASE p # q BY <2>2, <3>2 DEF TypeOK
    <3>3. QED BY <3>1, <3>2
  <2>4. disk' \in [Places -> {None} \cup Files] BY <1>5, <2>3 DEF UploadChunk
  <2>5. \A v \in Uploads : up'[v] # None =>
          up[v] # None /\ up'[v].at = up[v].at /\ up[v].at \in Places \cup {Gone} /\ up'[v].off <= up'[v].size
    BY <1>5, ChunkIs, WorkspaceAssumption DEF TypeOK, Open, Upload
  <2>6. QED BY <2>1, <2>2, <2>3, <2>4, <2>5 DEF TypeOK, Open
<1>6. ASSUME NEW u \in Uploads, UploadTooBig(u) PROVE TypeOK'
  <2>1. up[u].name \in Names BY <1>6 DEF UploadTooBig, TypeOK, Open, Upload
  <2>2. Tmp(up[u].name) \in Places BY <2>1, PlacesAre
  <2>3. disk' = [disk EXCEPT ![Tmp(up[u].name)] = None] /\ up' = Follow(Closed(u), Tmp(up[u].name), Gone)
    BY <1>6 DEF UploadTooBig
  <2>4. QED BY <2>2, <2>3, ReplaceType, ClosedIs
<1>7. ASSUME NEW u \in Uploads, Open(u), up' = Closed(u), UNCHANGED disk PROVE TypeOK'
  BY <1>7, ClosedIs DEF TypeOK, Open
<1>8. ASSUME NEW u \in Uploads, UploadEnds(u) PROVE TypeOK'
  <2>1. up[u].name \in Names BY <1>8 DEF UploadEnds, TypeOK, Open, Upload
  <2> DEFINE t == Tmp(up[u].name)
             d == Doc(up[u].name)
  <2>2. t \in Places /\ d \in Places /\ t # d BY <2>1, PlacesAre
  <2>3. CASE disk[t] = None BY <1>7, <1>8, <2>3 DEF UploadEnds
  <2>4. CASE disk[t] # None
    <3>1. disk' = [disk EXCEPT ![d] = disk[t], ![t] = None] /\ up' = Follow(Closed(u), t, d)
      BY <1>8, <2>4 DEF UploadEnds, Move
    <3> HIDE DEF t, d
    <3>2. disk[t] \in Files BY <2>2, <2>4 DEF TypeOK
    <3>3. /\ Closed(u) \in [Uploads -> {None} \cup Upload]
          /\ \A v \in Uploads : Closed(u)[v] # None => Closed(u)[v] = up[v]
      BY ClosedIs
    <3>4. QED BY <2>2, <2>4, <3>1, <3>2, <3>3, MoveType
  <2>5. QED BY <2>3, <2>4
<1>9. ASSUME NEW half \in Names \cup {None}, Crash(half) PROVE TypeOK'
  <2>1. up' = [u \in Uploads |-> None] BY <1>9 DEF Crash
  <2>2. CASE UNCHANGED disk BY <2>1, <2>2 DEF TypeOK, Open
  <2>3. CASE half # None /\ disk' = [disk EXCEPT ![Doc(half)] = File(<<>>, TRUE)]
    <3>1. File(<<>>, TRUE) \in Files /\ Len(File(<<>>, TRUE).contents) <= Chunks
      BY ContentsAre, WorkspaceAssumption
    <3>2. QED BY <2>1, <2>3, <3>1, WorkspaceAssumption DEF TypeOK, Open
  <2>4. QED BY <1>9, <2>2, <2>3 DEF Crash
<1>10. CASE UNCHANGED vars BY <1>10 DEF vars, TypeOK, Open
<1>11. QED
  BY <1>1, <1>2, <1>3, <1>4, <1>5, <1>6, <1>7, <1>8, <1>9, <1>10, BeginsType
  DEF Next, UploadBreaksOff

\* Files, handles and offsets keep their types and bounds.
THEOREM TypeCorrect == Spec => []TypeOK
BY InitTypeOK, NextTypeOK, PTL DEF Spec

-----------------------------------------------------------------------------
(* What documents hold *)

Part(u, n) == [i \in 1..n |-> Cell(u, i)]

\* A handle at a temporary name is of an upload of that name, unless the file is
\* mixed.
ITmp ==
    \A u \in Uploads, n \in Names :
      Open(u) /\ up[u].at = Tmp(n) /\ ~disk[Tmp(n)].mixed => n = up[u].name

\* What the temporary file of upload u has: what u, the only upload of the
\* name, has written, or something whole that no upload writes to.
Own(u, n) ==
    \/ /\ up[u].at = Tmp(n) /\ disk[Tmp(n)].contents = Part(u, up[u].off)
       /\ \A v \in Writers(n) : v = u
    \/ /\ disk[Tmp(n)].contents \in Whole
       /\ \A v \in Uploads : Open(v) => up[v].at # Tmp(n)

ISole ==
    \A n \in Names : disk[Tmp(n)] # None /\ ~disk[Tmp(n)].mixed =>
      \A u \in Writers(n) : Own(u, n)

IInv == ITmp /\ ISole /\ DocumentsWhole /\ DocumentsClosed

LEMMA InitIInv == Init => IInv
BY PlacesAre DEF Init, IInv, ITmp, ISole, DocumentsWhole, DocumentsClosed, Open, Writers

\* An upload's temporary file stays its own when the file, the upload's handle
\* and offset stay, and no other handle comes to it and no other upload.
LEMMA OwnStays ==
    ASSUME NEW u \in Uploads, NEW n \in Names, Own(u, n), disk'[Tmp(n)] = disk[Tmp(n)],
           Open(u)', up'[u].off = up[u].off,
           \A v \in Uploads : Open(v)' => /\ Open(v) /\ up'[v].name = up[v].name
                                          /\ up[v].at = Tmp(n) <=> up'[v].at = Tmp(n)
    PROVE  Own(u, n)'
BY DEF Own, Writers, Open, Part, Cell, Tmp

\* A file is replaced by a whole one or taken away.
LEMMA ReplaceIInv ==
    ASSUME TypeOK, IInv, NEW p \in Places, NEW f \in {None} \cup Files,
           f # None => f.contents \in Whole,
           NEW ups \in [Uploads -> {None} \cup Upload],
           \A u \in Uploads : ups[u] # None => ups[u] = up[u],
           disk' = [disk EXCEPT ![p] = f], up' = Follow(ups, p, Gone)
    PROVE  IInv'
<1>1. disk'[p] = f /\ \A q \in Places : q # p => disk'[q] = disk[q] BY DEF TypeOK
<1>2. ASSUME NEW u \in Uploads, Open(u)'
      PROVE  /\ Open(u) /\ up'[u].name = up[u].name /\ up'[u].off = up[u].off
             /\ up'[u].at = IF up[u].at = p THEN Gone ELSE up[u].at
  <2>1. ups[u] # None /\ ups[u] = up[u] BY <1>2, FollowIs DEF Open
  <2>2. QED BY <2>1, FollowIs, WorkspaceAssumption DEF Open
<1>3. ITmp'
  <2> SUFFICES ASSUME NEW u \in Uploads, NEW n \in Names, Open(u)', up'[u].at = Tmp(n),
                      ~disk'[Tmp(n)].mixed
               PROVE  n = up'[u].name
    BY DEF ITmp, Tmp
  <2>1. QED BY <1>1, <1>2, PlacesAre DEF IInv, ITmp
<1>4. DocumentsClosed'
  <2> SUFFICES ASSUME NEW n \in Names, NEW u \in Uploads, Open(u)', up'[u].at = Doc(n)
               PROVE  disk'[Doc(n)].mixed
    BY DEF DocumentsClosed, Doc
  <2>1. Open(u) /\ up[u].at = Doc(n) /\ Doc(n) # p BY <1>2, PlacesAre
  <2>2. QED BY <1>1, <2>1, PlacesAre DEF IInv, DocumentsClosed
<1>5. ISole'
  <2> SUFFICES ASSUME NEW n \in Names, disk'[Tmp(n)] # None, ~disk'[Tmp(n)].mixed,
                      NEW u \in Uploads, Open(u)', up'[u].name = n
               PROVE  Own(u, n)'
    BY DEF ISole, Writers, Open, Tmp
  <2>1. Tmp(n) \in Places /\ u \in Writers(n) BY <1>2, PlacesAre DEF Writers
  <2>2. CASE Tmp(n) = p
    <3>1. disk'[Tmp(n)].contents \in Whole BY <1>1, <2>2
    <3>2. \A v \in Uploads : Open(v)' => up'[v].at # Tmp(n) BY <1>2, <2>2, PlacesAre
    <3>3. QED BY <3>1, <3>2 DEF Own, Writers, Open, Tmp, Part, Cell
  <2>3. CASE Tmp(n) # p
    <3>1. disk'[Tmp(n)] = disk[Tmp(n)] BY <1>1, <2>1, <2>3
    <3>2. Own(u, n) BY <2>1, <3>1 DEF IInv, ISole
    <3>3. \A v \in Uploads : Open(v)' =>
            /\ Open(v) /\ up'[v].name = up[v].name
            /\ up[v].at = Tmp(n) <=> up'[v].at = Tmp(n)
      BY <1>2, <2>3, PlacesAre
    <3>4. up'[u].off = up[u].off BY <1>2
    <3>5. QED BY <3>1, <3>2, <3>3, <3>4, OwnStays
  <2>4. QED BY <2>2, <2>3
<1>6. DocumentsWhole'
  <2> SUFFICES ASSUME NEW n \in Names, disk'[Doc(n)] # None, ~disk'[Doc(n)].mixed
               PROVE  disk'[Doc(n)].contents \in Whole
    BY DEF DocumentsWhole, Doc
  <2>1. CASE Doc(n) = p BY <1>1, <2>1
  <2>2. CASE Doc(n) # p BY <1>1, <2>2, PlacesAre DEF IInv, DocumentsWhole
  <2>3. QED BY <2>1, <2>2
<1>7. QED BY <1>3, <1>4, <1>5, <1>6 DEF IInv

\* A file is renamed and may be marked: it has no handles unless it is marked
\* then, is whole if it becomes a document, and no upload has its new name if
\* that is a temporary one.
LEMMA MoveIInv ==
    ASSUME TypeOK, IInv, NEW p \in Places, NEW q \in Places, p # q, disk[p] # None,
           NEW f \in Files, f.contents = disk[p].contents,
           NEW ups \in [Uploads -> {None} \cup Upload],
           \A u \in Uploads : ups[u] # None => ups[u] = up[u],
           ~f.mixed => /\ \A u \in Uploads : ups[u] # None => ups[u].at # p
                       /\ \A m \in Names : q = Doc(m) => f.contents \in Whole
                       /\ \A m \in Names, u \in Uploads : q = Tmp(m) /\ ups[u] # None => ups[u].name # m,
           disk' = [disk EXCEPT ![q] = f, ![p] = None], up' = Follow(ups, p, q)
    PROVE  IInv'
<1>1. /\ disk'[q] = f /\ disk'[p] = None
      /\ \A r \in Places : r # p /\ r # q => disk'[r] = disk[r]
  BY DEF TypeOK
<1>2. ASSUME NEW u \in Uploads, Open(u)'
      PROVE  /\ Open(u) /\ ups[u] # None /\ ups[u] = up[u]
             /\ up'[u].name = up[u].name /\ up'[u].off = up[u].off
             /\ up'[u].at = IF up[u].at = p THEN q ELSE IF up[u].at = q THEN Gone ELSE up[u].at
  <2>1. ups[u] # None /\ ups[u] = up[u] BY <1>2, FollowIs DEF Open
  <2>2. QED BY <2>1, FollowIs DEF Open
<1>3. ASSUME NEW u \in Uploads, Open(u)', NEW r \in Places, up'[u].at = r
      PROVE  /\ r = q => up[u].at = p
             /\ r # q => r # p /\ up[u].at = r /\ disk'[r] = disk[r]
  <2>1. r # Gone BY WorkspaceAssumption
  <2>2. up'[u].at = IF up[u].at = p THEN q ELSE IF up[u].at = q THEN Gone ELSE up[u].at BY <1>2, <1>3
  <2>3. r # q => r # p /\ up[u].at = r BY <1>3, <2>1, <2>2
  <2>4. r = q => up[u].at = p BY <1>3, <2>1, <2>2
  <2>5. QED BY <1>1, <2>3, <2>4
<1>4. ASSUME NEW u \in Uploads, Open(u)', up'[u].at = q PROVE disk'[q].mixed
  <2>1. ups[u] # None /\ ups[u].at = p BY <1>2, <1>3, <1>4
  <2>2. f.mixed BY <2>1
  <2>3. QED BY <1>1, <2>2
<1>5. ITmp'
  <2> SUFFICES ASSUME NEW u \in Uploads, NEW n \in Names, Open(u)', up'[u].at = Tmp(n),
                      ~disk'[Tmp(n)].mixed
               PROVE  n = up'[u].name
    BY DEF ITmp, Tmp
  <2>1. Tmp(n) \in Places /\ Tmp(n) # q BY <1>4, PlacesAre
  <2>2. up[u].at = Tmp(n) /\ disk'[Tmp(n)] = disk[Tmp(n)] BY <1>3, <2>1
  <2>3. Open(u) /\ up'[u].name = up[u].name BY <1>2
  <2>4. QED BY <2>2, <2>3 DEF IInv, ITmp
<1>6. DocumentsClosed'
  <2> SUFFICES ASSUME NEW n \in Names, NEW u \in Uploads, Open(u)', up'[u].at = Doc(n)
               PROVE  disk'[Doc(n)].mixed
    BY DEF DocumentsClosed, Doc
  <2>1. CASE Doc(n) = q BY <1>4, <2>1
  <2>2. CASE Doc(n) # q
    <3>1. up[u].at = Doc(n) /\ disk'[Doc(n)] = disk[Doc(n)] BY <1>3, <2>2, PlacesAre
    <3>2. Open(u) BY <1>2
    <3>3. QED BY <3>1, <3>2 DEF IInv, DocumentsClosed
  <2>3. QED BY <2>1, <2>2
<1>7. ISole'
  <2> SUFFICES ASSUME NEW n \in Names, disk'[Tmp(n)] # None, ~disk'[Tmp(n)].mixed,
                      NEW u \in Uploads, Open(u)', up'[u].name = n
               PROVE  Own(u, n)'
    BY DEF ISole, Writers, Open, Tmp
  <2>1. Tmp(n) \in Places /\ Tmp(n) # p /\ u \in Writers(n) BY <1>1, <1>2, PlacesAre DEF Writers
  <2>2. Tmp(n) # q BY <1>1, <1>2
  <2>3. disk'[Tmp(n)] = disk[Tmp(n)] BY <1>1, <2>1, <2>2
  <2>4. Own(u, n) BY <2>1, <2>3 DEF IInv, ISole
  <2>5. \A v \in Uploads : Open(v)' =>
          /\ Open(v) /\ up'[v].name = up[v].name
          /\ up[v].at = Tmp(n) <=> up'[v].at = Tmp(n)
    BY <1>2, <2>1, <2>2, PlacesAre
  <2>6. QED BY <1>2, <2>3, <2>4, <2>5, OwnStays
<1>8. DocumentsWhole'
  <2> SUFFICES ASSUME NEW n \in Names, disk'[Doc(n)] # None, ~disk'[Doc(n)].mixed
               PROVE  disk'[Doc(n)].contents \in Whole
    BY DEF DocumentsWhole, Doc
  <2>1. Doc(n) \in Places /\ Doc(n) # p BY <1>1, PlacesAre
  <2>2. CASE Doc(n) = q BY <1>1, <2>2
  <2>3. CASE Doc(n) # q BY <1>1, <2>1, <2>3 DEF IInv, DocumentsWhole
  <2>4. QED BY <2>2, <2>3
<1>9. QED BY <1>5, <1>6, <1>7, <1>8 DEF IInv

\* No handle is at a document that is not there, so a new one harms none.
LEMMA CreateIInv ==
    ASSUME TypeOK, IInv, NEW n \in Names, NEW f \in Files, disk[Doc(n)] = None,
           f.mixed \/ f.contents \in Whole,
           \/ up' = up
           \/ up' = [u \in Uploads |-> None],
           disk' = [disk EXCEPT ![Doc(n)] = f]
    PROVE  IInv'
<1>1. disk'[Doc(n)] = f /\ \A q \in Places : q # Doc(n) => disk'[q] = disk[q]
  BY PlacesAre DEF TypeOK
<1>2. \A u \in Uploads : Open(u)' => Open(u) /\ up'[u] = up[u] /\ up[u].at # Doc(n)
  BY PlacesAre DEF TypeOK, Open
<1>3. ITmp' BY <1>1, <1>2, PlacesAre DEF IInv, ITmp, Tmp
<1>4. DocumentsClosed' BY <1>1, <1>2, PlacesAre DEF IInv, DocumentsClosed, Doc
<1>5. ISole'
  <2> SUFFICES ASSUME NEW m \in Names, disk'[Tmp(m)] # None, ~disk'[Tmp(m)].mixed,
                      NEW u \in Uploads, Open(u)', up'[u].name = m
               PROVE  Own(u, m)'
    BY DEF ISole, Writers, Open, Tmp
  <2>1. disk'[Tmp(m)] = disk[Tmp(m)] /\ u \in Writers(m) BY <1>1, <1>2, PlacesAre DEF Writers
  <2>2. Own(u, m) BY <2>1 DEF IInv, ISole
  <2>3. QED BY <1>2, <2>1, <2>2, OwnStays
<1>6. DocumentsWhole'
  BY <1>1, PlacesAre DEF IInv, DocumentsWhole, Doc
<1>7. QED BY <1>3, <1>4, <1>5, <1>6 DEF IInv

\* Uploads that end, with nothing changed on disk.
LEMMA FewerIInv ==
    ASSUME IInv, UNCHANGED disk, \A u \in Uploads : up'[u] # None => up'[u] = up[u]
    PROVE  IInv'
<1>1. \A u \in Uploads : Open(u)' => Open(u) /\ up'[u] = up[u] BY DEF Open
<1>2. ITmp' BY <1>1 DEF IInv, ITmp, Tmp
<1>3. DocumentsClosed' BY <1>1 DEF IInv, DocumentsClosed, Doc
<1>4. ISole'
  <2> SUFFICES ASSUME NEW m \in Names, disk'[Tmp(m)] # None, ~disk'[Tmp(m)].mixed,
                      NEW u \in Uploads, Open(u)', up'[u].name = m
               PROVE  Own(u, m)'
    BY DEF ISole, Writers, Open, Tmp
  <2>1. u \in Writers(m) BY <1>1 DEF Writers
  <2>2. Own(u, m) BY <2>1 DEF IInv, ISole
  <2>3. QED BY <1>1, <2>2, OwnStays
<1>5. DocumentsWhole' BY DEF IInv, DocumentsWhole, Doc
<1>6. QED BY <1>2, <1>3, <1>4, <1>5 DEF IInv

LEMMA PartLonger ==
    ASSUME NEW u \in Uploads, NEW n \in Nat
    PROVE  Written(Part(u, n), n + 1, Cell(u, n + 1)) = Part(u, n + 1)
<1>1. Len(Part(u, n)) = n /\ \A i \in 1..n : Part(u, n)[i] = Cell(u, i) BY DEF Part
<1>2. Written(Part(u, n), n + 1, Cell(u, n + 1))
        = [i \in 1..(n + 1) |-> IF i = n + 1 THEN Cell(u, n + 1) ELSE IF i <= n THEN Part(u, n)[i] ELSE Hole]
  BY <1>1 DEF Written
<1>3. \A i \in 1..(n + 1) :
        (IF i = n + 1 THEN Cell(u, n + 1) ELSE IF i <= n THEN Part(u, n)[i] ELSE Hole) = Cell(u, i)
  BY <1>1
<1>4. QED BY <1>2, <1>3 DEF Part

\* An upload that begins while another has the temporary file, by its name or by
\* a handle, marks it.
LEMMA BeginsIInv ==
    ASSUME TypeOK, IInv, NEW u \in Uploads, NEW n \in Names, NEW size \in 1..(Chunks + 1),
           UploadBegins(u, n, size)
    PROVE  IInv'
<1> DEFINE new == [name |-> n, at |-> Tmp(n), off |-> 0, size |-> size]
<1>1. up'[u] = new /\ (\A v \in Uploads : v # u => up'[v] = up[v]) /\ up[u] = None /\ new # None
  <2>1. new \in Upload BY PlacesAre, WorkspaceAssumption DEF Upload
  <2>2. QED BY <2>1, WorkspaceAssumption DEF UploadBegins, TypeOK, Open
<1> HIDE DEF new
<1>2. /\ disk'[Tmp(n)].contents = <<>> /\ disk'[Tmp(n)].mixed = (Touching(Tmp(n)) # {})
      /\ \A p \in Places : p # Tmp(n) => disk'[p] = disk[p]
  <2>1. disk' = [disk EXCEPT ![Tmp(n)] = File(<<>>, Touching(Tmp(n)) # {})] BY DEF UploadBegins
  <2>2. QED BY <2>1, PlacesAre DEF File, TypeOK
<1>3. \A v \in Uploads : Open(v)' => v = u \/ (v # u /\ Open(v) /\ up'[v] = up[v]) BY <1>1 DEF Open
<1>4. ~disk'[Tmp(n)].mixed =>
        \A v \in Uploads : Open(v)' /\ (up'[v].name = n \/ up'[v].at = Tmp(n)) => v = u
  BY <1>2, <1>3 DEF Touching, Writers
<1>5. ITmp'
  <2> SUFFICES ASSUME NEW v \in Uploads, NEW m \in Names, Open(v)', up'[v].at = Tmp(m),
                      ~disk'[Tmp(m)].mixed
               PROVE  m = up'[v].name
    BY DEF ITmp, Tmp
  <2>1. CASE v = u BY <1>1, <2>1, PlacesAre DEF new
  <2>2. CASE v # u
    <3>1. m # n BY <1>4, <2>2
    <3>2. disk'[Tmp(m)] = disk[Tmp(m)] BY <1>2, <3>1, PlacesAre
    <3>3. QED BY <1>3, <2>2, <3>2 DEF IInv, ITmp
  <2>3. QED BY <2>1, <2>2
<1>6. DocumentsClosed'
  <2> SUFFICES ASSUME NEW m \in Names, NEW v \in Uploads, Open(v)', up'[v].at = Doc(m)
               PROVE  disk'[Doc(m)].mixed
    BY DEF DocumentsClosed, Doc
  <2>1. v # u BY <1>1, PlacesAre DEF new
  <2>2. QED BY <1>2, <1>3, <2>1, PlacesAre DEF IInv, DocumentsClosed
<1>7. ISole'
  <2> SUFFICES ASSUME NEW m \in Names, disk'[Tmp(m)] # None, ~disk'[Tmp(m)].mixed,
                      NEW v \in Uploads, Open(v)', up'[v].name = m
               PROVE  Own(v, m)'
    BY DEF ISole, Writers, Open, Tmp
  <2>1. CASE m = n
    <3>1. v = u /\ \A w \in Uploads : Open(w)' /\ up'[w].name = n => w = u BY <1>4, <2>1
    <3>2. up'[u].at = Tmp(n) /\ up'[u].off = 0 BY <1>1 DEF new
    <3>3. disk'[Tmp(n)].contents = Part(u, 0) BY <1>2 DEF Part
    <3>4. QED BY <2>1, <3>1, <3>2, <3>3 DEF Own, Writers, Open, Tmp, Part, Cell
  <2>2. CASE m # n
    <3>1. v # u BY <1>1, <2>2 DEF new
    <3>2. v \in Writers(m) BY <1>3, <3>1 DEF Writers
    <3>3. disk'[Tmp(m)] = disk[Tmp(m)] BY <1>2, <2>2, PlacesAre
    <3>4. Own(v, m) BY <3>2, <3>3 DEF IInv, ISole
    <3>5. up'[u].name # m /\ up'[u].at # Tmp(m) BY <1>1, <2>2, PlacesAre DEF new
    <3>6. \A w \in Uploads : Open(w)' /\ w # u => Open(w) /\ up'[w] = up[w] BY <1>3
    <3>7. up'[v] = up[v] BY <1>1, <3>1
    <3>8. CASE /\ up[v].at = Tmp(m) /\ disk[Tmp(m)].contents = Part(v, up[v].off)
               /\ \A w \in Writers(m) : w = v
      <4>1. \A w \in Uploads : Open(w)' /\ up'[w].name = m => w = v BY <3>5, <3>6, <3>8 DEF Writers
      <4>2. QED BY <3>3, <3>7, <3>8, <4>1 DEF Own, Writers, Open, Tmp, Part, Cell
    <3>9. CASE /\ disk[Tmp(m)].contents \in Whole
               /\ \A w \in Uploads : Open(w) => up[w].at # Tmp(m)
      <4>1. \A w \in Uploads : Open(w)' => up'[w].at # Tmp(m) BY <3>5, <3>6, <3>9
      <4>2. QED BY <3>3, <3>9, <4>1 DEF Own, Writers, Open, Tmp, Part, Cell
    <3>10. QED BY <3>4, <3>8, <3>9 DEF Own
  <2>3. QED BY <2>1, <2>2
<1>8. DocumentsWhole'
  <2> SUFFICES ASSUME NEW m \in Names, disk'[Doc(m)] # None, ~disk'[Doc(m)].mixed
               PROVE  disk'[Doc(m)].contents \in Whole
    BY DEF DocumentsWhole, Doc
  <2>1. disk'[Doc(m)] = disk[Doc(m)] BY <1>2, PlacesAre
  <2>2. QED BY <2>1 DEF IInv, DocumentsWhole
<1>9. QED BY <1>5, <1>6, <1>7, <1>8 DEF IInv

\* A chunk goes to a temporary file, to no file, or to a mixed one.
LEMMA ChunkIInv ==
    ASSUME TypeOK, IInv, NEW u \in Uploads, UploadChunk(u)
    PROVE  IInv'
<1> DEFINE q == up[u].at
<1>1. /\ up[u] \in Upload /\ up'[u] = [up[u] EXCEPT !.off = @ + 1]
      /\ \A v \in Uploads : v # u => up'[v] = up[v]
      /\ \A p \in Places : p # q => disk'[p] = disk[p]
      /\ q # Gone => /\ disk'[q].mixed = disk[q].mixed
                     /\ disk'[q].contents = Written(disk[q].contents, up[u].off + 1, Cell(u, up[u].off + 1))
  BY ChunkIs
<1>2. up'[u].name = up[u].name /\ up'[u].at = q /\ up'[u].off = up[u].off + 1
  BY <1>1 DEF Upload
<1>3. Open(u) BY DEF UploadChunk
<1> HIDE DEF q
<1>4. \A v \in Uploads : Open(v)' => Open(v) /\ up'[v].name = up[v].name /\ up'[v].at = up[v].at
  BY <1>1, <1>2, <1>3 DEF Open, q
<1>5. \A p \in Places : p # q \/ disk'[p].mixed = disk[p].mixed BY <1>1, PlacesAre, WorkspaceAssumption
<1>6. q # Gone => q \in Places /\ disk[q] # None BY <1>1, <1>3 DEF q, Upload, TypeOK, Open
<1>7. ITmp'
  <2> SUFFICES ASSUME NEW v \in Uploads, NEW m \in Names, Open(v)', up'[v].at = Tmp(m),
                      ~disk'[Tmp(m)].mixed
               PROVE  m = up'[v].name
    BY DEF ITmp, Tmp
  <2>1. ~disk[Tmp(m)].mixed BY <1>5, <1>1, PlacesAre
  <2>2. QED BY <1>4, <2>1 DEF IInv, ITmp
<1>8. DocumentsClosed'
  <2> SUFFICES ASSUME NEW m \in Names, NEW v \in Uploads, Open(v)', up'[v].at = Doc(m)
               PROVE  disk'[Doc(m)].mixed
    BY DEF DocumentsClosed, Doc
  <2>1. disk[Doc(m)].mixed BY <1>4 DEF IInv, DocumentsClosed
  <2>2. QED BY <1>1, <1>5, <2>1, PlacesAre
<1>9. ISole'
  <2> SUFFICES ASSUME NEW m \in Names, disk'[Tmp(m)] # None, ~disk'[Tmp(m)].mixed,
                      NEW v \in Uploads, Open(v)', up'[v].name = m
               PROVE  Own(v, m)'
    BY DEF ISole, Writers, Open, Tmp
  <2>1. v \in Writers(m) /\ \A w \in Uploads : Open(w)' /\ up'[w].name = m => w \in Writers(m)
    BY <1>4 DEF Writers
  <2>2. Tmp(m) \in Places BY PlacesAre
  <2>3. disk[Tmp(m)] # None /\ ~disk[Tmp(m)].mixed
    <3>1. CASE Tmp(m) = q BY <1>5, <1>6, <2>2, <3>1, PlacesAre
    <3>2. CASE Tmp(m) # q BY <1>1, <2>2, <3>2
    <3>3. QED BY <3>1, <3>2
  <2>4. Own(v, m) BY <2>1, <2>3 DEF IInv, ISole
  <2>5. CASE q # Tmp(m)
    <3>1. disk'[Tmp(m)] = disk[Tmp(m)] BY <1>1, <2>2, <2>5
    <3>2. CASE v # u BY <1>1, <1>4, <2>4, <2>5, <3>1, <3>2, OwnStays
    <3>3. CASE v = u
      <4>1. /\ disk[Tmp(m)].contents \in Whole
            /\ \A w \in Uploads : Open(w) => up[w].at # Tmp(m)
        BY <2>4, <2>5, <3>3 DEF Own, q
      <4>2. \A w \in Uploads : Open(w)' => up'[w].at # Tmp(m) BY <1>4, <4>1
      <4>3. QED BY <3>1, <4>1, <4>2 DEF Own, Writers, Open, Tmp, Part, Cell
    <3>4. QED BY <3>2, <3>3
  <2>6. CASE q = Tmp(m)
    <3>1. u \in Writers(m) BY <1>3, <2>3, <2>6 DEF IInv, ITmp, Writers, q
    <3>2. /\ up[v].at = Tmp(m) /\ disk[Tmp(m)].contents = Part(v, up[v].off)
          /\ \A w \in Writers(m) : w = v
      BY <1>3, <2>4, <2>6 DEF Own, q
    <3>3. v = u BY <3>1, <3>2
    <3>4. up[u].off \in Nat BY <1>1 DEF Upload
    <3>5. disk'[Tmp(m)].contents = Written(Part(u, up[u].off), up[u].off + 1, Cell(u, up[u].off + 1))
      BY <1>1, <2>6, <3>2, <3>3, PlacesAre
    <3>6. disk'[Tmp(m)].contents = Part(u, up'[u].off) BY <1>2, <3>4, <3>5, PartLonger
    <3>7. up'[u].at = Tmp(m) /\ \A w \in Uploads : Open(w)' /\ up'[w].name = m => w = u
      BY <1>2, <2>1, <2>6, <3>2, <3>3
    <3>8. QED BY <3>3, <3>6, <3>7 DEF Own, Writers, Open, Tmp, Part, Cell
  <2>7. QED BY <2>5, <2>6
<1>10. DocumentsWhole'
  <2> SUFFICES ASSUME NEW m \in Names, disk'[Doc(m)] # None, ~disk'[Doc(m)].mixed
               PROVE  disk'[Doc(m)].contents \in Whole
    BY DEF DocumentsWhole, Doc
  <2>1. Doc(m) # q
    <3>1. Doc(m) = q => disk[Doc(m)].mixed BY <1>3 DEF IInv, DocumentsClosed, q
    <3>2. QED BY <1>5, <3>1, PlacesAre
  <2>2. disk'[Doc(m)] = disk[Doc(m)] BY <1>1, <2>1, PlacesAre
  <2>3. QED BY <2>2 DEF IInv, DocumentsWhole
<1>11. QED BY <1>7, <1>8, <1>9, <1>10 DEF IInv

\* An upload that ends moves its own chunks, a whole file or a mixed one to the
\* document.
LEMMA EndsIInv ==
    ASSUME TypeOK, IInv, NEW u \in Uploads, UploadEnds(u), disk[Tmp(up[u].name)] # None
    PROVE  IInv'
<1> DEFINE n == up[u].name
<1>1. Open(u) /\ n \in Names /\ up[u].off = up[u].size /\ up[u].off \in 1..Chunks
  BY WorkspaceAssumption DEF UploadEnds, TypeOK, Open, Upload
<1>2. /\ disk' = [disk EXCEPT ![Doc(n)] = disk[Tmp(n)], ![Tmp(n)] = None]
      /\ up' = Follow(Closed(u), Tmp(n), Doc(n)) /\ disk[Tmp(n)] # None
  BY DEF UploadEnds, Move
<1> HIDE DEF n
<1>3. /\ Tmp(n) \in Places /\ Doc(n) \in Places /\ Tmp(n) # Doc(n) /\ disk[Tmp(n)] \in Files
      /\ \A m \in Names : Doc(n) # Tmp(m)
  BY <1>1, <1>2, PlacesAre DEF TypeOK
<1>4. /\ Closed(u) \in [Uploads -> {None} \cup Upload] /\ Closed(u)[u] = None
      /\ \A v \in Uploads : Closed(u)[v] # None => v # u /\ Closed(u)[v] = up[v]
  BY ClosedIs
<1>5. ASSUME ~disk[Tmp(n)].mixed
      PROVE  /\ disk[Tmp(n)].contents \in Whole
             /\ \A v \in Uploads : Closed(u)[v] # None => Closed(u)[v].at # Tmp(n)
  <2>1. u \in Writers(n) BY <1>1 DEF Writers, n
  <2>2. Own(u, n) BY <1>1, <1>2, <1>5, <2>1 DEF IInv, ISole
  <2>3. Part(u, up[u].off) \in Whole BY <1>1 DEF Part, Whole
  <2>4. disk[Tmp(n)].contents \in Whole BY <2>2, <2>3 DEF Own
  <2>5. \A v \in Uploads : Open(v) /\ up[v].at = Tmp(n) => v = u
    BY <1>1, <1>5, <2>2 DEF IInv, ITmp, Writers, Own
  <2>6. QED BY <1>4, <2>4, <2>5 DEF Open
<1>6. QED BY <1>1, <1>2, <1>3, <1>4, <1>5, MoveIInv

LEMMA NextIInv == TypeOK /\ IInv /\ [Next]_vars => IInv'
<1> SUFFICES ASSUME TypeOK, IInv, [Next]_vars PROVE IInv' OBVIOUS
<1>1. ASSUME NEW n \in Names, Create(n) PROVE IInv'
  <2>1. File(Created, FALSE) \in Files /\ File(Created, FALSE).contents \in Whole
    <3>1. Created \in Whole BY DEF Whole
    <3>2. QED BY <3>1, ContentsAre
  <2>2. QED BY <1>1, <2>1, CreateIInv DEF Create
<1>2. ASSUME NEW p \in Places, Delete(p) PROVE IInv'
  BY <1>2, ReplaceIInv DEF Delete, TypeOK
<1>3. ASSUME NEW p \in Places, Save(p) PROVE IInv'
  <2>1. File(Saved, FALSE) \in Files /\ File(Saved, FALSE).contents \in Whole
    <3>1. Saved \in Whole BY DEF Whole
    <3>2. QED BY <3>1, ContentsAre
  <2>2. QED BY <1>3, <2>1, ReplaceIInv DEF Save, TypeOK
<1>4. ASSUME NEW p \in Places, NEW q \in Places, Rename(p, q) PROVE IInv'
  <2> DEFINE f == Renamed(p, q)
  <2>1. /\ p # q /\ disk[p] # None /\ f \in Files /\ f.contents = disk[p].contents
        /\ f.mixed = (disk[p].mixed \/ Touching(p) \cup Touching(q) # {})
        /\ disk' = [disk EXCEPT ![q] = f, ![p] = None] /\ up' = Follow(up, p, q)
    BY <1>4, RenameIs
  <2>2. up \in [Uploads -> {None} \cup Upload] BY DEF TypeOK
  <2> HIDE DEF f
  <2>3. ASSUME ~f.mixed
        PROVE  /\ \A u \in Uploads : up[u] # None => up[u].at # p
               /\ \A m \in Names : q = Doc(m) => f.contents \in Whole
               /\ \A m \in Names, u \in Uploads : q = Tmp(m) /\ up[u] # None => up[u].name # m
    <3>1. ~disk[p].mixed /\ Touching(p) = {} /\ Touching(q) = {} BY <2>1, <2>3
    <3>2. \A u \in Uploads : up[u] # None => up[u].at # p /\ Tmp(up[u].name) # q
      BY <3>1 DEF Touching, Open
    <3>3. ASSUME NEW m \in Names, q = Doc(m) PROVE f.contents \in Whole
      <4>1. PICK n \in Names : p = Doc(n) BY <1>4, <3>3 DEF Rename, Places, Doc
      <4>2. QED BY <2>1, <3>1, <4>1 DEF IInv, DocumentsWhole
    <3>4. QED BY <3>2, <3>3
  <2>4. QED BY <2>1, <2>2, <2>3, MoveIInv
<1>5. ASSUME NEW u \in Uploads, UploadTooBig(u) PROVE IInv'
  <2>1. up[u].name \in Names BY <1>5 DEF UploadTooBig, TypeOK, Open, Upload
  <2>2. disk' = [disk EXCEPT ![Tmp(up[u].name)] = None] /\ up' = Follow(Closed(u), Tmp(up[u].name), Gone)
    BY <1>5 DEF UploadTooBig
  <2>3. QED BY <2>1, <2>2, ReplaceIInv, ClosedIs, PlacesAre
<1>6. ASSUME NEW u \in Uploads, Open(u), up' = Closed(u), UNCHANGED disk PROVE IInv'
  BY <1>6, ClosedIs, FewerIInv
<1>7. ASSUME NEW u \in Uploads, UploadEnds(u) PROVE IInv'
  <2>1. CASE disk[Tmp(up[u].name)] = None BY <1>6, <1>7, <2>1 DEF UploadEnds
  <2>2. CASE disk[Tmp(up[u].name)] # None BY <1>7, <2>2, EndsIInv
  <2>3. QED BY <2>1, <2>2
<1>8. ASSUME NEW half \in Names \cup {None}, Crash(half) PROVE IInv'
  <2>1. up' = [u \in Uploads |-> None] BY <1>8 DEF Crash
  <2>2. CASE UNCHANGED disk BY <2>1, <2>2, FewerIInv
  <2>3. CASE half # None /\ disk[Doc(half)] = None /\ disk' = [disk EXCEPT ![Doc(half)] = File(<<>>, TRUE)]
    <3>1. File(<<>>, TRUE) \in Files /\ File(<<>>, TRUE).mixed BY ContentsAre
    <3>2. QED BY <2>1, <2>3, <3>1, CreateIInv
  <2>4. QED BY <1>8, <2>2, <2>3 DEF Crash
<1>9. CASE UNCHANGED vars BY <1>9, FewerIInv DEF vars
<1>10. QED
  BY <1>1, <1>2, <1>3, <1>4, <1>5, <1>6, <1>7, <1>8, <1>9, BeginsIInv, ChunkIInv
  DEF Next, UploadBreaksOff

LEMMA SpecIInv == Spec => []IInv
BY InitIInv, NextIInv, TypeCorrect, PTL DEF Spec

\* A document holds one write in full unless another upload or rename_file
\* touched its temporary file, or create_file was cut off.
THEOREM DocumentsWholeHolds == Spec => []DocumentsWhole
<1>1. IInv => DocumentsWhole BY DEF IInv
<1>2. QED BY SpecIInv, <1>1, PTL

\* No upload under way can write to a document unless another upload or
\* rename_file touched its temporary file.
THEOREM DocumentsClosedHolds == Spec => []DocumentsClosed
<1>1. IInv => DocumentsClosed BY DEF IInv
<1>2. QED BY SpecIInv, <1>1, PTL

=============================================================================
