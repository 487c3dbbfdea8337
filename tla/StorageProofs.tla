---------------------------- MODULE StorageProofs ---------------------------
(***************************************************************************)
(* Proofs about Storage: the type invariant, whose files a new account can *)
(* find, whose files a deletion takes, and how long a link stays.          *)
(***************************************************************************)
EXTENDS Storage, TLAPS

-----------------------------------------------------------------------------
(* The type invariant *)

\* A handler that found an account knows its id.
ReqInv == \A r \in Requests : req[r] # None /\ req[r].op # "create" => req[r].id \in 1..lastId

TInv == TypeOK /\ ReqInv

\* A handler under way, and its account.
LEMMA ReqTyped ==
    ASSUME TypeOK, NEW r \in Requests, req[r] # None
    PROVE  req[r] \in Handler /\ req[r].user \in Users /\ req[r].id \in 0..lastId
<1>1. req[r] \in [op : Ops, user : Users, id : 0..lastId, at : {"write", "finish"}] BY DEF TypeOK
<1>2. lastId \in Nat BY StorageAssumption DEF TypeOK
<1>3. QED BY <1>1, <1>2 DEF Handler

LEMMA InitTInv == Init => TInv
  BY StorageAssumption DEF Init, TInv, TypeOK, ReqInv

\* The four handlers' ends do the same to req.
LEMMA EndsType ==
    ASSUME TInv, NEW r \in Requests, Ends(r), lastId' \in {lastId, lastId + 1}
    PROVE  /\ req' \in [Requests -> {None} \cup [op : Ops, user : Users, id : 0..lastId', at : {"write", "finish"}]]
           /\ ReqInv'
<1>1. 0..lastId \subseteq 0..lastId' /\ 1..lastId \subseteq 1..lastId' BY StorageAssumption DEF TInv, TypeOK
<1>2. \A q \in Requests : req'[q] = IF q = r THEN None ELSE req[q] BY DEF Ends, TInv, TypeOK
<1>3. \A q \in Requests : req[q] \in {None} \cup [op : Ops, user : Users, id : 0..lastId', at : {"write", "finish"}]
  BY <1>1 DEF TInv, TypeOK
<1>4. req' = [q \in Requests |-> req'[q]] BY DEF Ends, TInv, TypeOK
<1>5. QED BY <1>1, <1>2, <1>3, <1>4 DEF TInv, ReqInv

LEMMA NextTInv == TInv /\ [Next]_vars => TInv'
<1> SUFFICES ASSUME TInv, [Next]_vars PROVE TInv' OBVIOUS
<1> TypeOK /\ ReqInv BY DEF TInv
<1> USE StorageAssumption DEF clock
<1>1. ASSUME NEW r \in Requests, NEW op \in Ops, NEW u \in Users, Begin(r, op, u) PROVE TInv'
  <2>1. users[u] \in 0..lastId BY DEF TypeOK
  <2>2. op # "create" => users[u] \in 1..lastId BY <1>1, <2>1 DEF Begin, TypeOK
  <2>3. req' \in [Requests -> {None} \cup [op : Ops, user : Users, id : 0..lastId, at : {"write", "finish"}]]
    BY <1>1, <2>1 DEF Begin, TypeOK
  <2>4. \A q \in Requests : q # r => req'[q] = req[q] BY <1>1 DEF Begin, TypeOK
  <2>5. req'[r].op = op /\ req'[r].id = users[u] BY <1>1 DEF Begin, TypeOK
  <2>6. lastId' = lastId BY <1>1 DEF Begin
  <2>7. ReqInv' BY <2>2, <2>4, <2>5, <2>6 DEF ReqInv
  <2>8. TypeOK' BY <1>1, <2>3 DEF Begin, TypeOK
  <2>9. QED BY <2>7, <2>8 DEF TInv
<1>2. ASSUME NEW r \in Requests, CreateWrites(r) PROVE TInv'
  <2>1. Ends(r) BY <1>2 DEF CreateWrites
  <2>2. CASE users[req[r].user] = 0
    <3>1. lastId < MaxAccounts /\ lastId' = lastId + 1
      BY <1>2, <2>2 DEF CreateWrites
    <3>2. users' = [users EXCEPT ![req[r].user] = lastId + 1] BY <1>2, <2>2 DEF CreateWrites
    <3>3. \A v \in Users : users[v] \in 0..lastId BY DEF TypeOK
    <3>4. lastId \in Nat /\ lastId' \in 0..MaxAccounts BY <3>1 DEF TypeOK
    <3>5. \A v \in Users : users'[v] \in 0..lastId' BY <3>1, <3>2, <3>3, <3>4 DEF TypeOK
    <3>6. users' \in [Users -> 0..lastId'] BY <3>2, <3>5 DEF TypeOK
    <3>7. \A u, v \in Users : u # v /\ users'[u] # 0 => users'[u] # users'[v]
      BY <3>1, <3>2, <3>3, <3>4 DEF TypeOK
    <3>8. QED BY <1>2, <2>1, <3>1, <3>4, <3>6, <3>7, EndsType DEF CreateWrites, TInv, TypeOK
  <2>3. CASE users[req[r].user] # 0
    BY <1>2, <2>1, <2>3, EndsType DEF CreateWrites, TInv, TypeOK
  <2>4. QED BY <2>2, <2>3
<1>3. ASSUME NEW r \in Requests, DeleteWrites(r) PROVE TInv'
  <2> DEFINE u == req[r].user
  <2>1. req[r] # None /\ req' = [req EXCEPT ![r].at = "finish"] BY <1>3 DEF DeleteWrites, AtWrite, Goes
  <2>2. users' = users \/ users' = [users EXCEPT ![u] = 0] BY <1>3 DEF DeleteWrites
  <2>3. u \in Users BY <2>1, ReqTyped
  <2>4. /\ users' \in [Users -> 0..lastId]
        /\ \A v, w \in Users : v # w /\ users'[v] # 0 => users'[v] # users'[w]
    BY <2>2, <2>3 DEF TypeOK
  <2>5. req' \in [Requests -> {None} \cup [op : Ops, user : Users, id : 0..lastId, at : {"write", "finish"}]]
    BY <2>1 DEF TypeOK
  <2>6. \A q \in Requests : q # r => req'[q] = req[q] BY <2>1 DEF TypeOK
  <2>7. req'[r].op = req[r].op /\ req'[r].id = req[r].id BY <2>1, ReqTyped DEF TypeOK, Handler
  <2>8. lastId' = lastId BY <1>3 DEF DeleteWrites
  <2>9. ReqInv' BY <2>1, <2>6, <2>7, <2>8 DEF ReqInv
  <2>10. QED BY <1>3, <2>4, <2>5, <2>9 DEF DeleteWrites, TInv, TypeOK
<1>4. ASSUME NEW r \in Requests, DeleteEnds(r) PROVE TInv'
  <2>1. files' \in [Users \X Paths -> {None} \cup [by : Ids, late : BOOLEAN]]
    BY <1>4 DEF DeleteEnds, TypeOK
  <2>2. stray' \subseteq Users \X Paths
    <3>1. Found(r) \subseteq Users \X Paths BY <1>4, ReqTyped DEF DeleteEnds, Found, Dir
    <3>2. QED BY <1>4, <3>1 DEF DeleteEnds, TypeOK
  <2>3. Ends(r) /\ lastId' = lastId BY <1>4 DEF DeleteEnds
  <2>4. QED BY <1>4, <2>1, <2>2, <2>3, EndsType DEF DeleteEnds, TInv, TypeOK
<1>5. ASSUME NEW r \in Requests, LoginEnds(r) PROVE TInv'
  <2>1. Ends(r) /\ lastId' = lastId BY <1>5 DEF LoginEnds
  <2>2. req[r].user \in Users /\ req[r].id \in 1..lastId BY <1>5, ReqTyped DEF LoginEnds, ReqInv
  <2>3. [user |-> req[r].user, id |-> req[r].id] \in Session BY <2>2 DEF Session, Ids, TypeOK
  <2>4. QED BY <1>5, <2>1, <2>3, EndsType DEF LoginEnds, TInv, TypeOK
<1>6. ASSUME NEW s \in sessions, SessionEnds(s) \/ CreateKey(s) \/ \E k \in keys : DeleteKey(s, k)
      PROVE  TInv'
  BY <1>6 DEF SessionEnds, CreateKey, DeleteKey, TInv, TypeOK, ReqInv
<1>7. ASSUME NEW s \in Bearers, NEW p \in Paths, Upload(s, p) PROVE TInv'
  <2>1. s.user \in Users /\ s.id \in Ids BY DEF TypeOK, Session, Bearers
  <2>2. files' \in [Users \X Paths -> {None} \cup [by : Ids, late : BOOLEAN]]
    BY <1>7, <2>1 DEF Upload, Stored, TypeOK
  <2>3. QED BY <1>7, <2>2 DEF Upload, TInv, TypeOK, ReqInv
<1>8. ASSUME NEW s \in Bearers, NEW p \in Paths, DeleteFile(s, p) PROVE TInv'
  <2>1. files' \in [Users \X Paths -> {None} \cup [by : Ids, late : BOOLEAN]]
    BY <1>8 DEF DeleteFile, TypeOK
  <2>2. QED BY <1>8, <2>1 DEF DeleteFile, TInv, TypeOK, ReqInv
<1>9. ASSUME NEW s \in Bearers, NEW p \in Paths, NEW q \in Paths, MovePath(s, p, q) PROVE TInv'
  <2>1. s.user \in Users BY DEF TypeOK, Session, Bearers
  <2>2. files' \in [Users \X Paths -> {None} \cup [by : Ids, late : BOOLEAN]]
    BY <1>9, <2>1 DEF MovePath, TypeOK
  <2>3. stray' \subseteq Users \X Paths BY <1>9, <2>1 DEF MovePath, TypeOK
  <2>4. QED BY <1>9, <2>2, <2>3 DEF MovePath, TInv, TypeOK, ReqInv
<1>10. ASSUME NEW s \in sessions, NEW h \in Shares, DeleteShare(s, h) PROVE TInv'
  BY <1>10 DEF DeleteShare, TInv, TypeOK, ReqInv
<1>11. ASSUME NEW s \in sessions, NEW h \in Shares, NEW p \in Paths, NEW forever \in BOOLEAN,
              MakeShare(s, h, p, forever)
       PROVE  TInv'
  <2>1. s.user \in Users BY DEF TypeOK, Session
  <2>2. [owner |-> s.user, path |-> p, forever |-> forever, age |-> 0, missing |-> 0] \in Share
    BY <2>1 DEF Share
  <2>3. shares' \in [Shares -> {None} \cup Share] BY <1>11, <2>2 DEF MakeShare, TypeOK
  <2>4. QED BY <1>11, <2>3 DEF MakeShare, TInv, TypeOK, ReqInv
<1>12. ASSUME Sweep PROVE TInv'
  <2>1. ASSUME NEW h \in Live PROVE [shares[h] EXCEPT !.missing = IF There(h) THEN 0 ELSE @] \in Share
    BY <2>1 DEF Live, TypeOK, Share
  <2>2. shares' \in [Shares -> {None} \cup Share] BY <1>12, <2>1 DEF Sweep
  <2>3. sinceSweep' \in 0..SweepEvery BY <1>12 DEF Sweep
  <2>4. UNCHANGED <<users, lastId, files, sessions, keys, req, restarts, stray>> BY <1>12 DEF Sweep
  <2>5. QED BY <2>2, <2>3, <2>4 DEF TInv, TypeOK, ReqInv
<1>13. ASSUME Tick PROVE TInv'
  <2>1. ASSUME NEW h \in Live
        PROVE  [shares[h] EXCEPT !.age = IF @ <= LastFor + SweepEvery /\ ~shares[h].forever THEN @ + 1 ELSE @,
                                 !.missing = IF There(h) THEN 0 ELSE IF @ <= SweepEvery THEN @ + 1 ELSE @] \in Share
    <3>1. shares[h] \in Share BY DEF Live, TypeOK
    <3>2. (IF shares[h].age <= LastFor + SweepEvery /\ ~shares[h].forever
             THEN shares[h].age + 1 ELSE shares[h].age) \in 0..(LastFor + SweepEvery + 1)
      BY <3>1 DEF Share
    <3>3. (IF There(h) THEN 0 ELSE IF shares[h].missing <= SweepEvery
             THEN shares[h].missing + 1 ELSE shares[h].missing) \in 0..(SweepEvery + 1)
      BY <3>1 DEF Share
    <3>4. QED BY <3>1, <3>2, <3>3 DEF Share
  <2>2. shares' \in [Shares -> {None} \cup Share] BY <1>13, <2>1 DEF Tick
  <2>3. sinceSweep' \in 0..SweepEvery
    <3>1. sinceSweep \in 0..SweepEvery BY DEF TypeOK
    <3>2. sinceSweep < SweepEvery /\ sinceSweep' = sinceSweep + 1 BY <1>13 DEF Tick
    <3>3. QED BY <3>1, <3>2
  <2>4. UNCHANGED <<users, lastId, files, sessions, keys, req, restarts, stray>> BY <1>13 DEF Tick
  <2>5. QED BY <2>2, <2>3, <2>4 DEF TInv, TypeOK, ReqInv
<1>14. ASSUME Restart PROVE TInv'
  BY <1>14 DEF Restart, TInv, TypeOK, ReqInv
<1>15. CASE UNCHANGED vars
  BY <1>15 DEF vars, TInv, TypeOK, ReqInv
<1>16. QED
  BY <1>1, <1>2, <1>3, <1>4, <1>5, <1>6, <1>7, <1>8, <1>9, <1>10, <1>11, <1>12,
     <1>13, <1>14, <1>15 DEF Next, Bearers

\* Every variable keeps its type: in particular no two accounts share an id,
\* and an id is never used again.
THEOREM TypeCorrect == Spec => []TypeOK
<1>1. TInv => TypeOK BY DEF TInv
<1>2. QED BY InitTInv, NextTInv, <1>1, PTL DEF Spec

-----------------------------------------------------------------------------
(* Whose files there are *)

\* NoInheritance speaks of accounts that exist.  It is inductive once it also
\* speaks of names without one: creating an account must find it true.
Explained(f) ==
    files[f] # None /\ files[f].by # users[f[1]]
      => files[f].late \/ f \in stray \/ Deleting(f[1]) # {}
IFiles == \A f \in Users \X Paths : Explained(f)

LEMMA IFilesNoInheritance == TypeOK /\ IFiles => NoInheritance
  BY DEF TypeOK, IFiles, Explained, NoInheritance

\* A step that leaves the files alone, and takes no deletion away.
LEMMA SameFiles ==
    ASSUME IFiles, UNCHANGED <<files, users, stray>>,
           \A u \in Users : Deleting(u) # {} => Deleting(u)' # {}
    PROVE  IFiles'
  BY DEF IFiles, Explained

\* Deleting depends on req only.
LEMMA SameDeleting == ASSUME UNCHANGED req, NEW u \in Users PROVE Deleting(u)' = Deleting(u)
  BY DEF Deleting

\* A handler that is not about to empty a directory may end, or go on.
LEMMA OtherHandler ==
    ASSUME NEW r \in Requests, NEW u \in Users, r \notin Deleting(u),
           \A q \in Requests : q # r => req'[q] = req[q]
    PROVE  Deleting(u) # {} => Deleting(u)' # {}
  BY DEF Deleting

LEMMA NextIFiles == TInv /\ IFiles /\ [Next]_vars => IFiles'
<1> SUFFICES ASSUME TInv, IFiles, [Next]_vars PROVE IFiles' OBVIOUS
<1> TypeOK BY DEF TInv
<1> USE DEF clock
<1>1. ASSUME NEW r \in Requests, NEW op \in Ops, NEW u \in Users, Begin(r, op, u) PROVE IFiles'
  <2>1. \A q \in Requests : q # r => req'[q] = req[q] BY <1>1 DEF Begin, TypeOK
  <2>2. \A v \in Users : r \notin Deleting(v) BY <1>1 DEF Begin, Deleting
  <2>3. QED BY <1>1, <2>1, <2>2, OtherHandler, SameFiles DEF Begin
<1>2. ASSUME NEW r \in Requests, CreateWrites(r) PROVE IFiles'
  <2>1. \A q \in Requests : q # r => req'[q] = req[q] BY <1>2 DEF CreateWrites, Ends, TypeOK
  <2>2. \A v \in Users : r \notin Deleting(v) BY <1>2 DEF CreateWrites, AtWrite, Deleting
  <2>3. \A v \in Users : Deleting(v) # {} => Deleting(v)' # {} BY <2>1, <2>2, OtherHandler
  <2>4. UNCHANGED <<files, stray>> BY <1>2 DEF CreateWrites
  <2>5. \A v \in Users : users'[v] = users[v] \/ users[v] = 0
    BY <1>2 DEF CreateWrites, TypeOK
  \* A file of a name without an account is by none that exists.
  <2>6. \A f \in Users \X Paths : files[f] # None => files[f].by # 0 BY StorageAssumption DEF TypeOK, Ids
  <2>7. QED BY <2>3, <2>4, <2>5, <2>6 DEF IFiles, Explained
<1>3. ASSUME NEW r \in Requests, DeleteWrites(r) PROVE IFiles'
  <2>1. req[r] # None /\ req[r].op \in Deletes /\ req[r].at = "write"
    BY <1>3 DEF DeleteWrites, AtWrite
  <2> PICK u \in Users : u = req[r].user BY <2>1, ReqTyped
  <2>2. \A q \in Requests : q # r => req'[q] = req[q] BY <1>3 DEF DeleteWrites, Goes, TypeOK
  <2>3. req'[r] = [req[r] EXCEPT !.at = "finish"] BY <1>3 DEF DeleteWrites, Goes, TypeOK
  <2>4. req'[r] # None /\ req'[r].op = req[r].op /\ req'[r].user = u /\ req'[r].at = "finish"
    <3>1. req[r] \in Handler BY <2>1, ReqTyped
    <3>2. req'[r] \in Handler BY <2>3, <3>1 DEF Handler
    <3>3. QED BY <2>3, <3>1, <3>2, StorageAssumption DEF Handler
  <2>5. r \in Deleting(u)' BY <2>1, <2>4 DEF Deleting
  <2>6. \A v \in Users : Deleting(v) # {} => Deleting(v)' # {}
    BY <2>1, <2>2, OtherHandler DEF Deleting
  <2>7. \A v \in Users : v # u => users'[v] = users[v] BY <1>3 DEF DeleteWrites, TypeOK
  <2>8. UNCHANGED <<files, stray>> BY <1>3 DEF DeleteWrites
  <2>9. ASSUME NEW f \in Users \X Paths PROVE Explained(f)'
    <3>1. f[1] \in Users /\ Explained(f) BY DEF IFiles
    <3>2. CASE f[1] = u BY <2>5, <3>2 DEF Explained
    <3>3. CASE f[1] # u BY <2>6, <2>7, <2>8, <3>1, <3>3 DEF Explained
    <3>4. QED BY <3>2, <3>3
  <2>10. QED BY <2>9 DEF IFiles
<1>4. ASSUME NEW r \in Requests, DeleteEnds(r) PROVE IFiles'
  <2> DEFINE u == req[r].user
  <2>1. u \in Users BY <1>4, ReqTyped DEF DeleteEnds
  <2>2. \A q \in Requests : q # r => req'[q] = req[q] BY <1>4 DEF DeleteEnds, Ends, TypeOK
  <2>3. \A v \in Users : v # u => (Deleting(v) # {} => Deleting(v)' # {})
    BY <2>2, OtherHandler DEF Deleting
  <2>4. PICK left \in SUBSET Found(r) :
          /\ files' = [f \in DOMAIN files |-> IF f \in Dir(u) \ left THEN None ELSE files[f]]
          /\ stray' = (stray \ (Dir(u) \ left)) \cup left
    BY <1>4 DEF DeleteEnds, RemovedDir
  <2>5. \A f \in Users \X Paths :
          IF f[1] = u THEN files'[f] = None \/ f \in stray'
                      ELSE files'[f] = files[f] /\ (f \in stray => f \in stray')
    BY <2>1, <2>4 DEF Dir, TypeOK
  <2>6. UNCHANGED users BY <1>4 DEF DeleteEnds
  <2>7. QED BY <2>3, <2>5, <2>6 DEF IFiles, Explained
<1>5. ASSUME NEW r \in Requests, LoginEnds(r) PROVE IFiles'
  <2>1. \A q \in Requests : q # r => req'[q] = req[q] BY <1>5 DEF LoginEnds, Ends, TypeOK
  <2>2. \A v \in Users : r \notin Deleting(v) BY <1>5 DEF LoginEnds, Deleting, Deletes
  <2>3. QED BY <1>5, <2>1, <2>2, OtherHandler, SameFiles DEF LoginEnds
<1>6. ASSUME NEW s \in Bearers, NEW p \in Paths, Upload(s, p) PROVE IFiles'
  <2>1. s.user \in Users /\ s.id \in Ids BY DEF TypeOK, Session, Bearers
  <2>2. files'[<<s.user, p>>] = [by |-> s.id, late |-> users[s.user] # s.id]
    BY <1>6, <2>1 DEF Upload, Stored, TypeOK
  <2>3. \A f \in Users \X Paths : f # <<s.user, p>> => files'[f] = files[f] /\ (f \in stray => f \in stray')
    BY <1>6 DEF Upload, Stored, TypeOK
  <2>4. UNCHANGED <<users, req>> BY <1>6 DEF Upload
  <2>5. ASSUME NEW f \in Users \X Paths PROVE Explained(f)'
    <3>1. f[1] \in Users /\ Explained(f) BY DEF IFiles
    <3>2. CASE f = <<s.user, p>>
      <4>1. f[1] = s.user /\ files'[f].by = s.id /\ files'[f].late = (users'[s.user] # s.id)
        BY <2>2, <2>4, <3>2
      <4>2. QED BY <4>1 DEF Explained
    <3>3. CASE f # <<s.user, p>> BY <2>3, <2>4, <3>1, <3>3, SameDeleting DEF Explained
    <3>4. QED BY <3>2, <3>3
  <2>6. QED BY <2>5 DEF IFiles
<1>7. ASSUME NEW s \in Bearers, NEW p \in Paths, DeleteFile(s, p) PROVE IFiles'
  <2>1. s.user \in Users BY DEF TypeOK, Session, Bearers
  <2>2. files'[<<s.user, p>>] = None BY <1>7, <2>1 DEF DeleteFile, TypeOK
  <2>3. \A f \in Users \X Paths : f # <<s.user, p>> => files'[f] = files[f] /\ (f \in stray => f \in stray')
    BY <1>7 DEF DeleteFile, TypeOK
  <2>4. UNCHANGED <<users, req>> BY <1>7 DEF DeleteFile
  <2>5. QED BY <2>2, <2>3, <2>4, SameDeleting DEF IFiles, Explained
<1>8. ASSUME NEW s \in Bearers, NEW p \in Paths, NEW q \in Paths, MovePath(s, p, q) PROVE IFiles'
  <2> DEFINE src == <<s.user, p>>  dst == <<s.user, q>>
  <2>1. s.user \in Users /\ src # dst BY <1>8 DEF MovePath, TypeOK, Session, Bearers
  <2>2. files'[src] = None /\ files'[dst] = files[src] BY <1>8, <2>1 DEF MovePath, TypeOK
  <2>3. src \in stray => dst \in stray' BY <1>8 DEF MovePath
  <2>4. \A f \in Users \X Paths :
          f # src /\ f # dst => files'[f] = files[f] /\ (f \in stray => f \in stray')
    BY <1>8 DEF MovePath, TypeOK
  <2>5. UNCHANGED <<users, req>> BY <1>8 DEF MovePath
  <2>6. src[1] = s.user /\ dst[1] = s.user /\ src \in Users \X Paths BY <2>1
  <2>7. QED BY <2>2, <2>3, <2>4, <2>5, <2>6, SameDeleting DEF IFiles, Explained
<1>9. ASSUME Restart PROVE IFiles'
  <2>1. \A f \in Users \X Paths : files[f] # None /\ Deleting(f[1]) # {} => f \in stray'
    BY <1>9 DEF Restart, TypeOK
  <2>2. stray \subseteq stray' /\ UNCHANGED <<users, files>> BY <1>9 DEF Restart
  <2>3. QED BY <2>1, <2>2 DEF IFiles, Explained
\* What is left changes neither the files nor the handlers.
<1>10. ASSUME UNCHANGED <<files, users, stray, req>> PROVE IFiles'
  BY <1>10, SameDeleting, SameFiles
<1>11. ASSUME NEW s \in sessions,
              \/ SessionEnds(s) \/ CreateKey(s) \/ \E k \in keys : DeleteKey(s, k)
              \/ \E h \in Shares : DeleteShare(s, h) \/ \E p \in Paths, forever \in BOOLEAN : MakeShare(s, h, p, forever)
       PROVE  IFiles'
  BY <1>10, <1>11 DEF SessionEnds, CreateKey, DeleteKey, DeleteShare, MakeShare
<1>12. ASSUME Sweep \/ Tick \/ UNCHANGED vars PROVE IFiles'
  BY <1>10, <1>12 DEF Sweep, Tick, vars
<1>13. QED
  BY <1>1, <1>2, <1>3, <1>4, <1>5, <1>6, <1>7, <1>8, <1>9, <1>11, <1>12 DEF Next, Bearers

\* For any number of names, accounts, handlers and restarts: a new account
\* finds files of an earlier one only in the ways NoInheritance lists.
THEOREM NoInheritanceHolds == Spec => []NoInheritance
<1>1. Init => IFiles BY DEF Init, IFiles, Explained
<1>2. TInv /\ IFiles => NoInheritance BY IFilesNoInheritance DEF TInv
<1>3. QED BY <1>1, <1>2, InitTInv, NextTInv, NextIFiles, PTL DEF Spec

-----------------------------------------------------------------------------
(* How long a link stays *)

\* After a sweep no link is past its day and none lacks its file; a tick adds
\* one to either.
InTime(h) ==
    shares[h] # None =>
      /\ ~shares[h].forever => shares[h].age <= LastFor + sinceSweep
      /\ shares[h].missing <= sinceSweep
ILinks == \A h \in Shares : InTime(h)

LEMMA NextILinks == TInv /\ ILinks /\ [Next]_vars => ILinks'
<1> SUFFICES ASSUME TInv, ILinks, [Next]_vars PROVE ILinks' OBVIOUS
<1> TypeOK BY DEF TInv
<1> USE StorageAssumption DEF clock
<1>1. \A h \in Shares : shares[h] # None => shares[h] \in Share BY DEF TypeOK
<1>2. sinceSweep \in 0..SweepEvery BY DEF TypeOK
<1>3. ASSUME UNCHANGED <<shares, sinceSweep>> PROVE ILinks'
  BY <1>3 DEF ILinks, InTime
<1>4. ASSUME NEW s \in sessions, NEW h \in Shares, DeleteShare(s, h) PROVE ILinks'
  <2>1. shares' = [shares EXCEPT ![h] = None] /\ UNCHANGED sinceSweep BY <1>4 DEF DeleteShare
  <2>2. QED BY <2>1 DEF ILinks, InTime, TypeOK
<1>5. ASSUME NEW s \in sessions, NEW h \in Shares, NEW p \in Paths, NEW forever \in BOOLEAN,
             MakeShare(s, h, p, forever)
      PROVE  ILinks'
  <2>1. UNCHANGED sinceSweep /\ \A g \in Shares : g # h => shares'[g] = shares[g]
    BY <1>5 DEF MakeShare, TypeOK
  <2>2. shares'[h] = [owner |-> s.user, path |-> p, forever |-> forever, age |-> 0, missing |-> 0]
    BY <1>5 DEF MakeShare, TypeOK
  <2>3. shares'[h].age = 0 /\ shares'[h].missing = 0 BY <2>2
  <2>4. InTime(h)' BY <1>2, <2>1, <2>3 DEF InTime
  <2>5. QED BY <2>1, <2>4 DEF ILinks, InTime
<1>6. ASSUME Sweep PROVE ILinks'
  <2> SUFFICES ASSUME NEW h \in Shares, shares'[h] # None
               PROVE  /\ ~shares'[h].forever => shares'[h].age <= LastFor + sinceSweep'
                      /\ shares'[h].missing <= sinceSweep'
    BY DEF ILinks, InTime
  <2>1. h \in Live /\ h \notin Due /\ shares'[h] = [shares[h] EXCEPT !.missing = IF There(h) THEN 0 ELSE @]
    BY <1>6 DEF Sweep
  <2>2. shares[h] \in Share BY <1>1, <2>1 DEF Live
  <2>3. There(h) /\ (~shares[h].forever => ~(shares[h].age > LastFor)) BY <2>1 DEF Due
  <2>4. shares'[h].missing = 0 /\ shares'[h].forever = shares[h].forever /\ shares'[h].age = shares[h].age
    BY <2>1, <2>2, <2>3 DEF Share
  <2>5. sinceSweep' = 0 BY <1>6 DEF Sweep
  <2>6. shares[h].age \in Nat BY <2>2 DEF Share
  <2>7. QED BY <2>3, <2>4, <2>5, <2>6
<1>7. ASSUME Tick PROVE ILinks'
  <2> SUFFICES ASSUME NEW h \in Shares, shares'[h] # None
               PROVE  /\ ~shares'[h].forever => shares'[h].age <= LastFor + sinceSweep'
                      /\ shares'[h].missing <= sinceSweep'
    BY DEF ILinks, InTime
  <2> DEFINE age == IF shares[h].age <= LastFor + SweepEvery /\ ~shares[h].forever
                      THEN shares[h].age + 1 ELSE shares[h].age
             missing == IF There(h) THEN 0
                        ELSE IF shares[h].missing <= SweepEvery THEN shares[h].missing + 1
                        ELSE shares[h].missing
  <2>1. h \in Live /\ shares'[h] = [shares[h] EXCEPT !.age = age, !.missing = missing]
    BY <1>7 DEF Tick
  <2>2. shares[h] \in Share BY <1>1, <2>1 DEF Live
  <2>3. shares'[h].forever = shares[h].forever /\ shares'[h].age = age /\ shares'[h].missing = missing
    BY <2>1, <2>2 DEF Share
  <2>4. sinceSweep' = sinceSweep + 1 BY <1>7 DEF Tick
  <2>5. InTime(h) /\ shares[h] # None BY <2>1 DEF ILinks, Live
  <2>6. shares[h].age \in Nat /\ shares[h].missing \in Nat BY <2>2 DEF Share
  <2>7. ~shares[h].forever => age <= LastFor + sinceSweep + 1 BY <1>2, <2>5, <2>6 DEF InTime
  <2>8. missing <= sinceSweep + 1 BY <1>2, <2>5, <2>6 DEF InTime
  <2>9. QED BY <1>2, <2>3, <2>4, <2>7, <2>8
<1>8. ASSUME Restart PROVE ILinks'
  BY <1>8 DEF Restart, ILinks, InTime
\* What is left changes no link.
<1>9. ASSUME NEW r \in Requests,
             \/ \E op \in Ops, u \in Users : Begin(r, op, u)
             \/ CreateWrites(r) \/ DeleteWrites(r) \/ DeleteEnds(r) \/ LoginEnds(r)
      PROVE  ILinks'
  BY <1>3, <1>9 DEF Begin, CreateWrites, DeleteWrites, DeleteEnds, LoginEnds
<1>10. ASSUME NEW s \in Bearers,
              \/ SessionEnds(s) \/ CreateKey(s) \/ \E k \in keys : DeleteKey(s, k)
              \/ \E p \in Paths : Upload(s, p) \/ DeleteFile(s, p) \/ \E q \in Paths : MovePath(s, p, q)
       PROVE  ILinks'
  BY <1>3, <1>10 DEF SessionEnds, CreateKey, DeleteKey, Upload, DeleteFile, MovePath
<1>11. CASE UNCHANGED vars
  BY <1>3, <1>11 DEF vars
<1>12. QED BY <1>4, <1>5, <1>6, <1>7, <1>8, <1>9, <1>10, <1>11 DEF Next, Bearers

LEMMA ILinksInTime == TInv /\ ILinks => LinksGo
<1> SUFFICES ASSUME TInv, ILinks, NEW h \in Live
             PROVE  /\ ~shares[h].forever => shares[h].age <= LastFor + SweepEvery
                    /\ shares[h].missing <= SweepEvery
  BY DEF LinksGo
<1>1. shares[h] \in Share /\ InTime(h) /\ shares[h] # None BY DEF TInv, TypeOK, Live, ILinks
<1>2. shares[h].age \in Nat /\ shares[h].missing \in Nat BY <1>1, StorageAssumption DEF Share
<1>3. sinceSweep \in 0..SweepEvery BY DEF TInv, TypeOK
<1>4. QED BY <1>1, <1>2, <1>3, StorageAssumption DEF InTime

LEMMA InitILinks == Init => ILinks
BY DEF Init, ILinks, InTime

\* Whatever the day and the period of the sweep, a link that is not to stay is
\* gone one sweep after its day, and any link one sweep after its file.
THEOREM LinksGoInTime == Spec => []LinksGo
BY InitILinks, InitTInv, NextTInv, NextILinks, ILinksInTime, PTL DEF Spec

-----------------------------------------------------------------------------
(* Whose files a deletion takes *)

\* The account that now has the name a deletion goes by is the one it looked
\* up, or a later one; and a later one once the deletion has written.
Older(r) ==
    req[r] # None /\ req[r].op \in Deletes =>
      LET now == users[req[r].user]
      IN  now = 0 \/ req[r].id < now \/ (req[r].at = "write" /\ req[r].id = now)
IOlder == \A r \in Requests : Older(r)

\* The table of users has changed to that of a step that keeps ids in order.
LEMMA OlderStep ==
    ASSUME TInv, NEW r \in Requests, Older(r), req'[r] = req[r],
           \A u \in Users : users'[u] = users[u] \/ users'[u] = 0 \/ users'[u] = lastId + 1
    PROVE  Older(r)'
<1> SUFFICES ASSUME req[r] # None, req[r].op \in Deletes
             PROVE  \/ users'[req[r].user] = 0
                    \/ req[r].id < users'[req[r].user]
                    \/ req[r].at = "write" /\ req[r].id = users'[req[r].user]
  BY DEF Older
<1>1. req[r].user \in Users /\ req[r].id \in 0..lastId BY ReqTyped DEF TInv
<1>2. lastId \in Nat BY StorageAssumption DEF TInv, TypeOK
<1>3. CASE users'[req[r].user] = users[req[r].user] BY <1>3 DEF Older
<1>4. CASE users'[req[r].user] = 0 BY <1>4
<1>5. CASE users'[req[r].user] = lastId + 1 BY <1>1, <1>2, <1>5
<1>6. QED BY <1>1, <1>3, <1>4, <1>5

LEMMA NextIOlder == TInv /\ IOlder /\ [Next]_vars => IOlder'
<1> SUFFICES ASSUME TInv, IOlder, [Next]_vars PROVE IOlder' OBVIOUS
<1> TypeOK BY DEF TInv
<1> USE DEF clock
<1>1. ASSUME UNCHANGED <<users, req>> PROVE IOlder'
  BY <1>1 DEF IOlder, Older
\* A handler that has ended is no deletion.
<1>2. ASSUME NEW r \in Requests, req' = [req EXCEPT ![r] = None],
             \A u \in Users : users'[u] = users[u] \/ users'[u] = 0 \/ users'[u] = lastId + 1
      PROVE  IOlder'
  <2>1. req'[r] = None /\ \A q \in Requests : q # r => req'[q] = req[q] BY <1>2 DEF TypeOK
  <2>2. QED BY <1>2, <2>1, OlderStep DEF IOlder, Older
<1>3. ASSUME NEW r \in Requests, NEW op \in Ops, NEW u \in Users, Begin(r, op, u) PROVE IOlder'
  <2>1. /\ UNCHANGED users
        /\ req' = [req EXCEPT ![r] = [op |-> op, user |-> u, id |-> users[u],
                                      at |-> IF op = "login" THEN "finish" ELSE "write"]]
    BY <1>3 DEF Begin
  <2>2. \A q \in Requests : q # r => req'[q] = req[q] BY <2>1 DEF TypeOK
  <2>3. /\ req'[r].op = op /\ req'[r].user = u /\ req'[r].id = users[u]
        /\ op # "login" => req'[r].at = "write"
    BY <2>1 DEF TypeOK
  <2>4. Older(r)' BY <2>1, <2>3 DEF Older, Deletes
  <2>5. QED BY <2>1, <2>2, <2>4, OlderStep DEF IOlder
<1>4. ASSUME NEW r \in Requests, CreateWrites(r) PROVE IOlder'
  <2>1. \A u \in Users : users'[u] = users[u] \/ users'[u] = lastId + 1
    BY <1>4 DEF CreateWrites, TypeOK
  <2>2. QED BY <1>2, <1>4, <2>1 DEF CreateWrites, Ends
<1>5. ASSUME NEW r \in Requests, DeleteWrites(r) PROVE IOlder'
  <2>1. req[r] # None /\ req[r].op \in Deletes /\ req[r].at = "write"
    BY <1>5 DEF DeleteWrites, AtWrite
  <2>2. req[r] \in Handler /\ req[r].user \in Users BY <2>1, ReqTyped
  <2>3. req' = [req EXCEPT ![r].at = "finish"] BY <1>5 DEF DeleteWrites, Goes
  <2>4. \A q \in Requests : q # r => req'[q] = req[q] BY <2>3 DEF TypeOK
  <2>5. \A u \in Users : users'[u] = users[u] \/ users'[u] = 0
    BY <1>5 DEF DeleteWrites, TypeOK
  <2>6. req'[r].user = req[r].user /\ req'[r].id = req[r].id
    BY <2>2, <2>3 DEF TypeOK, Handler
  \* The account it looked up is gone now, if it was still there.
  <2>7. \/ users'[req[r].user] = 0
        \/ users'[req[r].user] = users[req[r].user] /\ users[req[r].user] # req[r].id
    <3>1. CASE users' = [users EXCEPT ![req[r].user] = 0]
      BY <2>2, <3>1 DEF TypeOK
    <3>2. CASE users' = users /\ users[req[r].user] # req[r].id
      BY <3>2
    <3>3. QED BY <1>5, <2>1, <3>1, <3>2 DEF DeleteWrites
  <2>8. Older(r) BY DEF IOlder
  <2>9. Older(r)' BY <2>1, <2>6, <2>7, <2>8 DEF Older
  <2>10. QED BY <2>4, <2>5, <2>9, OlderStep DEF IOlder
<1>6. ASSUME NEW r \in Requests, DeleteEnds(r) \/ LoginEnds(r) PROVE IOlder'
  BY <1>2, <1>6 DEF DeleteEnds, LoginEnds, Ends
<1>7. ASSUME Restart PROVE IOlder'
  BY <1>7 DEF Restart, IOlder, Older
<1>8. ASSUME NEW s \in Bearers,
             \/ SessionEnds(s) \/ CreateKey(s) \/ \E k \in keys : DeleteKey(s, k)
             \/ \E p \in Paths : Upload(s, p) \/ DeleteFile(s, p) \/ \E q \in Paths : MovePath(s, p, q)
             \/ \E h \in Shares : DeleteShare(s, h) \/ \E p \in Paths, forever \in BOOLEAN : MakeShare(s, h, p, forever)
      PROVE  IOlder'
  BY <1>1, <1>8 DEF SessionEnds, CreateKey, DeleteKey, Upload, DeleteFile, MovePath, DeleteShare, MakeShare
<1>9. ASSUME Sweep \/ Tick \/ UNCHANGED vars PROVE IOlder'
  BY <1>1, <1>9 DEF Sweep, Tick, vars
<1>10. QED BY <1>3, <1>4, <1>5, <1>6, <1>7, <1>8, <1>9 DEF Next, Bearers

LEMMA IOlderTakes == TInv /\ IOlder => TakesOlder
<1> SUFFICES ASSUME TInv, IOlder, NEW u \in Users, NEW r \in Deleting(u), NEW f \in Dir(u),
                    files[f] # None, files[f].by = users[u]
             PROVE  req[r].id < users[u]
  BY DEF TakesOlder
<1>1. f \in Users \X Paths BY DEF Dir
<1>2. files[f].by \in Ids BY <1>1 DEF TInv, TypeOK
<1>3. users[u] # 0 BY <1>2, StorageAssumption DEF Ids
<1>4. r \in Requests /\ req[r] # None /\ req[r].op \in Deletes /\ req[r].user = u /\ req[r].at = "finish"
  BY DEF Deleting
<1>5. QED BY <1>3, <1>4 DEF IOlder, Older

\* The rmtree may take the files of an account made under the name meanwhile,
\* but an account still in place is never the one the deletion looked up.
THEOREM RemovesItsOwnHolds == Spec => RemovesItsOwn
<1>1. Init => IOlder BY DEF Init, IOlder, Older
<1>2. QED BY <1>1, InitTInv, NextTInv, NextIOlder, IOlderTakes, PTL DEF Spec, RemovesItsOwn

=============================================================================
