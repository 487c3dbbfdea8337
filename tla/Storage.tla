------------------------------ MODULE Storage -------------------------------
(***************************************************************************)
(* Accounts, their directories and public links: the users table and the   *)
(* file handlers of server/modules/omedia.py, server/modules/files.py and  *)
(* server/modules/extend/fileshare.py.  The handlers that make and delete  *)
(* an account, and login, await the database between their look-up, their  *)
(* write and what they do after it; the others run without suspending.     *)
(* Everything but the users table goes by the username, so an account is   *)
(* told from an earlier one of the same name only by the row's id.  The     *)
(* directory is DATA/<username>: oworkspace's documents are elsewhere, in   *)
(* DATA/_workfiles/<username>, which no deletion touches.                   *)
(***************************************************************************)
EXTENDS Naturals, FiniteSets

CONSTANTS Users,        \* usernames other than the administrator's, whose sessions need
                        \* no account
          Paths, Shares, Requests, None,
          LastFor,      \* a link's 24 hours, in ticks
          SweepEvery,   \* the 60 seconds of task_expiry, in ticks
          MaxAccounts,  \* bound: rows ever inserted
          MaxRestarts   \* bound: restarts of the server

Ops == {"create", "login", "delete", "admin"}
Handler == [op : Ops, user : Users, id : Nat, at : {"write", "finish"}]

ASSUME StorageAssumption ==
    /\ None \notin Users /\ None \notin Paths /\ None \notin Handler
    /\ LastFor \in Nat /\ SweepEvery \in Nat \ {0} /\ MaxAccounts \in Nat /\ MaxRestarts \in Nat

Ids == 1..MaxAccounts

VARIABLES
    users,     \* [Users -> id of the row, 0 if there is none]
    lastId,    \* AUTOINCREMENT: ids are not used twice
    files,     \* [Users \X Paths -> None or a file: the account that wrote it, and
               \* late, if that account was deleted by then]
    sessions,  \* sessions: of a username, made for the account id
    keys,      \* api_keys, as the sessions they were made with: a row has only the name
    req,       \* [Requests -> None or a handler between two awaits]
    shares,    \* copen_fsr: [Shares -> None or a link; missing is a history counter]
    sinceSweep, restarts,
    stray      \* history: files that a deletion left, cut off by a restart or by an error
vars == <<users, lastId, files, sessions, keys, req, shares, sinceSweep, restarts, stray>>
clock == <<shares, sinceSweep, restarts>>

Session == [user : Users, id : Ids]
Share == [owner : Users, path : Paths, forever : BOOLEAN,
          age : 0..(LastFor + SweepEvery + 1), missing : 0..(SweepEvery + 1)]

TypeOK ==
    /\ users \in [Users -> 0..lastId] /\ lastId \in 0..MaxAccounts
    /\ \A u, v \in Users : u # v /\ users[u] # 0 => users[u] # users[v]
    /\ files \in [Users \X Paths -> {None} \cup [by : Ids, late : BOOLEAN]]
    /\ sessions \subseteq Session /\ keys \subseteq Session
    /\ req \in [Requests -> {None} \cup [op : Ops, user : Users, id : 0..lastId, at : {"write", "finish"}]]
    /\ shares \in [Shares -> {None} \cup Share]
    /\ sinceSweep \in 0..SweepEvery /\ restarts \in 0..MaxRestarts
    /\ stray \subseteq Users \X Paths

Init ==
    /\ users = [u \in Users |-> 0] /\ lastId = 0
    /\ files = [f \in Users \X Paths |-> None]
    /\ sessions = {} /\ keys = {}
    /\ req = [r \in Requests |-> None]
    /\ shares = [s \in Shares |-> None]
    /\ sinceSweep = 0 /\ restarts = 0 /\ stray = {}

Deletes == {"delete", "admin"}
\* Deletions of u that have taken the row and not yet the directory.
Deleting(u) == {r \in Requests : req[r] # None /\ req[r].op \in Deletes
                                   /\ req[r].user = u /\ req[r].at = "finish"}
Dir(u) == {u} \X Paths

-----------------------------------------------------------------------------
(* Handlers that await the database *)

\* The look-up: 409 if the name is taken, 404 or 401 if it is not there.
Begin(r, op, u) ==
    /\ req[r] = None
    /\ (op = "create") <=> (users[u] = 0)
    /\ req' = [req EXCEPT ![r] = [op |-> op, user |-> u, id |-> users[u],
                                  at |-> IF op = "login" THEN "finish" ELSE "write"]]
    /\ UNCHANGED <<users, lastId, files, sessions, keys, stray, clock>>

AtWrite(r, ops) == req[r] # None /\ req[r].at = "write" /\ req[r].op \in ops
Goes(r) == req' = [req EXCEPT ![r].at = "finish"]
Ends(r) == req' = [req EXCEPT ![r] = None]

\* A faulty insert that takes the name over.
CreateReplaces(r) ==
    /\ AtWrite(r, {"create"}) /\ lastId < MaxAccounts
    /\ users' = [users EXCEPT ![req[r].user] = lastId + 1]
    /\ Ends(r)
    /\ UNCHANGED <<lastId, files, sessions, keys, stray, clock>>

\* create_user: the insert fails if the name was taken meanwhile (UNIQUE).
CreateWrites(r) ==
    /\ AtWrite(r, {"create"})
    /\ IF users[req[r].user] = 0
         THEN /\ lastId < MaxAccounts /\ lastId' = lastId + 1
              /\ users' = [users EXCEPT ![req[r].user] = lastId + 1]
         ELSE UNCHANGED <<users, lastId>>
    /\ Ends(r)
    /\ UNCHANGED <<files, sessions, keys, stray, clock>>

\* A faulty deletion that does not commit.
DeleteWritesUncommitted(r) ==
    /\ AtWrite(r, Deletes)
    /\ Goes(r)
    /\ UNCHANGED <<users, lastId, files, sessions, keys, stray, clock>>

\* delete_user deletes the row it looked up, admin_delete_user the username's.
DeleteWrites(r) ==
    /\ AtWrite(r, Deletes)
    /\ LET u == req[r].user
       IN  users' = IF req[r].op = "admin" \/ users[u] = req[r].id
                      THEN [users EXCEPT ![u] = 0] ELSE users
    /\ Goes(r)
    /\ UNCHANGED <<lastId, files, sessions, keys, stray, clock>>

Found(r) == {f \in Dir(req[r].user) : files[f] # None}

\* A faulty deletion that leaves the directory to be emptied by its user.
KeepsDir(r, left) == {}
RemovedDir(r, left) == Dir(req[r].user) \ left

\* After the commit and the close: rmtree, by name, which may raise when it has
\* removed some of the files.  Sessions, links and API keys of the name stay.
DeleteEnds(r) ==
    /\ req[r] # None /\ req[r].op \in Deletes /\ req[r].at = "finish"
    /\ \E left \in SUBSET Found(r) :
         LET removed == RemovedDir(r, left)
         IN  /\ files' = [f \in DOMAIN files |-> IF f \in removed THEN None ELSE files[f]]
             /\ stray' = (stray \ removed) \cup left
    /\ Ends(r)
    /\ UNCHANGED <<users, lastId, sessions, keys, clock>>

\* login: the session is for the username, though the row may be gone.
LoginEnds(r) ==
    /\ req[r] # None /\ req[r].op = "login"
    /\ sessions' = sessions \cup {[user |-> req[r].user, id |-> req[r].id]}
    /\ Ends(r)
    /\ UNCHANGED <<users, lastId, files, keys, stray, clock>>

-----------------------------------------------------------------------------
(* Handlers with one effect: a session or key that is checked before an     *)
(* await and gone after it is one that goes after the effect.               *)

\* require_auth: the file handlers take an API key for a session.
Bearers == sessions \cup keys

\* logout, an expired session that is used, and _cleanup_sessions.
SessionEnds(s) ==
    /\ s \in sessions /\ sessions' = sessions \ {s}
    /\ UNCHANGED <<users, lastId, files, keys, req, stray, clock>>

\* create_api_key
CreateKey(s) ==
    /\ s \in sessions /\ keys' = keys \cup {s}
    /\ UNCHANGED <<users, lastId, files, sessions, req, stray, clock>>

\* delete_api_key: of the session's name, whichever account made it.
DeleteKey(s, k) ==
    /\ s \in sessions /\ k \in keys /\ k.user = s.user
    /\ keys' = keys \ {k}
    /\ UNCHANGED <<users, lastId, files, sessions, req, stray, clock>>

Stored(s, p) == [files EXCEPT ![<<s.user, p>>] = [by |-> s.id, late |-> users[s.user] # s.id]]

\* upload_file: the user's directory is made again if it is gone.
Upload(s, p) ==
    /\ s \in Bearers
    /\ files' = Stored(s, p) /\ stray' = stray \ {<<s.user, p>>}
    /\ UNCHANGED <<users, lastId, sessions, keys, req, clock>>

\* delete_file
DeleteFile(s, p) ==
    /\ s \in Bearers /\ files[<<s.user, p>>] # None
    /\ files' = [files EXCEPT ![<<s.user, p>>] = None] /\ stray' = stray \ {<<s.user, p>>}
    /\ UNCHANGED <<users, lastId, sessions, keys, req, clock>>

\* move_path
MovePath(s, p, q) ==
    LET src == <<s.user, p>>  dst == <<s.user, q>>
    IN  /\ s \in Bearers /\ files[src] # None /\ files[dst] = None
        /\ files' = [files EXCEPT ![dst] = files[src], ![src] = None]
        /\ stray' = IF src \in stray THEN (stray \ {src}) \cup {dst} ELSE stray
        /\ UNCHANGED <<users, lastId, sessions, keys, req, clock>>

\* generate_fileshare_token
MakeShare(s, h, p, forever) ==
    /\ s \in sessions /\ shares[h] = None /\ files[<<s.user, p>>] # None
    /\ shares' = [shares EXCEPT ![h] = [owner |-> s.user, path |-> p, forever |-> forever,
                                        age |-> 0, missing |-> 0]]
    /\ UNCHANGED <<users, lastId, files, sessions, keys, req, sinceSweep, restarts, stray>>

\* delete_fileshare
DeleteShare(s, h) ==
    /\ s \in sessions /\ shares[h] # None /\ shares[h].owner = s.user
    /\ shares' = [shares EXCEPT ![h] = None]
    /\ UNCHANGED <<users, lastId, files, sessions, keys, req, sinceSweep, restarts, stray>>

There(h) == files[<<shares[h].owner, shares[h].path>>] # None
Live == {h \in Shares : shares[h] # None}

-----------------------------------------------------------------------------
(* Time *)

\* A faulty sweep that passes over the links that are to stay.
DueNotForever == {h \in Live : ~shares[h].forever /\ (shares[h].age > LastFor \/ ~There(h))}
Due == {h \in Live : (~shares[h].forever /\ shares[h].age > LastFor) \/ ~There(h)}

\* task_expiry
Sweep ==
    /\ sinceSweep = SweepEvery /\ sinceSweep' = 0
    /\ shares' = [h \in Shares |-> IF h \notin Live \ Due THEN None
                                       ELSE [shares[h] EXCEPT !.missing = IF There(h) THEN 0 ELSE @]]
    /\ UNCHANGED <<users, lastId, files, sessions, keys, req, restarts, stray>>

\* The sweep is not late.  An age counts up to one above what the sweep and
\* the properties compare it with; missing counts the ticks since a tick or a
\* sweep found a file at the link's path.
Tick ==
    /\ sinceSweep < SweepEvery /\ sinceSweep' = sinceSweep + 1
    /\ shares' = [h \in Shares |->
         IF h \notin Live THEN None
         ELSE [shares[h] EXCEPT !.age = IF @ <= LastFor + SweepEvery /\ ~shares[h].forever THEN @ + 1 ELSE @,
                                !.missing = IF There(h) THEN 0 ELSE IF @ <= SweepEvery THEN @ + 1 ELSE @]]
    /\ UNCHANGED <<users, lastId, files, sessions, keys, req, restarts, stray>>

\* Sessions, links and handlers are only in memory; accounts, keys and files stay.
Restart ==
    /\ restarts < MaxRestarts /\ restarts' = restarts + 1
    /\ stray' = stray \cup {f \in DOMAIN files : files[f] # None /\ Deleting(f[1]) # {}}
    /\ sessions' = {} /\ sinceSweep' = 0
    /\ req' = [r \in Requests |-> None]
    /\ shares' = [h \in Shares |-> None]
    /\ UNCHANGED <<users, lastId, files, keys>>

-----------------------------------------------------------------------------
Next ==
    \/ \E r \in Requests :
         \/ \E op \in Ops, u \in Users : Begin(r, op, u)
         \/ CreateWrites(r) \/ DeleteWrites(r) \/ DeleteEnds(r) \/ LoginEnds(r)
    \/ \E s \in Bearers, p \in Paths :
         Upload(s, p) \/ DeleteFile(s, p) \/ \E q \in Paths : MovePath(s, p, q)
    \/ \E s \in sessions :
         \/ SessionEnds(s) \/ CreateKey(s) \/ \E k \in keys : DeleteKey(s, k)
         \/ \E h \in Shares : DeleteShare(s, h)
                                \/ \E p \in Paths, forever \in BOOLEAN : MakeShare(s, h, p, forever)
    \/ Sweep \/ Tick \/ Restart

Spec == Init /\ [][Next]_vars

-----------------------------------------------------------------------------
(* Properties *)

\* In its directory DATA/<username> an account finds a file of an earlier one of
\* the name only if a deletion of the name is under way, or left the file, cut
\* off by a restart or by an rmtree that raised, or if a session or an API key
\* that outlived the earlier account wrote the file after its deletion.  So a
\* deletion that runs to its end leaves nothing the account wrote in its time.
NoInheritance ==
    \A f \in DOMAIN files :
      LET u == f[1]
      IN  users[u] # 0 /\ files[f] # None /\ files[f].by # users[u]
            => files[f].late \/ f \in stray \/ Deleting(u) # {}

\* A deletion takes the files of the account in place only if that account was
\* made after the row the deletion looked up was gone: never those of the
\* account it found.
TakesOlder ==
    \A u \in Users : \A r \in Deleting(u), f \in Dir(u) :
      req'[r] = None /\ files[f] # None /\ files'[f] = None /\ files[f].by = users[u]
        => req[r].id < users[u]
RemovesItsOwn == [][TakesOlder]_vars

\* A link is served no longer than its day and one sweep (task_expiry), and one
\* whose file stays away is gone after one sweep, be it to stay or not.
LinksGo ==
    \A h \in Live :
      /\ ~shares[h].forever => shares[h].age <= LastFor + SweepEvery
      /\ shares[h].missing <= SweepEvery

=============================================================================
