----------------------------- MODULE Workspace ------------------------------
(***************************************************************************)
(* The documents of one user: server/modules/oworkspace.py on a file       *)
(* system.  All handlers but one run without suspending once they have     *)
(* their input; an upload awaits every chunk, and every upload of a name   *)
(* writes to the same temporary name.  An open handle follows its file:    *)
(* os.replace and rename move it along, and a file that is removed or      *)
(* replaced is Gone, where writes have no effect.  The contents of a file  *)
(* is the sequence of its chunks, each marked with the write it came from. *)
(***************************************************************************)
EXTENDS Naturals, Sequences

CONSTANTS Names, Uploads,
          None,    \* no file, no upload, no name
          Gone,    \* where a handle is whose file has no name any more
          Chunks   \* MAX_FILE_BYTES, in chunks of an upload

Places == {"doc", "uploadtmp"} \X Names
Files == [contents : Seq([by : Uploads \cup {"hole", "create", "save"}, i : Nat]), mixed : BOOLEAN]
Upload == [name : Names, at : Places \cup {Gone}, off : 0..Chunks, size : 1..(Chunks + 1)]

ASSUME WorkspaceAssumption ==
    /\ None \notin Names /\ None \notin Files /\ None \notin Upload /\ Gone \notin Places
    /\ Chunks \in Nat \ {0}

Doc(n) == <<"doc", n>>
Tmp(n) == <<"uploadtmp", n>>

VARIABLES
    disk,  \* [Places -> None or a file: its contents, and a history bit, mixed: two
           \* uploads could touch it, rename_file took the temporary file of an
           \* upload under way away or put another in its place, or a crash cut
           \* create_file off]
    up     \* [Uploads -> None or an upload under way: the document's name, where its
           \* handle is, the chunks written and the chunks there are]
vars == <<disk, up>>

File(c, mixed) == [contents |-> c, mixed |-> mixed]
Cell(by, i) == [by |-> by, i |-> i]
Hole == Cell("hole", 0)              \* never written: reads as zeros
Created == <<Cell("create", 1)>>
Saved == <<Cell("save", 1)>>
Whole == {Created, Saved} \cup {[i \in 1..n |-> Cell(u, i)] : u \in Uploads, n \in 1..Chunks}

Open(u) == up[u] # None
Writers(n) == {u \in Uploads : Open(u) /\ up[u].name = n}

TypeOK ==
    /\ disk \in [Places -> {None} \cup Files]
    /\ \A p \in Places : disk[p] # None => Len(disk[p].contents) <= Chunks
    /\ up \in [Uploads -> {None} \cup Upload]
    /\ \A u \in Uploads : Open(u) => up[u].off <= up[u].size /\ (up[u].at = Gone \/ disk[up[u].at] # None)

Init == disk = [p \in Places |-> None] /\ up = [u \in Uploads |-> None]

\* The handles once the file at p is at q; with q = Gone it was removed.
Follow(ups, p, q) ==
    [u \in Uploads |-> IF ups[u] = None THEN None
                       ELSE IF ups[u].at = p THEN [ups[u] EXCEPT !.at = q]
                       ELSE IF ups[u].at = q THEN [ups[u] EXCEPT !.at = Gone]
                       ELSE ups[u]]

Move(p, q) == [disk EXCEPT ![q] = disk[p], ![p] = None]
Closed(u) == [up EXCEPT ![u] = None]

-----------------------------------------------------------------------------
\* create_file: the document itself is opened, not a temporary file, so a
\* crash (see Crash) may leave it empty.
Create(n) ==
    /\ disk[Doc(n)] = None
    /\ disk' = [disk EXCEPT ![Doc(n)] = File(Created, FALSE)]
    /\ UNCHANGED up

\* The uploads under way that have place p as their temporary name or a handle
\* there.
Touching(p) == {u \in Uploads : Open(u) /\ (Tmp(up[u].name) = p \/ up[u].at = p)}

\* upload_file, up to the first chunk: the temporary name is opened with "wb",
\* which truncates what another upload has written there.
UploadBegins(u, n, size) ==
    /\ ~Open(u) /\ disk[Doc(n)] = None
    /\ up' = [up EXCEPT ![u] = [name |-> n, at |-> Tmp(n), off |-> 0, size |-> size]]
    /\ disk' = [disk EXCEPT ![Tmp(n)] = File(<<>>, Touching(Tmp(n)) # {})]

\* A write at an offset of the handle.
Written(c, at, cell) ==
    [i \in 1..(IF Len(c) < at THEN at ELSE Len(c)) |->
        IF i = at THEN cell ELSE IF i <= Len(c) THEN c[i] ELSE Hole]

\* A faulty upload that does not look at the limit.
UploadChunkUnlimited(u) ==
    /\ Open(u) /\ up[u].off < up[u].size
    /\ up' = [up EXCEPT ![u].off = @ + 1]
    /\ disk' = [p \in Places |->
                  IF p = up[u].at
                    THEN [disk[p] EXCEPT !.contents = Written(@, up[u].off + 1, Cell(u, up[u].off + 1))]
                    ELSE disk[p]]

UploadChunk(u) ==
    /\ Open(u) /\ up[u].off < up[u].size /\ up[u].off < Chunks
    /\ up' = [up EXCEPT ![u].off = @ + 1]
    /\ disk' = [p \in Places |->
                  IF p = up[u].at
                    THEN [disk[p] EXCEPT !.contents = Written(@, up[u].off + 1, Cell(u, up[u].off + 1))]
                    ELSE disk[p]]

\* The chunk that passes the limit (413): the temporary name is removed,
\* whichever upload it belongs to.
UploadTooBig(u) ==
    /\ Open(u) /\ up[u].off = Chunks /\ up[u].size > Chunks
    /\ LET t == Tmp(up[u].name)
       IN  up' = Follow(Closed(u), t, Gone) /\ disk' = [disk EXCEPT ![t] = None]

\* A faulty upload that keeps what it has when it is interrupted.
UploadKeepsPart(u) ==
    /\ Open(u) /\ up[u].at = Tmp(up[u].name)
    /\ up' = Follow(Closed(u), Tmp(up[u].name), Doc(up[u].name))
    /\ disk' = Move(Tmp(up[u].name), Doc(up[u].name))

\* The handler is interrupted (the request is cancelled, the disk is full):
\* the temporary name stays.
UploadBreaksOff(u) == Open(u) /\ up' = Closed(u) /\ UNCHANGED disk

\* A faulty upload that has its document in place before the handle is closed.
UploadEndsOpen(u) ==
    /\ Open(u) /\ up[u].off = up[u].size - 1 /\ disk[Tmp(up[u].name)] # None
    /\ disk' = Move(Tmp(up[u].name), Doc(up[u].name))
    /\ up' = Follow(up, Tmp(up[u].name), Doc(up[u].name))

\* os.replace moves the temporary name, whatever it refers to now and whether
\* or not the document exists by now; without it the handler raises.
UploadEnds(u) ==
    /\ Open(u) /\ up[u].off = up[u].size
    /\ LET t == Tmp(up[u].name)  d == Doc(up[u].name)
       IN  IF disk[t] = None THEN up' = Closed(u) /\ UNCHANGED disk
           ELSE up' = Follow(Closed(u), t, d) /\ disk' = Move(t, d)

\* save_file: _write_atomic gives the new contents a file of its own that takes
\* the name over, be it a document's or a temporary one.  The copy under
\* .backups that precedes it is read by nothing and may fail.
Save(p) ==
    /\ disk[p] # None
    /\ disk' = [disk EXCEPT ![p] = File(Saved, FALSE)]
    /\ up' = Follow(up, p, Gone)

\* delete_file, of a document or of a temporary file.
Delete(p) ==
    /\ disk[p] # None
    /\ disk' = [disk EXCEPT ![p] = None]
    /\ up' = Follow(up, p, Gone)

\* rename_file: the suffix stays, so a document is renamed to a document and a
\* temporary file to the temporary name of another one, whose upload may be
\* under way.
Rename(p, q) ==
    /\ p[1] = q[1] /\ disk[p] # None /\ disk[q] = None
    /\ disk' = [disk EXCEPT ![q] = File(disk[p].contents,
                                       disk[p].mixed \/ Touching(p) \cup Touching(q) # {}),
                            ![p] = None]
    /\ up' = Follow(up, p, q)

\* The process ends, maybe in the middle of create_file; a save it interrupts
\* leaves its own temporary file and nothing else.
Crash(half) ==
    /\ up' = [u \in Uploads |-> None]
    /\ \/ half = None /\ UNCHANGED disk
       \/ /\ half # None /\ disk[Doc(half)] = None
          /\ disk' = [disk EXCEPT ![Doc(half)] = File(<<>>, TRUE)]

-----------------------------------------------------------------------------
Next ==
    \/ \E n \in Names : Create(n) \/ Crash(n)
    \/ \E p \in Places : Delete(p) \/ Save(p) \/ \E q \in Places : Rename(p, q)
    \/ \E u \in Uploads :
         \/ \E n \in Names, size \in 1..(Chunks + 1) : UploadBegins(u, n, size)
         \/ UploadChunk(u) \/ UploadTooBig(u) \/ UploadBreaksOff(u) \/ UploadEnds(u)
    \/ Crash(None)

Spec == Init /\ [][Next]_vars

-----------------------------------------------------------------------------
(* Properties *)

\* A document holds one write in full, whatever was interrupted, with three
\* exceptions: two uploads were under way that had one temporary file, by its
\* name or by a handle; rename_file took the temporary file of an upload under
\* way, or put another under its name; create_file was cut off in the middle.
DocumentsWhole ==
    \A n \in Names : disk[Doc(n)] # None /\ ~disk[Doc(n)].mixed => disk[Doc(n)].contents \in Whole

\* No upload under way can write to a document, unless another upload or
\* rename_file touched its temporary file while it ran.
DocumentsClosed ==
    \A n \in Names, u \in Uploads : Open(u) /\ up[u].at = Doc(n) => disk[Doc(n)].mixed

\* docs/workspace/oworkspace.md: "All writes go through a temporary file +
\* os.replace, so interrupted saves cannot corrupt existing documents": what a
\* document holds never changes in place.
WritesAreAtomic ==
    [][\A n \in Names, u \in Uploads :
         Open(u) /\ up[u].at = Doc(n) /\ up'[u] # None /\ up'[u].off # up[u].off
           => disk'[Doc(n)] = disk[Doc(n)]]_vars

=============================================================================
