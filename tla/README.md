# OCloud in TLA+

OCloud is a self-hosted cloud: one FastAPI process on one asyncio event loop, an
SQLite file, a directory tree, docker nodes, and pages in browsers. This directory
holds TLA+ models of the parts where order, time or failure matter, the TLC runs that
check them on small instances, and theorems proved with TLAPS. Paths below are
relative to `src/server/` unless they begin with `docs/`.

`PROJECT.json` lists the same things for tools: the components, the runs, for every
definition the lines it models, for every property a mutation of the code that breaks
it, the hazards and the theorems.

## How the program runs, and what a step is

Everything but the plain `def` handlers runs on one event loop. A handler is only
interleaved with others where it awaits something that may suspend it. Three facts
about this code decide what an action is:

- `addEvent` puts on an *unbounded* `asyncio.Queue`, which never suspends; nor does
  `getEventsBatch`, nor `waitEvent` on a queue that is not empty. These are parts of a
  step, not steps.
- the docker SDK, `shutil`, `open` and `os.replace` block the loop. A handler that only
  calls these is one step, even if it is long. A crash can still cut it in two, and the
  models have such a crash where it leaves something on disk (`Workspace!Crash`,
  `Storage!Restart`, `OMail!Restart`).
- `aiosqlite` suspends at every statement, at the commit and at the close of the
  connection. `websocket.receive*`, `websocket.send*`, `file.read` of an upload,
  `asyncio.sleep` and `wait_for` suspend.

So an action is the code between two awaits that may suspend, and it includes all that
the code does there: the registry entry, the event, the clean-up that comes last.

## Components

| component | code | state | modules | hard because |
|---|---|---|---|---|
| events | `modules/events.py` | `_user_queues`: a queue per user, in memory | `Events`, `Hook` | several sessions take from one queue |
| hook | `modules/hook.py` | `registered_hooks`; per session `user`, `pending_acks`, `batch_counter`, three tasks | `Hook` | acknowledgement, expiry, disconnects and revoked codes race |
| oconnect | `modules/oconnect.py` | `CONNECTIONS`: a mailbox per user; per handler the open offer | `OConnect`, `Transfer` | offers time out, answers come late, several tabs of one user |
| oconnect page | `root/static/oconnect.js` | `socket`, `pendingConnectionsPayload`, cards, modal | `OConnect` | asynchronous rendering, reconnects |
| cube | `modules/cube.py` | `lmbservers`, `clientidx`; containers at docker | `Cube` | docker refuses calls, restarts forget, expiry by a sweep |
| cube shell | `modules/cube.py`, `lambda_shell` | reader thread, `out_q`, pump task, main loop | `CubeShell`, `Terminals` | a thread and two tasks around a bounded queue |
| login and its limiter | `modules/omedia.py`, `modules/auth.py` | `login_attempts` per address | `Login` | the check and the record are on two sides of an await |
| oworkspace | `modules/oworkspace.py` | documents and temporary files on disk | `Workspace` | uploads await between chunks and share a temporary name |
| accounts, sessions, directories | `modules/omedia.py`, `modules/files.py`, `modules/auth.py` | tables `users` and `api_keys`, `sessions`, a directory per username | `Storage` | rows have ids, everything else goes by name |
| fileshare | `modules/extend/fileshare.py` | `copen_fsr`: links, in memory | `Storage` | links name paths, and expire by a sweep |
| omail | `modules/omail.py` | five tables, attachments on disk | `OMail`, `Mailbox` | long transactions, a retry loop inside one, files outside it |
| webshell | `modules/extend/webshell.py` | a terminal or two pipes, a task for each stream, the main loop | `Webshell`, `Terminals` | non-blocking writes, threads in blocking reads, three variants of one session |
| monitord, iplocate, audit, start-up, CLI, editors, other pages | | none that is shared, or pure input and output | not modelled | |

How they interact. `cube`, `omedia`, `oworkspace` and others call `addEvent`; `hook` hands the queue
of a user to whoever presents the user's code: `Hook` EXTENDS `Events` and lets any user add an
event at any time. `fileshare` and `oconnect` find files through the user's directory,
`DATA/<username>`, which a deletion of the account empties (`Storage`). `oworkspace` keeps its
documents in `DATA/_workfiles/<username>` (`oworkspace.py:18`, `:26`), which no deletion touches: a
later account of the name finds them. All tables are in one SQLite file with one write lock: `OMail`
has it, with the other modules' writes as handlers that also want the lock. All of `events`, `hook`,
`oconnect`, `cube`, `sessions`, `fileshare` and the limiter are in memory and are forgotten when the
server restarts.

## The modules

### Events and Hook

`Events` has the queue operations as operators on sequences: `Put`, `Rotate` (what
`waitEvent(removeEventfromQueue=False)` does: take the head and put it back *at the
tail*), `Pop`, `Batch`.

`Hook` has a user who registers, revokes and adds events, any number of sessions, and their clients.
`pc[s]` is the await a handler is at: accepted, waiting for the mode, the two waits of the SYNC
loop, or the ASYNC session whose three tasks (`AsyncTake`, the listener's `Listener...` actions,
`AckCleanup`) share `pending[s]`. `wire` and `inbox` are what is under way in each direction. A
listener ends when its client goes, and also at a frame that is not text, with the client still
there (`ListenerStops`). History variables say what became of every event: `popped`, `acked`,
`expired` by the clean-up, or `lost` (with a handler or a restart).

Properties: `Isolation` (no event reaches a session that did not show a code made for its owner,
while codes are revoked and issued again), `OnePlace` (an event is in exactly one slot, or left in
exactly one way), `OfferedStaysQueued`, `AckedWasRead` (an ACK never clears a batch still on the
wire), `AsyncInOrder`, and `EventSettles`.

### Transfer and OConnect

`Transfer` is the abstract promise: new, queued, offered, then copied or dropped, never
back and never twice. `OConnect` is the code: mailboxes, one handler per socket with
its open offer, answers by key (`connection-1`, ...) and the page with its cards. It
implements `Transfer` under the refinement mapping `Status` (`Lifecycle == T!Spec`,
checked as a property). `OneHolder` says competing sockets never both hold a transfer;
`CopyNeedsTickedCard` bounds what goes wrong in the finding below: a transfer that was copied
was itself ticked, or is paired in `misread` with one that was ticked, whose key it shared.
`MailSettles` is its liveness.

### Cube

The registry, the round of the nodes, the age of each lambda, and docker as the
environment that may refuse any call. `ExpiresInTime`, `LeaksAreFailures` (a container
without a registry entry is always the result of a refusal, a failed launch or a
restart), `Balanced`.

### CubeShell, Webshell and Terminals

`CubeShell` is one session of a lambda's shell: the reader thread hands each chunk to the loop and
waits up to 30 seconds for the put, the puts wait for room, the pump sends. `Webshell` is one
session of the administrator's terminal, in the three forms the code has: a pseudo-terminal that a
task polls and the main loop writes to without blocking, and on Windows a ConPTY or two pipes, whose
reads and writes are done by threads. The state of each is one record, `sh` and `ws`, described at
the top of its module. A read may fail at any time and ends its task while the shell lives and
prints (`ReaderRaises`, `ReadFails`; `broke` remembers it), a write may too (`InputFails`,
`WriteFails`), and a task that is cancelled in a read leaves its thread behind, for a ConPTY as for
pipes (`ThreadReturns`). Chunks of output are numbered as they are printed, and a message of
keystrokes has two pieces, so that a full terminal can cut it.

`Terminals` has a session of either kind and states what both promise: `OutputKept` (in
order and without a gap), `AllSentAtEnd` (a client that is there when the output ends has been
sent all that was read, and if no read failed that is all that was printed and the shell has
ended), `InputKept` (keystrokes once and in order, none left out but for those the
code drops), `ReaderEnds`, and `SessionsEnd` (a session whose client has gone leaves no task,
thread or descriptor behind). The sessions share nothing, so one of either kind is enough.

### Login

The limiter with attempts as ages, in ticks, and requests that have passed the check and wait
for the query or for the audit of their failure; any await may raise (`Aborts`), the
administrator's login needs no query (`AdminLogsIn`), a restart forgets all. `GuessesBetweenLogins`
is the bound the code really gives: the failures of an address in any time of the first lockout are
less than the threshold plus the requests under way at once, *as long as nobody logs in from it*. A
login (`auth.py:100`) and a restart forget its failures and open the next round; across them the
code gives no bound, and none is stated. `RetryAfterSuffices`, `LockoutShrinks`, `LockoutEnds`.

### Workspace

Documents and temporary files with their contents as a sequence of chunks, each marked
with its writer, and open handles that follow their file through a rename, as POSIX
handles do. Save, delete and rename take any name the listing shows, so the temporary file of an
upload under way, too (`Places`); a rename keeps the suffix. `DocumentsWhole` and `DocumentsClosed`
say which documents are whole and written to by nobody: all whose file is not `mixed`. A file
becomes mixed in three ways: another upload has the same temporary file, by its name or through a
handle; `rename_file` takes the temporary file of an upload away or puts another in its place, so
that uploads of *different* names meet in one file; a crash cuts `create_file` off.

### Storage

Accounts by id, files by username and path, sessions and API keys by username (each remembers, for
the record, the account that made it; a key outlives a restart). The files remember the account
that wrote them. `rmtree` may raise and leave any part of the directory, and so may a restart;
`stray` remembers what they left. The administrator, whose sessions have no row, is not one of
`Users`. `NoInheritance` (who finds whose files, and why), `RemovesItsOwn` (if a deletion
takes files of the account that has the name then, that account was made after the row the
deletion looked up was gone), `LinksGo` (one sweep after its day a link is gone unless it is to
stay, and one sweep after its file has gone any link is).

### OMail

`db` is what is committed, `work` the copy of the handler that holds the write lock, `disk` the
attachments. `send_message` is a transaction in steps; `Fails` is a statement that raises in any of
them, `GivesUp` the five seconds of a handler that waits. An attachment whose base64 does not decode
is skipped (`good` are the others), and a batch of labels changes any number of messages and labels
and commits them at once. `ThreadsAddUp`, `AttachmentsOnDisk`, and `Delivers`: under the mapping
`Box(db)`, the statements of all the handlers, failing and interleaved, implement `Mailbox`, in
which a message is delivered in one step with its thread, its three labels and all its attachments
that decode, and nothing changes later but a user's own labels, a batch of them at a time.

## The runs

Every passing run is exhaustive on its instance. The counts are of distinct states.

| run | what it asks | instance | states |
|---|---|---|---|
| `hook_async` | do competing ASYNC sessions keep order, and does every event settle? | 1 user, 2 sessions, 3 events, batches of 2 | 536 k |
| `hook_mixed` | do users stay apart, is every event accounted for? | 2 users, 2 codes, 2 sessions of any mode, 2 events, a restart | 3.6 M |
| `hook_confirm` | *(violated)* is the removed event the one that was read? | 1 SYNC session, 2 events | |
| `oconnect` | is a transfer offered and settled at most once, and settled at all? | 2 pages of one user, 2 sockets, 2 transfers, all faults | 129 k |
| `oconnect_consent` | *(violated)* was what is copied accepted? | 1 page, 1 socket, timeouts | |
| `cube` | what does the registry hold, and what runs without it? | 2 lambdas, 2 users, 2 nodes, a restart | 111 k |
| `terminals` | do output and input keep their order, and does a session end? | a lambda's shell with a queue of 2 and 5 chunks, or the administrator's with 2 chunks a stream and 3 messages | 1.5 M |
| `login` | how many failures get through, how long is a lockout? | 1 address, 2 requests at once, threshold 3, a tick of half a second | 307 k |
| `workspace` | is a document one whole write? | 2 names, 2 uploads of 1 to 3 chunks, limit 2 | 1.3 M |
| `workspace_atomic` | *(violated)* do documents never change in place? | 1 name, 2 uploads | |
| `storage` | which files survive whom, how long does a link? | 1 name, 2 accounts, 2 handlers, 2 paths, 1 link, keys, a restart, `rmtree` that fails midway | 1.5 M |
| `omail` | does what is committed fit together? | 2 users, 2 ids, an attachment, batches of the label unread, a taken id, a failure | 2.8 M |

**Why the bounds are enough.** Two sessions, sockets, uploads or requests are what is
needed for a race; the handlers keep no count of their rivals, so a third adds no new
pair. Queues hold more than a batch (three events for batches of two), the shell prints
more chunks (five) than queue, pump and reader hold together (four), three messages of two pieces
meet a terminal with room for three, so that one is cut and one finds it full, one upload in three
passes the size limit, the login instance has room for two lockout levels and for
forgetting (a window of seven seconds for lockouts of two and four), a lambda outlives
its time by more than one sweep. One restart is enough for everything that is only in
memory: the state after a restart is an initial state but for what is on disk, at docker
or in a browser. Where one address or one username is modelled, the code keys its state
by it and nothing relates two (the limiter's pruning of all addresses at each check is
in the model as `Pruned`).

**Deadlock** is off where the bounds (events, transfers, chunks, messages, accounts, restarts)
let every handler come to rest; it is checked for `login` and `workspace`, which never
have to stop.

**Fairness**, where a liveness property is checked:

- `Hook`: the ASYNC main loop and the clean-up task of a session, which are loops over
  timers on the server. Nothing is assumed of clients.
- `OConnect`: each handler's loop: it polls every half second and its wait for
  decisions ends after ten. Nothing is assumed of pages.
- `Terminals`, of a lambda's shell: the reader thread goes on when there is output or the shell
  has ended (a read that is never answered is not assumed to notice that its socket is closed), the
  loop runs its tasks, the main loop ends when its client has gone and is not for ever writing to a
  shell that has ended (`MainGoesOn`). Of the administrator's: the main loop runs, Windows ends a
  process that is told to end, and a thread's read returns once there is something to read, or the
  shell has ended and all was read (`ReadOver`): that is an assumption about ConPTYs and pipes. It
  is not assumed that a client reads, nor that a shell reads its
  input or ends by itself.
- `Login`: time passes.

`Storage`, `Cube` and `OMail` have no liveness property: "in time" is stated as a bound
on ages, with a sweep that is not late, as an invariant.

## What the runs found

Three statements of the repository's documents do not hold of the code.

1. `hook_confirm`: `docs/hook.md:58`, "Server only removes the event from the queue upon
   receiving this confirmation". The event that is being processed was moved to the tail
   and `popEvent` removes the head: with two events queued, confirming the first removes the
   second, which nobody has read.
2. `oconnect_consent`: `docs/workspace/oconnect.md:70`, files are reviewed "before
   confirming the transfer". Answers name keys, not offers, and keys are the same in every
   offer: an answer after the timeout accepts the next offer.
3. `workspace_atomic`: `docs/workspace/oworkspace.md:66`, "All writes go through a temporary
   file + `os.replace`, so interrupted saves cannot corrupt existing documents". Uploads of one
   name share one temporary file, and after the first moves it into place the second goes on
   writing to the document.

The properties that hold are stated so that each of these is visible in them:
`DocumentsWhole` excepts documents whose temporary file others could touch, `CopyNeedsTickedCard`
names the ticks that were misread and for what, `OfferedStaysQueued` holds only of a session that
has the queue to itself. Likewise `NoInheritance` names the ways a new account can find files of an
earlier one in `DATA/<username>`: a deletion is under way, or it left them, cut off by a restart or
by an error of `rmtree` (`stray`), or a session or key that outlived its account wrote them later.

What these exceptions allow is what the code does, and no property would tell more of it from
less: the hazards at such lines have no property in `PROJECT.json`, with a note that says so.

Four more things show in the terminals and at the start of the server; the models have the first
three.

- `docs/extendors/webshell.md:84` lists a close with 1000 on "shell exit". The main loop of the
  Unix handler waits only for the client, and `read_pty` passes over the error that a terminal
  gives once its shell has gone: the session stays until the client leaves
  (`SeesDisconnect`, `ReadsEnd`). `WebEnds` therefore starts from a client that has gone.
- `docs/extendors/webshell.md:79` says that text messages are keystrokes sent to the shell. A
  message that begins with `ESC [` is taken for a terminal's size and, when it does not parse
  as one, dropped (`Resizes`): arrow keys, for instance. `InputKept` is about the others.
- A paste that finds the pseudo-terminal full is cut, and one that finds no room at all ends the
  session (`WritesNow`); on Windows nothing is cut, but the main loop waits for the shell to read
  and does not see that its client has gone (`EndsWrite`).
- `server.py:89-91` starts the sweep of expired lambdas only if the configuration uses cube, while
  `--with-cube` (`server.py:158`) mounts cube all the same: lambdas launched then never expire.
  `Cube` models a server that has the sweep.

## What is proved

The theorems are in modules of their own, each beside the component it is about. They hold for every
value of the constants that satisfies the module's assumption (`HookAssumption`, ...): the special
values (`NoUser`, `None`) are none of the ordinary ones, counts and times are naturals, a period, a
number of nodes or the size of a queue is not zero, and a terminal has room for a message. TLC
evaluates each assumption on its instance. No bound of the runs is used but as a natural number.
Only `Login` assumes a set finite, the requests, whose number is in `GuessesBetweenLogins`;
`OMailProofs` proves that the messages are finite.

| theorem | what it says, for all constants |
|---|---|
| `HookProofs!TypeCorrect` | `TypeOK` |
| `HookProofs!IsolationHolds` | `Isolation`: no event reaches a session that did not show its owner's code |
| `HookProofs!OnePlaceHolds` | `OnePlace`: an event is in one slot, or left in exactly one way |
| `HookProofs!OfferedStaysQueuedHolds` | `OfferedStaysQueued` |
| `HookProofs!AsyncInOrderHolds` | `AsyncInOrder`, for any number of competing sessions |
| `HookProofs!AckedWasReadHolds` | `AckedWasRead`: an ACK clears only what was read |
| `HookProofs!EventNearsItsEndHolds` | nothing gets in front of an event; each batch taken and each cleanup takes away some of what is |
| `OConnectProofs!TypeCorrect` | `TypeOK` |
| `OConnectProofs!OneHolderHolds` | `OneHolder`, for any pages, sockets and restarts |
| `OConnectProofs!LifecycleHolds` | `Lifecycle`: `OConnect` implements `Transfer` |
| `OConnectProofs!CopyNeedsTickedCardHolds` | `CopyNeedsTickedCard`: no copy without a ticked card, its own or one misread for it |
| `OConnectProofs!MailNearsItsEndHolds` | no step takes a transfer away from being settled; those of the handlers concerned bring it nearer |
| `LoginProofs!TypeCorrect` | `TypeOK` |
| `LoginProofs!RetryAfterSufficesHolds` | `RetryAfterSuffices`, for any threshold, lockout and clock |
| `LoginProofs!GuessesBetweenLoginsHold` | `GuessesBetweenLogins`, for any number of overlapping requests |
| `LoginProofs!LockoutShrinksHolds` | `LockoutShrinks`, an action property |
| `LoginProofs!LockoutNearsItsEndHolds` | while an address is locked, nobody new asks, and time or one asker less shortens the lockout |
| `WorkspaceProofs!TypeCorrect` | `TypeOK` |
| `WorkspaceProofs!DocumentsWholeHolds`, `!DocumentsClosedHolds` | `DocumentsWhole`, `DocumentsClosed`, for any number of uploads |
| `StorageProofs!TypeCorrect` | `TypeOK` |
| `StorageProofs!NoInheritanceHolds` | `NoInheritance`: what explains a file of an earlier account in `DATA/<username>` |
| `StorageProofs!RemovesItsOwnHolds` | `RemovesItsOwn`, an action property |
| `StorageProofs!LinksGoInTime` | `LinksGo`, whatever a link's day and the sweep's period |
| `CubeProofs!TypeCorrect` | `TypeOK` |
| `CubeProofs!LaunchesGoRound` | `Balanced`, for any number of nodes |
| `CubeProofs!LambdasGo`, `!LeaksAreFailuresHolds` | `ExpiresInTime`, `LeaksAreFailures` |
| `TerminalsProofs!TypeCorrect` | `TypeOK` |
| `TerminalsProofs!OutputKeptHolds` | `OutputKept`, for any queue size and any output |
| `TerminalsProofs!AllSentAtEndHolds` | `AllSentAtEnd`, wherever puts wait, however late they start, whatever fails |
| `TerminalsProofs!InputKeptHolds` | `InputKept`, for any room in the terminal and any typing |
| `TerminalsProofs!ReaderNearsItsEndHolds` | once the shell has ended, each step of the reader thread lowers a number that no other step raises |
| `TerminalsProofs!MainNearsItsEndHolds` | once its client has gone, each step of the main loop lowers a number that no other step raises |
| `OMailProofs!TypeCorrect` | `TypeOK` |
| `OMailProofs!DeliversHolds` | `Delivers`: `OMail` implements `Mailbox` |
| `OMailProofs!AttachmentsOnDiskHolds` | `AttachmentsOnDisk` |
| `OMailProofs!ThreadsAddUpHolds` | `ThreadsAddUp`, for any number of messages |

The arguments:

- **Hook.** `TypeOK` is not inductive: a handler indexes `queue` with `user[s]`, so its user must
  be one. `TInv` adds `SessionInv` (what is known at each await: a session past its first message
  showed a code generated for its user, one before it holds nothing, a listener runs only in an
  ASYNC session) and `RegistryInv` (a registered code was generated for the user it is registered
  for). `IIso` says `Isolation` of everything a session holds at once (`Held`: pending batches, what
  is on the wire, what was read, what is offered). Each step either moves events from the queue
  of the session's user to the session, or moves them within the session; the lemmas on `Put`,
  `Rotate`, `Pop` and `Batch` say that these bring in no event from elsewhere. Revoking a code
  matters only through `holder`, which never changes for a code once given.
- **Hook, what becomes of an event.** The first lemma, `NextIs`, says that every step is one of
  seven as far as events go: put, rotated, popped, taken as a batch, a batch cleared, everything
  lost, or nothing. `Sound` is `OnePlace` without counting: no queue or batch repeats an event, no
  two share one, and each event is somewhere or has left; it is a formula about values, with a
  lemma for each kind of step. `OnePlace` counts, and follows at the end. `Fifo` says a queue is
  sorted and that what has left it is older. `AckSound` is what an ACK needs: ids are counted, so
  the ids of the batches on the wire are the last ones, in order; what is pending and not on the
  wire was read, and an ACK under way names such a batch. `OfferedStaysQueued` is
  inductive.
- **OConnect.** `NextIs` abstracts a step to what it does to transfers (`TransferStep`). `IMail`,
  `IBatch` and `IHeld` say that a transfer is in one mailbox slot or one batch slot, only of a
  handler that waits, and is settled otherwise: `OneHolder` counts that. The table of `Status`
  follows from it, and with the table each kind of step is a step of `Transfer`, or a stutter.
  `ISeen`: whatever an answer accepts was ticked on its card, so that a
  transfer that is copied at its key is that one, or is paired with it in `misread`.
- **Login.** `ToldEnough`: the rest of a lockout is never longer than what a client that has not
  failed since was told, less the time since; it needs that forgetting old failures never
  lengthens a lockout and that rounding is up. `FewGuess` bounds the failures that are not older
  than the first lockout *together with* the requests that passed the check and will fail: passing
  needs fewer than the threshold.
- **Workspace.** A document is whole unless its file is `mixed`, which is history. `ISole` is why
  that is enough: a temporary file that is not mixed holds exactly what the only upload of its name
  has written, or something whole that no handle is at, so moving it into place at the end makes a
  whole document, and no other handle follows it (`DocumentsClosed`). `ITmp`: a handle at a
  temporary name is of an upload of that name, unless the file is mixed. The handlers that save,
  delete and rename share two lemmas on files that are replaced or renamed, whatever their names.
- **Storage.** `TInv` adds that a handler which found an account knows an id that was given out.
  `IFiles` is `NoInheritance` also for names that have *no* account at the moment: otherwise
  creating one would be the step that breaks it. A deletion that ends leaves files only as `stray`.
  `IOlder` relates a deletion under way to the
  account that now has the name: there is none, or a later one, or, before the row is deleted,
  the one it looked up. As ids only grow, the account whose files it takes at the end is later.
  `ILinks` says how far a link can be past its day between two sweeps.
- **Cube.** `Balanced` follows from `IBalanced`: the launches of the nodes before `clientidx`, less
  one, and those of the others are all equal, full rounds. `IExpires` bounds an age by the TTL and
  the time since the last sweep. `LeaksAreFailures` is inductive as it stands, because the sweep
  puts every refusal in the account and goes on.
- **A lambda's shell.** None of the properties is inductive: they do not say where a chunk can be.
  `IReader` says it of what the reader has handed over and the queue has not got (`Flying`): nothing
  while it reads, at most the chunk it waits for while it waits, and after that at most the chunk it
  gave up and Eof, each in one place; so a put that starts late cannot repeat a chunk or run past
  another. `ILine`: the chunks after those the client or the pump has are in the queue, in order, or
  are the one that flies; therefore the head of the queue is the next chunk, and `OutputInOrder` is
  what this says of the concatenation `Line`. `IEnd`: of a reader that did not give up, Eof is the
  last there is, so the pump meets it with everything sent that was read; and if no read failed
  either, the shell has ended and that is all.
- **The administrator's.** `ISent`: what a stream was sent is as long as what its task has read,
  less the chunk it holds, and a task that ends with its client there has sent all, up to the
  shell's end or the read that failed (`broke`). `IInbox`: the inbox is the typed messages from
  `Taken` on. `IStored`: what the shell was given is in order and of messages up to `Taken`, less
  the one being written, and has the pieces of each: a write adds pieces behind all of these.
  `ITasks` is needed at the end: a task is cancelled only with its session.
- **OMail.** One lemma per action says what it does field by field; all the invariants use these.
  `Progress` is what a send has done at each statement. `ICounts`: the copy's counts are the
  cardinalities, plus one in the thread of a send that has counted and not yet inserted; it needs
  that the thread of a reply is the one of the message replied to even before the reply is there.
  `IBox` is what the copy adds to what is committed at each statement, and that a send's thread is
  still the right one when it commits, which only the write lock gives: so its commit is `Deliver`,
  a batch's is `Relabel` of all its messages, and every other step leaves `Box(db)` as it is.

## What is only model-checked

Liveness: `EventSettles`, `MailSettles`, `ReaderEnds`, `SessionsEnd` and `LockoutEnds`. It needs
ENABLED, which the prover does not reason about. Every other property of the passing runs is proved.

The part of each that is about single steps is proved for every value of the constants. For each
there is a measure that no step raises and that every step the fairness is about lowers:

- `ReaderEnds`, `SessionsEnd` (`TerminalsProofs`): `Rest` and `Work`, the steps that the reader and the
  main loop can still take once the shell has ended or the client has gone. They are 0 only at the end.
- `MailSettles` (`OConnectProofs`): `Left(t, h)`, how far a transfer is from being settled for a
  handler that stays; a handler that ends is why the property says "or is no longer served".
- `EventSettles` (`HookProofs`): `UpTo(e)`, the events of the queue up to `e`, then `InFront(e, s)`,
  the batches of the session up to the one with `e`. That a batch is taken from the front needs a
  queue without SYNC sessions: a SYNC loop that is not answered turns the queue, so the run of
  `EventSettles` has ASYNC sessions only.
- `LockoutEnds` (`LoginProofs`): first the requests under way that may still fail (`Asking`), then
  the rest of the lockout.

What the runs add is that such a step is enabled until the end, and that fairness takes it.

## What is not modelled, and why

- Contents: of files (but for `Workspace`), of events, messages and mails; names are
  model values, so the sanitising of names and paths is left out.
- Roles, passwords and CSRF tokens: each is a check at the head of a handler. A
  handler's action is the handler once the checks have passed; refused requests change
  nothing. `Login` is the exception.
- Reading handlers: listings, previews, downloads, the search of mails.
- `DATA/_workfiles` in `Storage`: no deletion touches it, so of oworkspace's documents there is
  nothing to prove; and the administrator's sessions, which make files in a directory no account
  has.
- Directories: making, removing and moving them, in `Storage`; its files are at paths that
  always exist. The rows of labels, in `OMail`: no message can carry a label of the user's own.
- The number of threads of the loop's executor: each session over Windows pipes keeps two in
  blocking reads until its shell prints or ends.
- The password of the administrator: `omedia.py:28` imports it by value, so a change of it is not
  seen there until a restart (listed as a hazard).
- Time spent in blocking calls: the loop stands still meanwhile, so it is one step.
- The thread pool of plain `def` handlers: `require_session` may drop an expired
  session from there while the loop iterates over `sessions` (listed as a hazard).
- `monitord` reads counters of the machine and sends them every two seconds, `iplocate` asks
  a service, `audit` appends to a table and lists it, the CLI sends requests, the editors and
  the other pages run in a browser: none has state that another actor changes.
- The start of the server: which clean-up loops run is taken as the default configuration has it.

## Plan

The order in which the modules were written follows how much can go wrong in them: `Events`,
`Hook`, `Transfer`, `OConnect`, `Cube`, `CubeShell`, `Login`, `Workspace`, `Storage`, `OMail`,
each with its runs, then proofs; then `Webshell` and `Terminals`, `Mailbox`, and the proofs of what
was only model-checked.

What is left:

1. `Storage`: two usernames (sharing by OConnect's copy crosses them), and directories as entries of
   their own, with a move of one under way while its files are uploaded.
2. The thread pool of plain `def` handlers, for the hazard at `auth.py:58`: it would make a step
   of each access to `sessions`.
3. The start-up configuration as constants of `Cube`: a server without the sweep.
