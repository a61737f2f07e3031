# A TLA+ model of Drawpile's sessions

Drawpile is a drawing program for several people at once. Its clients send
everything they do to a server; the server puts the messages of a session in
one order, the *session history*, and sends that history to every member. There
is no other shared state: canvas, user list, rights and settings are what a
client computes from the history. So the program is correct if the server keeps
the history, the streams that it sends, and its own knowledge of users and
rights consistent with each other, through joins and leaves, lost connections,
resets that replace the history, limits on its size and restarts of the server;
and if every client, which draws ahead of the server's order and repairs its
canvas when the guess was wrong, ends up with the canvas that order describes.

All paths below are relative to the repository's `src/` directory of code
(`libserver/session.cpp` is `src/libserver/session.cpp` in the repository).

## Inventory

| Component | State | Operations | What makes it correct |
|---|---|---|---|
| `Session`, `ThinSession` (`libserver/session.cpp`, `thinsession.cpp`) | state (Initialization, Running, Reset, Shutdown), init user, reset stream, members in order, past members, settings, autoreset state | `joinUser`, `removeUser`, `switchState`, `handleClientMessage`, `addToHistory`, `updateOwnership`, `resetSession`, `setSessionConfig`, `killSession`, `ensureOperatorExists` | state and init user agree; a reset has a resetter; lists in the history are the server's; an operator exists; the autoreset query is neither lost nor repeated, whatever becomes of the threshold |
| Operator commands (`opcommands.cpp`) | none | kick, ban, mute, op password, reset, init, autoreset, sessionconf, kill | nobody gains rights by a sequence of commands |
| `Client`, `ThinServerClient` | operator, trusted, muted, hold lock and queue, history position | `receiveMessages`, `setHoldLocked`, `sendNextHistoryBatch`, disconnects, JSON calls | each stream is a prefix of the history; nobody stays behind or on hold |
| `SessionHistory`, `InMemoryHistory` | messages, first index, size, limit, autoreset base, remembered operators and trusted accounts | `addMessage`, `reset`, `getBatch`, `effectiveAutoResetThreshold` | indices grow; a position denotes what was sent |
| `IdQueue` | IDs in order of use, ID of each name | `nextId`, `reserveId`, `setIdForName` | IDs are unique and not reused at once |
| `SessionServer` | sessions, connections | create, delete when empty or idle | an empty session that is not persistent ends |
| `LoginHandler` | login state, nonce, names | ident, host, join, external authentication | only who may join does; late replies change nothing |
| `MessageQueue` (`libshared/net`) | buffers, outbox, ping and idle timers | `send`, `readData`, `dataWritten`, `sendDisconnect` | FIFO, no message lost or split |
| `FiledHistory` | journal, recording, blocks and their cache | append, read, reset, load, cleanup | a restart finds the session that was written; readers get every message once |
| `AclFilter` (client) | operators, trusted, locks, tiers | `filterMessage` | all clients filter alike |
| `StateTracker`, `LocalFork`, `History` (client) | history, local fork, savepoints | receive, local draw, undo, rollback | all canvases converge |
| Recordings, announcements, configuration, log, JSON API, sockets, thick server, paint engine, tools, applications | | | not modelled, see PROJECT.json |

How they interact: `LoginHandler` (one per connection) hands a `Client` to
`Session::joinUser`. A connection's `MessageQueue` signals incoming messages to
`Client::receiveMessages`, which hands them to `Session::handleClientMessage`,
or keeps them in the hold queue while the session is being initialized. The
session appends to `SessionHistory`, whose `newMessagesAvailable` signal runs
`sendNextHistoryBatch` of every client; a queue that has been written runs it
too. `Client::loggedOff` runs `Session::removeUser`, which may append messages,
end a reset, name an operator, and through `sessionAttributeChanged` let
`SessionServer` delete the session.

The server has one thread. What is hard is therefore not preemption but
(a) *nesting*: a handler calls others through direct calls and direct signals,
in the middle of its own work; (b) *the order of events* between the members,
who join, leave, lose their connection, lose rights or upload an image while
the session changes state; (c) *positions and batches* held by slow clients
while the history is replaced; (d) *limits*: full history, full session, no
free ID, reset image too large; (e) *the disk*, which after a crash holds what
was flushed and perhaps half a message; (f) on the client, *two orders* of the
same commands, its own and the server's. `hazards` in PROJECT.json lists each
with its line.

## Modules

`Session.tla` models one session with its history and its connected clients.
The whole session is one record `s`; each C++ method is an operator from record
to record, named after it, and calls the others as the method does; each event
of the event loop is an action. So a handler is one step with all that it
nests: `removeUser`, for example, aborts a reset, stores the leave, promotes an
operator, reopens the session and may end it, in the order of the code.

| Fields of `s` | Code |
|---|---|
| `state`, `initUser`, `clients`, `past`, `resetstream`, `conf`, `banned` | `Session::m_state`, `m_initUser`, `m_clients`, `m_pastClients`, `m_resetstream`, `m_closed` with the history's flags, passwords, `maxUsers` and `autoResetThreshold`, `m_history->banlist()` |
| `autoreset` | `ThinSession::m_autoResetRequestStatus` |
| `hist`, `first`, `base`, `authOps`, `authTrusted` | `SessionHistory` |
| `op`, `trusted`, `muted`, `locked`, `held` | `Client::Private` |
| `pos`, `uploading` | `ThinServerClient::m_historyPosition`, `MessageQueue::isUploading` |
| `releasing` | the control point inside the `setHoldLocked(false)` loop of `switchState` |
| `seen`, `noOrigin` | not program state: the history that was sent to a client since it joined or was told to reset; whether `Q_ASSERT(origin)` has failed |

| Actions | Code |
|---|---|
| `Init`, `Join` | `LoginHandler::handleHostMessage`, `handleJoinMessage`, `Session::joinUser` |
| `Disconnect` | a lost or closed connection, `removeUser` |
| `Receive(in)` | `Client::receiveMessages`, `handleClientMessage`, all commands |
| `ReleaseHeld` | one step of `switchState`'s loop over `setHoldLocked(false)` |
| `AllSent`, `Ping` | the signals of the client's `MessageQueue` |
| `AdminClient`, `AdminConf`, `AdminKill` | the JSON API, and `cleanupSessions` |

`MCSession.tla` bounds it for TLC. Its proofs are in three modules, each on top of
the one before: `SessionProofs.tla` (types and control), `SessionHistoryProofs.tla`
(the history, its delivery and the refinement of `HistoryLog`) and
`SessionRightsProofs.tla` (operators, trusted users, settings).

`HistoryLog.tla` is the abstract specification of a session history: an ordered
log that grows at its end, is replaced by a reset with higher indices, and keeps
across a restart at least what had been made safe; what a reader has received is
always a prefix of it. `SessionLog.tla` states that `Session` implements it (what
the members were sent maps to `got`, nothing is safe), and `FiledHistory` that it
does (the recording that the journal's last FILE line names maps to `log`, its
flushed part to `safe`). Both are checked as properties of the runs, and proved.

`FiledHistory.tla` models a history on the disk: the recording with its buffer,
the index of blocks and the caches of their messages, the readers' positions,
`historyReset` and `initRecording` in their steps (file, header, FILE line,
removal of the old recording, messages), a crash between any two of them, a clean
stop, and `load` with `scanBlocks`. `MCFiledHistory.tla` adds the symmetry,
`FiledHistoryProofs.tla` proves its properties.

| State of `FiledHistory` | Code |
|---|---|
| `journal`, `disk`, `cur`, `old` | the FILE lines, the recordings, `m_recording`, `oldRecording` |
| `blocks` | `m_blocks` (start index, count, cached messages) |
| `stage`, `image` | the control point inside `create` and `historyReset`, and what it has still to add |
| `clients`, `pos` | `Session::m_clients`, `m_historyPosition` |
| `got`, `count` | not program state: what a reader was sent; bounds |

`StateTracker.tla` models the canvas of every client of a session. A client is a
record `tracker[c]`: the history window (`offset`, `history` with undo states),
the local fork (`fork`, `forkAt`, `behind`), `savepoints`, the `canvas` and
whether the `pen` is down. `log` is the server's order, `sent` what is on its way
there, `read` how much of it a client has handled. Each method of `StateTracker`,
`LocalFork` and `History` is an operator; the actions are `SendMessage`
(`localCommand`), `AddToHistory`, `Receive` (`receiveCommand` with all it nests:
rollback, replay, undo, undo points, savepoints) and the pen going up and down.

The canvas is, for each of a few *spots*, the sequence of strokes painted there.
That keeps what convergence is about: strokes on different spots commute and the
code treats them as concurrent, strokes on the same spot do not. A `Resize` stands
for all commands whose affected area is everything. Whether enough time has passed
for a savepoint is a free choice, so savepoints differ from client to client.

`MCStateTracker.tla` reduces the interleavings. What a client does depends only on
the order of its own sends and receives; a message that is sent before another is
received may as well be sent before the server orders that other one. So the way
from the server is taken to be instantaneous and the way to the server slow, and a
client in `Prompt` has no delay at all: its canvas is the server's order itself.
`StateTrackerProofs.tla` proves what positions of savepoints, history and fork have to
do with each other, and on top of it `CanvasProofs.tla` what the canvas shows.

`LoginHandler.tla` models one connection from the greeting to the session: the
handler's state, the identity given to the client, the queries to the external
authentication server, whose answers come in any order and at any time until the
handler is deleted, commands that arrive together, changes of the configuration,
kicks and lost connections. It sends through `MessageQueue.tla`, the outgoing half
of the message queue as operators on a record: outbox, a bounded batch written at
a time, `sendNow`, and the Disconnect that empties and closes the queue.
`LoginHandlerProofs.tla` proves that an identity is decided once, and by the rules,
and that the connection is a queue.

`IdQueue.tla` models the context IDs on their own: `assignId`, `joinUser` and
`removeUser` as far as they touch the queue. `Session` then takes a user's
name, address and ID as one thing. `IdQueueProofs.tla` proves the IDs unique, the
queue a permutation of them, and the ID freed last the last to be drawn.

### Abstractions

* A message is its type, its sender, the users it lists and the settings it
  carries; its length is 1, so that a size in bytes is a number of messages.
  The 90% cap of the autoreset threshold is computed as in the code.
* The settings are a record `conf`: the five flags that other code reads
  (`closed`, `authOnly`, `persistent`, operator password, deputies), `maxUsers` and
  the autoreset `threshold`, the numbers brought within their bounds as
  `setMaxUsers` and `setAutoResetThreshold` do. A `sessionconf` names all of them at
  once. The size limit, which no operator can change, is a constant. So is
  `IdQueue`'s `MaxUsers`: the largest number the session is ever opened for.
* `handleClientMessage` throws away a Join, Leave, SoftReset or Disconnect that a
  client sends (`session.cpp:614-625`); the model has no such inputs.
* The server allows persistence (`EnablePersistence`).
* Settings, bans and mutes are distributed as soon as they change; the ban and
  mute lists are direct messages and not part of the history.
* A user who is banned is banned by name; addresses and account IDs, which the
  ban list also matches, belong to the same user here.
* A session begins with its host. One that starts from a template or from a
  filed history, which is Running from the start, is not modelled.
* The recording's messages have length 1; `BlockSize` stands for 655350 bytes. A
  cut message may leave bytes behind it whenever what is written over it may be
  shorter; a UserLeave, the shortest message, leaves nothing. Errors of `open`
  and `write`, `terminate`, and journal lines other than FILE are not modelled.
* A recording that cannot be read back (`filedhistory.cpp:566-575`, where `getBatch`
  closes it and gives out what it has) is not modelled either.
* The canvas models no layers, annotations or selections: to the fork they are
  commands with an affected area like any other. A stroke is painted by its own
  message. Indirect strokes, which gather on a sublayer and reach the layer with the
  PenUp, are not modelled, and neither is that the area of a PenUp is read from the
  canvas as it is then (`statetracker.cpp:1134-1146`).
* A login's `host` or `join` carries whether the session would take the client;
  why is `Session`'s `MayJoin`. The accounts of the server do not change while the
  client logs in (an account created between the ident and the authentication
  server's answer is outside the model); its settings do. `QTcpSocket::write` takes
  all it is given.
* A held message that removes users (kick, ban, kill) would change `m_clients`
  under the loop of `switchState` that releases it; `Receive` leaves such
  messages out. `killSession`, which removes the clients in a loop over the
  list it changes, is one step that ends with an empty list.
* Announcements, abuse reports, recordings, logs and message texts are left
  out; a text to one or all clients is only what it does to their queues.

## Runs

Every run names its bounds as constants. In the runs of `Session`, `InKinds`,
`StreamKinds`, `AdminKinds` and the `...Choices` (of flags, numbers of users and
thresholds) choose the messages, calls and settings a run is about, so that the state
space goes into the interleavings that matter to it. `MaxHist` and `MaxFirst` bound
the history and the indices after resets, `MaxStream` an uploaded image, `MaxHeld` the
messages one client sends while on hold; a step beyond a bound is not taken. Users of
equal rights are a symmetry set, except in the liveness runs. Muting, which only drops a
user's chat, is in no run; the proofs cover it, as all messages.

Where only state, rights and lists matter, the runs use the view `RightsView`. It
drops the fields of the delivery (`pos`, `seen`, `uploading`, `noOrigin`), which nothing
but the delivery reads, and replaces `hist` and `first` by the length of the history and
by what it tells its readers (operators, trusted users, members, settings). Everything
else evolves with that length only, and what a history tells with one more message
follows from what it told and the message, so states with the same view have the same
future. The number of resets is then unbounded: `MaxFirst` is out of reach.

Deadlock is not checked: a session in Shutdown, a closed connection, and clients that
have sent all they will, stop.

| Run | Bounds | Shows |
|---|---|---|
| `session_stream` | 2 guests, history limit 5, threshold 2, images to 3, first index to 6, fairness | `TypeOK`, `ResetterPresent`, `HeldOnlyInInit`; `StreamIsPrefix`: what a client was sent is a prefix of the present history, without gap, repetition or remains of an old one; `IndexGrows`; `IsHistoryLog`: the session implements the abstract log; `AskedOnce`: operators are asked for a reset once in the life of a history, and only a reset takes it back; `CaughtUp`: every member of a running session is at the end of the history again and again |
| `session_rights` | 3 guests, history of 9 without limit, threshold 3, any number of resets | `OpsAgree`, `UsersAgree`: who reads the history knows the server's operators, trusted users and members, also when all it has is the history that a reset began; `OperatorExists`; `AutoResetQueried`: a history with space left that is longer than the threshold has had its operators asked, here after any resets |
| `session_moderation` | a guest, a user with an account, a moderator, history of 8, three choices of flags, a threshold of 6 that a `sessionconf` lowers to 4 | `NoEscalation`: who is not operator changes no setting, removes no protected user, and makes no operator but itself with the operator password, or through a kick where the administrator has left no operator; `OpsAgree` and `UsersAgree`, also when a user with an account leaves as operator or trusted and is given that back on its return; `AutoResetQueried` with a threshold that changes |
| `id_queue` | 5 names (1 moderator), 4 IDs, 3 users | `TypeOK`, `QueueIsPermutation`, `UniqueIds`, `NoHastyReuse` |
| `canvas_local` | a slow client that sends 3 messages, with pen, savepoints, a fork that may fall 2 behind, and filtered messages; a prompt one that sends 2; 2 spots | `Converged`: who has handled the same messages and has nothing on the way shows the same canvas; `SavepointsRestore`: every savepoint, replayed, gives the canvas that is shown; `SavepointsBeforeFork`; `ForkInFlight`: a fork does not outlive its messages |
| `canvas_remote` | the same with 2 and 5 messages; the prompt one undoes, redoes and truncates; undo depth 2 | `TypeOK`: among others, savepoints lie in the history that is kept, also when it has been cut; `Converged` |
| `filed_history` | 2 users, blocks of 2, 5 messages, 2 resets, 2 restarts, the second may cut a message | `TypeOK`; `IsHistoryLog`; `CacheComplete`; `NobodyIsLeftBehind`; `LostOnlyWhenEmpty`: a session is given up only if nothing of it had reached the disk; `BatchesAdvance` |
| `login` | 3 names (an account, a banned one), 3 commands, 2 announcements, batches or pings, 1 change of the settings, fairness | `TypeOK`; `IdentityIsFinal`; `GuestsAreAdmitted`; `QueueIsFifo`: what is sent is what was asked for, in order, without gaps, up to the first Disconnect; `DisconnectCloses` |

These bounds are enough for the cases that matter; that the rarer ones are really
reached was checked by having TLC refute that they are not. A hosting user and a guest
on hold; a reset, and a second one, with clients anywhere in the old history; an image
that fits while it is uploaded and not with the server's own messages
(`session_stream`). With three users, one who resets, one who takes his rights and one
who is promoted; a reset that completes with trusted users among the members, and a
history that a reset has begun and that crosses the threshold again, with space left
(`session_rights`). A user with an account who was operator, or trusted, and returns; a
threshold that is lowered below the present size (`session_moderation`). A threshold
that is raised after the query, one that takes effect at the cap after a reset (the
history must be longer than ten for that), and a number of users that is lowered below
the members are left to the proofs. A remembered ID that belongs to somebody else meanwhile
(`id_queue`); that all IDs are in use is not reached there, and left to the proof. On the
canvas: a conflict with a fork of several messages, a savepoint on either side of it, a
second rollback after the first; and in `canvas_remote` a history that is cut, with and
without a fork, and an undo after the cut. On the disk: a crash inside a reset that
follows a restart, blocks that are closed, empty and partly filled, and readers at every
boundary. At login: two idents whose answers are both late, one of them after the client
has entered a session.

Fairness is weak. In `session_stream`, of three actions. `AllSent`: a
connection that is not lost writes what it is given. `Ping`: clients ping every
15 seconds (`libclient/net/tcpserver.cpp:48`) and the server answers each ping;
without it the property fails: `sendNextHistoryBatch` skips a client until the
session runs ("We'll get another messagesAvailable signal when ready",
`libserver/thinserverclient.cpp:38`), but the end of the initialization emits no
signal, so a client whose queue has drained waits for the next message or for
the answer to its own ping. `ReleaseHeld`: a loop of the code goes on.
In `login`, of `SocketWrites` only: a socket sends what it has or is lost. Nothing
is assumed of what users, the authentication server or the administrator do.

### Findings

Four runs check a statement of the repository that the code does not keep;
PROJECT.json quotes the lines.

| Run | Statement | What happens |
|---|---|---|
| `operator_list_stale` | SessionOwner sets who is operator | demoting the resetter stores a list older than the one his removal stored |
| `canvas_pen` | after a rollback the fork is moved to the end of the history | an undo that arrives while the pen is down replays the fork twice |
| `canvas_undo_depth` | at most so many undo points are undone, and each client stores as many, so that undo works consistently | whether a redo at the undo depth is refused depends on how much history the client has kept |
| `filed_torn` | truncated messages are tolerated | what is left of a cut message is read as a message after the next stop |

The models show other disagreements that have no run of their own. With them, the
change to a run's constants, or the property, that brings them out:

* `addToHistory` asserts that the initializing user is logged in
  (`thinsession.cpp:52`). It is not when the host leaves during the
  initialization, or while held messages are released: `s.noOrigin` becomes TRUE
  in `session_stream`.
* The administrator's deop does not call `ensureOperatorExists`: `OperatorExists`
  fails with `AdminKinds = {"deop"}`.
* A SessionOwner message waits in the reset stream while users whom it lists
  leave; `meta.h:94` says that a distributed list names no non-existing users.
  It takes `"Owner"` in `InKinds` and `StreamKinds`.
* IDs run out when moderators join a session that is full (`session.cpp:165`
  says they do not): `UniqueIds` fails in `id_queue` with `MaxUsers = LastId`.
* An UndoPoint that causes a rollback is only replayed, and does not mark what is
  undone as GONE (`statetracker.cpp:782`), so that a redo acts differently on that
  client: `UndoAgrees` fails with the constants of `canvas_remote`, and an undo depth
  that is not reached, when both users undo, one once and the other among seven messages.
* `handleUndoPoint` counts a GONE undo point that ends its first loop again in the
  second, and so releases savepoints one point too early. It takes more undo points of
  an undoing user than the runs' budgets allow.
* Two idents that the authentication server answers with `auth` fail the assertion
  on the nonce (`loginhandler.cpp:455`); and a late answer, in the moment between
  entering a session and `deleteLater`, disconnects the member.

For this reason the passing runs of `OperatorExists` and `OpsAgree` leave out the
administrator's deop, `StreamKinds` leaves lists out of uploads, `OpsAgree` and
`UsersAgree` speak of a Running session whose history has space, one user
undoes on the canvas, the pen stays up where somebody else undoes, and
`filed_history` cuts no message but in the last crash. With an operator who undoes
for others (`Operators = {a}`) `canvas_local` passes too; it takes three times as
long and is not the default.

## Proofs

TLC checks the instances above; the proofs hold for every set of users, every
limit and every choice of messages that the constants' assumptions allow. All
temporal steps are of the form `Init => I`, `I /\ [Next]_vars => I'`,
`I => Property`.

**Session** (`SessionProofs.tla`). The inductive invariant is `CInv(s)`:

* `SessionType`: every field has its type. This alone is not inductive: the
  action `ReleaseHeld` picks the next client on hold, and there need not be one
  unless the release goes on only while a member is on hold.
* `Control`: what `state` says of `initUser`, `resetstream`, `locked`, `held`
  and `releasing`. Running means no init user and no stream; on hold means
  member, and Initialization; releasing means Initialization, no init user, and
  somebody on hold; held messages remove nobody; Shutdown has no members.
* `Resetting`: in the Reset state the init user is a member and operator.

There is a lemma for each operator of `Session` and each part of the invariant,
in the order of the calls, so that a step of `Next` follows by composing
them. `SameControl` captures the operators that touch nothing `Control` reads
(storing messages, granting rights, direct messages), and those that do,
`removeUser`, `updateOwnership` with its nested disconnect, `switchState`,
`handleClientMessage`, have lemmas of their own. The hard case is losing the
resetter: between `RemoveClient` and `AbortReset`, and between `SetOperators`
and `KickResetter`, `Resetting` does not hold; the lemmas for those operators
say what holds instead.

From `SessionInOrder` (`Spec => []CInv(s)`) follow `TypeCorrect`,
`ResetterIsPresent` and `NobodyLeftOnHold`: the properties `TypeOK`,
`ResetterPresent` and `HeldOnlyInInit` of the runs.

**The history of a session** (`SessionHistoryProofs.tla`). The inductive invariant
is `HInv(s)`; to types and `Control` it adds

* `Sent`: a reader has been sent the history up to its position, no position is
  beyond the end, and who is no member is at the start. `StreamIsPrefix` alone is
  not inductive: the next batch continues the stream only if its length and the
  position say the same.
* `HostCurrent` and `HostAlone`: while a session is initialized its host has
  everything, and everyone else is on hold. The host is not sent what it uploads;
  its position is moved along instead, which is right only if nothing lies between.
* `Unique`: nobody is a member twice; otherwise one leave would not be enough.
* `Asked`: `AutoResetQueried`, and an empty history is unasked. The operators that a
  handler is made of do not all keep it: between the change of a setting and the message
  that tells of it the threshold may lie below the size, and a reset with its
  `onSessionReset` leaves a history that may be too long and is unasked. There the rest
  of the invariant (`LInv`) and `MayAsk` hold, and they are enough for the next message
  to establish `Asked`.

Each operator has a lemma that says it keeps `HInv` and is an extension (`Ext`: the
history grows at its end, nobody's position goes back) or a replacement by higher
indices (`Rep`); both compose. From `SessionHistoryInOrder` follow
`StreamsArePrefixes`, `AutoResetIsQueried` and `IndicesOnlyGrow`, and, since each
`Ext` maps to an append with deliveries and each `Rep` to a reset of the abstract
log, `SessionImplementsLog`: `Session` refines `HistoryLog`. An extension is also
`Quiet`: it leaves threshold and query alone, or asks because the history is too long.
With what the commands and settings do on their own (`Turn`), every step of `Next` is a
`LogStep`, and `OperatorsAskedOnce` (`AskedOnce`) follows.

**The rights in a session** (`SessionRightsProofs.tla`). The invariant is `RInv(s)`:
what a reader of the history concludes about operators (`AgreeOps`), and about
trusted users, members and settings (`AgreeUsers`), is what the server has, in every
state in which messages are still stored and not only in a running session; only
members have rights, uploads are made of `StreamKinds` and hold queues of their own
client's messages (`Clean`); and an operator exists. Removing a user is where these
depend on each other: between the removal of the flags and the Leave message the
lists are wrong by exactly that user, and the lemmas say so (`OpsTold` and `UsersTold`
with the list as a parameter). Lemmas about `ReadAppend` say what one more message
changes for a reader, so that none needs induction over the history.

The theorems name what the findings show to be necessary, as conditions on the
constants: `OperatorsAreKnown` that the administrator does not demote and uploads
contain no SessionOwner; `UsersAreKnown` that uploads contain no TrustedUsers;
`AlwaysAnOperator` that the administrator neither demotes nor changes settings
(removing the operator password from a session without operator leaves none). With
the values of the runs the conditions hold. `NobodyEscalates` has none. Proving it
showed that `NoEscalation` as first stated was false beyond the bounds of its run: when
the administrator has left a session without operator, a deputy's kick makes
`removeUser` call `ensureOperatorExists`, which promotes the oldest member, perhaps the
deputy. The property now says so. It speaks of messages as they are received; one that
was held back and is handled by `ReleaseHeld` is outside it.

**IdQueue** (`IdQueueProofs.tla`). `IdsAreUnique`: the queue stays a permutation
of the IDs and members have different IDs, on the assumption `FewMods`, that
there are IDs for `MaxUsers` users and all moderators. The assumption is needed
(see the findings: `MaxUsers = LastId`). The invariant adds `Room`, a bound on the members who are not
moderators, so that a free ID exists when somebody joins, and the types of the
maps; that `assignId`'s draws meet a free ID follows from the permutation.
Without `FewMods`, `QueueInv` is inductive: types, permutation, and `Aged` (all IDs
behind the one freed last are in use). It gives `IdTypeCorrect`,
`QueueStaysPermutation` and `FreedIdIsDrawnLast` (`NoHastyReuse`).

**FiledHistory** (`FiledHistoryProofs.tla`), for any block size and any number of
users, messages, resets, restarts and cut messages. The invariant `IInv` relates the
places where the same history is kept:

* `FilesOK`, `StageOK`, `DownOK`: at every stage of `create` and `historyReset` the
  journal names a recording that exists and has its header, the new recording is
  empty until it is named, and nothing but the disk is left when the server is down.
* `BlocksOK`: the blocks tile the recording, only the last may be empty, and a cache
  holds its block or nothing.
* `Delivered`: what a client was sent is the recording up to its position.
* `UsersOK`: the users that the recording, with what a reset has still to add, tells
  of are those who are there. After a crash this is `load`'s doing.

From it follow `FiledTypeCorrect`, `CachesComplete`, `NobodyLeftBehind`,
`LostWhenEmpty`, `BatchesMakeProgress` and, step by step, the refinement
`FiledHistoryImplementsLog`.

**LoginHandler** (`LoginHandlerProofs.tla`), for any names, accounts, settings and
bounds. `Step(y, w, n)` says what a handler may do to a connection: it keeps the
types, adds at most `n` nonces and queries, and satisfies `Admits`, which is what
the two action properties say of a step. There is a lemma for each handler, steps
compose (two commands read together are one step of the model), and sending
anything changes nothing that `Admits` reads (`Same`). The invariant `Inv` adds to
the types what they do not give alone: every open query is about a name without an
account, without which a late answer could admit a guest under the name of an
account; and there are no more nonces and open queries than commands received, so
that the nonces stay bounded though answers arrive after the commands. That
`writeData` always finds a number of messages to write (`WritableExists`) takes
the well-foundedness of the naturals.

`Inv` also says that an open connection `Carries` what it was given: until it is
closed, all that was asked for is in `received`, `wire` or `outbox`, in order, and no
Disconnect has been written (`Waiting`); afterwards exactly what precedes the first
Disconnect, and it, has been (`Ended`). `WriteFifo` is the step from one to the other.
Messages carry their number in `asked`, so that order and completeness are statements
about positions and need no induction. From `Inv` follow `ConnectionIsFifo` (the
property `QueueIsFifo`), `LoginTypeCorrect`,
`IdentityDecidedOnce` and `OnlyGuestsAdmitted`: the properties `TypeOK`,
`IdentityIsFinal` and `GuestsAreAdmitted` of the run `login`.

**StateTracker** (`StateTrackerProofs.tla`, `CanvasProofs.tla`). `Replay` and `PaintAll`
are recursive functions, so every statement about them takes an induction, and the
induction theorems of the library are out of these provers' reach. The lemma `Induction`
takes its place: a *set* of numbers with 0 and all successors of its members is `Nat`
(from the well-foundedness of the naturals). `ReplayIs` and `PaintAllSteps` use it to
show that the recursive functions exist and satisfy their equations; later lemmas, to
carry a statement along a replay.

*Positions.* `PositionInv` says of each client that its tracker is `Good`:

* `Ordered`: there is a savepoint, their positions increase and lie before the end;
* `Window`: the history begins exactly where the first savepoint is. Between
  `ReleaseSavepoints` and `Cleanup` it may begin earlier (`Unclean`);
* `BeforeFork`: with a fork, every savepoint is at or before it. It is not inductive
  alone: `replayFork` moves the fork to the end of the history, which is behind all
  savepoints only by `Ordered`; and savepoints that a replay makes are behind the fork
  unless there is none (`MakeSavepoint`'s guard).

There is a lemma for each method, in the order of the calls, up to `ReceiveCommand` and
`LocalCommand`. It gives `TrackerTypeCorrect` (`TypeOK`) and `RollbackFindsSavepoint`
(`SavepointsBeforeFork`): the "should never happen" of `receiveCommand` does not.
`ForkBounded` counts, for `ForkDrains` (`ForkInFlight`), only what enters a fork: the
drawing messages on the way, and those in the log that are unread or filtered. The
property itself, which counts SoftResets too, is not inductive.

*Canvas.* `Upon(t, v, i, j)` is the canvas `v` painted with the commands in `(i, j]` that
are not undone. The invariant `Restored` says of each client:

* `Chain`: from each savepoint, `Upon` leads to the canvas of each later one;
* `Shows(t, b)`: from each savepoint, `Upon` to the end leads to `b`, and the client
  shows `b` with the local fork painted on it.

`SavepointsRestore` is the second half; without `Chain` it is not inductive, since
going back to a savepoint keeps the older ones. The steps: a concurrent command
commutes with all of the fork (`PaintForkCommutes`, the reason for
`AffectedArea::isConcurrentWith`); a command that was painted ahead is the head of the
fork (`PaintHead`); undo states change only from the undo point on, and it paints
nothing itself, so savepoints up to it still lead to each other (`RevertMarkedChain`);
releasing savepoints, cutting the history and marking UNDONE as GONE change nothing
that is painted (`TrimmedLeads`); a replay paints what `Upon` does (`ReplayLeads`); and
a rollback leads to the same `b` whatever was shown before (`RollbackShows`).

`SavepointsLeadBack` assumes `NoUndoUnderPen`: nobody but the client itself undoes while
its pen may be down. Where it does not hold the property is false (`canvas_pen`): the
undo nested in the rollback replays the fork, and then the rollback does. All other
cases are covered, with any number of users who undo and redo, for themselves or others.

`CanvasConverges` proves `Converged` when nobody undoes, with pens and everything else:
`LogInv` says that `b` is the canvas `LogCanvas` that the part of the log painted which
the client has read, and that does not depend on the client. With undo the statement
would need that all clients undo and redo the same (`UndoAgrees`), which is false in
general (`canvas_undo_depth`, and the findings on `statetracker.cpp:782`); so `Converged`
with undo remains with TLC.

Writing these proofs changed the model in two places. `Replay` was a fold and
is now a recursive function over the same indices. And the arms of the CASE in
`HandleReceivedMessage` overlapped when the fork is empty, where TLC takes the first and
the semantics leaves the choice open: the early return is now an IF around it.

Some leaves name a longer time limit (`ZenonT(60)`, `SMTT(40)`): records with twenty
fields are slow to rewrite. Nothing else is assumed than the constants' assumptions and
the conditions that the theorems state.

Only model-checked: `Converged` where somebody undoes, for the reason above; the liveness properties `CaughtUp` and `DisconnectCloses`, which like `ENABLED`
are out of the prover's reach; and the four findings, which are counterexamples.

## Not modelled

* `AclFilter`'s locks, layers and tiers: a sequential function of the history. That
  all clients filter alike follows from reading the same log; that is the
  assumption `StateTracker` makes of it.
* The client's side of the login, the thick server, announcements: thin state
  around network calls to others.
* Formats and pixels: messages, recordings, tiles, brushes. Sequential, and tested.
* `killSession` and held kicks inside loops over the list they change: undefined
  behaviour of the container, whose outcome no model can tell.
* Applications, settings, databases, web administration: interface and I/O. The
  translations under `libclient/i18n` are data.

## Plan

Done: `Session` with `SessionLog` and `HistoryLog`, `IdQueue`, `FiledHistory`,
`StateTracker`, `LoginHandler` with `MessageQueue`; proofs of every safety property
that the passing runs check, and of both refinements of `HistoryLog`. Next:

1. The conditions under which clients agree on what is undone: `UndoAgrees` for one
   undoing user whose undo points stay below the depth limit, and from it `Converged`
   with undo, by relating each client's undo states to those that the log determines.
2. `AclFilter`: locks and tiers as a function of the log, to discharge the assumption
   that all clients filter alike.
