---------------------------- MODULE FiledHistory ----------------------------
(***************************************************************************)
(* server::FiledHistory: a session history kept in a recording file, with a *)
(* journal that names the recording, an index of blocks with a cache of     *)
(* their messages, and what is left of it all when the server crashes or is *)
(* restarted.                                                               *)
(*                                                                         *)
(* Every journal entry is flushed when it is written; of the journal only   *)
(* the FILE lines are modelled.  A recording is written through a buffer,   *)
(* which QFile flushes when it is full, when the file is closed or a        *)
(* position is sought in it, and when the code asks it to.  Every message   *)
(* has length 1.                                                            *)
(***************************************************************************)
EXTENDS Integers, Sequences, FiniteSets

CONSTANTS
  User,        \* the people who join
  BlockSize,   \* MAX_BLOCK_SIZE
  MaxMessages, \* bound: messages added, of all kinds
  MaxResets,   \* bound: resets of the session
  MaxRestarts, \* bound: crashes and clean stops of the server
  Torn         \* the restarts, by number, that may cut a message in half

ASSUME BoundAssumption ==
  /\ BlockSize \in Nat \ {0} /\ MaxMessages \in Nat
  /\ MaxResets \in Nat /\ MaxRestarts \in Nat /\ Torn \subseteq 1..MaxRestarts

\* The names uniqueRecordingFilename gives out; 0 is no recording
File == 1..(MaxResets + MaxRestarts + 1)

\* n tells the messages of a kind apart
Message == [t : {"Join", "Leave", "Draw", "Image", "Bogus"},
            by : User \cup {0}, n : 0..MaxMessages]

(***************************************************************************)
(* A recording: whether it exists and has its header; its messages, the     *)
(* first `safe' of which are on the disk and the others in the buffer; and   *)
(* the bytes on the disk after the last message, left by a write that was   *)
(* cut: a message from its "head" on, or from "inside" of it.               *)
(***************************************************************************)
Recording == [there : BOOLEAN, head : BOOLEAN, msgs : Seq(Message),
              safe : Nat, first : Nat, tail : {"none", "head", "inside"}]

NoRecording == [there |-> FALSE, head |-> FALSE, msgs |-> <<>>, safe |-> 0,
                first |-> 0, tail |-> "none"]

VARIABLES
  server,   \* "up", "down", or "lost" when load() has failed
  journal,  \* the recording the last FILE line of the journal names
  disk,     \* the recordings
  cur,      \* m_recording
  old,      \* historyReset's oldRecording
  blocks,   \* m_blocks
  stage,    \* how far initRecording and historyReset have come
  image,    \* what is left of historyReset's newHistory
  clients,  \* the users logged in, in the order of joining
  pos,      \* ThinServerClient::m_historyPosition
  got,      \* what each of them has been sent since it joined or was reset
  count     \* messages, resets and restarts so far

vars == <<server, journal, disk, cur, old, blocks, stage, image, clients, pos,
          got, count>>
memory == <<cur, old, blocks, clients, pos, got>>

Stages == {"create", "headless", "unnamed", "named", "filling", "idle"}

TypeOK ==
  /\ server \in {"up", "down", "lost"}
  /\ {journal, cur, old} \subseteq File \cup {0}
  /\ disk \in [File -> Recording]
  /\ blocks \in Seq([start : Nat, count : Nat, cache : Seq(Message)])
  /\ stage \in Stages
  /\ image \in Seq(Message)
  /\ clients \in Seq(User)
  /\ pos \in [User -> Int]
  /\ got \in [User -> Seq(Message)]
  /\ count \in [msgs : 0..MaxMessages, resets : 0..MaxResets,
                restarts : 0..MaxRestarts]

Online == {clients[i] : i \in 1..Len(clients)}
LastIndex == disk[cur].first + Len(disk[cur].msgs) - 1
Reading == server = "up" /\ stage = "idle"

\* Who is in the session, to one who reads the messages: joined and not left
Present(msgs) ==
  {u \in User :
     \E i \in 1..Len(msgs) :
       /\ msgs[i].t = "Join" /\ msgs[i].by = u
       /\ \A j \in i..Len(msgs) : ~(msgs[j].t = "Leave" /\ msgs[j].by = u)}

-----------------------------------------------------------------------------
(* The recording and its blocks.                                           *)

\* What is buffered goes to the disk, over what was left there by a cut write.
\* Whether it covers all of that depends on the lengths.
Flushed(r) ==
  IF r.safe = Len(r.msgs) THEN {r}
  ELSE {[r EXCEPT !.safe = Len(r.msgs), !.tail = t] :
          t \in IF r.tail = "none" THEN {"none"} ELSE {"none", "inside"}}

NewBlock(start) == [start |-> start, count |-> 0, cache |-> <<>>]

\* FiledHistory::closeBlock
CloseBlock(bs) ==
  LET b == bs[Len(bs)]
  IN  IF b.count = 0 THEN bs ELSE Append(bs, NewBlock(b.start + b.count))

\* Mutant: the cache is begun in the middle of a block
AddToBlockAndCache(bs, m) ==
  LET b == bs[Len(bs)]
  IN  [bs EXCEPT ![Len(bs)] = [b EXCEPT !.count = b.count + 1,
                                        !.cache = Append(b.cache, m)]]

\* The message joins the last block, and its cache if that is in use.
AddToBlock(bs, m) ==
  LET b == bs[Len(bs)]
      cache == IF b.cache = <<>> THEN <<>> ELSE Append(b.cache, m)
  IN  [bs EXCEPT ![Len(bs)] = [b EXCEPT !.count = b.count + 1,
                                        !.cache = cache]]

\* FiledHistory::historyAdd
HistoryAdd(m) ==
  LET bs == AddToBlock(blocks, m)
      r == [disk[cur] EXCEPT !.msgs = Append(@, m)]
      full == bs[Len(bs)].count > BlockSize
  IN  /\ blocks' = IF full THEN CloseBlock(bs) ELSE bs
      /\ \E f \in IF full THEN Flushed(r) ELSE {r} :
           disk' = [disk EXCEPT ![cur] = f]

\* The index of the last message of a block
EndOf(i) == blocks[i].start + blocks[i].count - 1

\* Mutant: the block that ends with the message
BlockAtBoundary(after) ==
  CHOOSE i \in 1..Len(blocks) :
    /\ i = 1 \/ EndOf(i - 1) < after
    /\ \A j \in (i + 1)..Len(blocks) : EndOf(j - 1) >= after

\* The block that getBatch reads: the last one whose predecessor ends at or
\* before the message
BlockAfter(after) ==
  CHOOSE i \in 1..Len(blocks) :
    /\ i = 1 \/ EndOf(i - 1) <= after
    /\ \A j \in (i + 1)..Len(blocks) : EndOf(j - 1) > after

\* The messages of a block, as they are read from the recording
Load(b) ==
  LET from == b.start - disk[cur].first
  IN  SubSeq(disk[cur].msgs, from + 1, from + b.count)

\* FiledHistory::cleanupBatches
CleanupBatches(bs, before) ==
  [i \in 1..Len(bs) |->
     IF \A j \in 1..i : bs[j].start + bs[j].count < before
     THEN [bs[i] EXCEPT !.cache = <<>>] ELSE bs[i]]

\* ThinSession::cleanupHistoryCache: no client is behind this index
MinPosition(p) ==
  CHOOSE n \in {p[u] : u \in Online} \cup {LastIndex} :
    \A u \in Online : n <= p[u] /\ n <= LastIndex

\* ThinServerClient::sendNextHistoryBatch with FiledHistory::getBatch: reading
\* a block from the file seeks, which flushes.
SendNextHistoryBatch(u) ==
  LET i == BlockAfter(pos[u])
      b == blocks[i]
      offset == IF pos[u] - b.start + 1 > 0 THEN pos[u] - b.start + 1 ELSE 0
      fresh == offset < b.count /\ b.cache = <<>>
      cache == IF fresh THEN Load(b) ELSE b.cache
      p == [pos EXCEPT ![u] = EndOf(i)]
  IN  /\ Reading /\ u \in Online
      /\ got' = [got EXCEPT ![u] =
                   IF offset < b.count
                   THEN @ \o SubSeq(cache, offset + 1, Len(cache)) ELSE @]
      /\ pos' = p
      /\ blocks' = CleanupBatches([blocks EXCEPT ![i].cache = cache],
                                  MinPosition(p))
      /\ \E f \in IF fresh THEN Flushed(disk[cur]) ELSE {disk[cur]} :
           disk' = [disk EXCEPT ![cur] = f]
      /\ UNCHANGED <<server, journal, cur, old, stage, image, clients, count>>

-----------------------------------------------------------------------------
(* The session adds messages.                                              *)

Add(m) ==
  /\ count.msgs < MaxMessages
  /\ count' = [count EXCEPT !.msgs = @ + 1]
  /\ HistoryAdd(m)
  /\ UNCHANGED <<server, journal, cur, old, stage, image>>

Msg(t, u) == [t |-> t, by |-> u, n |-> count.msgs]

Join(u) ==
  /\ Reading /\ u \notin Online
  /\ Add(Msg("Join", u))
  /\ clients' = Append(clients, u)
  /\ UNCHANGED <<pos, got>>

\* m_clients.removeOne
Without(users, u) ==
  LET i == CHOOSE k \in 1..Len(users) : users[k] = u
  IN  [j \in 1..(Len(users) - 1) |->
         IF j < i THEN users[j] ELSE users[j + 1]]

Leave(u) ==
  /\ Reading /\ u \in Online
  /\ Add(Msg("Leave", u))
  /\ clients' = Without(clients, u)
  /\ pos' = [pos EXCEPT ![u] = -1]
  /\ got' = [got EXCEPT ![u] = <<>>]

Draw(u) ==
  /\ Reading /\ u \in Online
  /\ Add(Msg("Draw", u))
  /\ UNCHANGED <<clients, pos, got>>

\* timerEvent, or the buffer is full
Flush ==
  /\ Reading /\ disk[cur].safe < Len(disk[cur].msgs)
  /\ \E f \in Flushed(disk[cur]) : disk' = [disk EXCEPT ![cur] = f]
  /\ UNCHANGED <<server, journal, stage, image, count, memory>>

-----------------------------------------------------------------------------
(* FiledHistory::create and FiledHistory::historyReset, step by step: the   *)
(* server can stop between any two.                                        *)

\* The session's reset: who is there (Session::serverSideStateMessages), and
\* the uploaded canvas.  The old recording is closed.
Reset ==
  /\ Reading /\ clients # <<>> /\ count.resets < MaxResets
  /\ count' = [count EXCEPT !.resets = @ + 1]
  /\ image' = [i \in 1..Len(clients) |-> Msg("Join", clients[i])]
                 \o <<Msg("Image", 0)>>
  /\ \E f \in Flushed(disk[cur]) : disk' = [disk EXCEPT ![cur] = f]
  /\ stage' = "create"
  /\ UNCHANGED <<server, journal, memory>>

\* The name and the first index of a recording that initRecording creates
NewName == CHOOSE f \in File : /\ f > cur /\ ~disk[f].there
                               /\ \A g \in (cur + 1)..(f - 1) : disk[g].there
\* Mutant: the last index of the old history is used again
SameLastIndex == IF cur = 0 THEN 0 ELSE LastIndex
NewFirstIndex == IF cur = 0 THEN 0 ELSE LastIndex + 1
NewRecording == [NoRecording EXCEPT !.there = TRUE, !.first = NewFirstIndex]

\* Mutant: the old recording is removed first
CreateFileOverOld ==
  /\ server = "up" /\ stage = "create"
  /\ old' = cur /\ cur' = NewName
  /\ disk' = [f \in File |-> IF f = NewName THEN NewRecording
                            ELSE IF f = cur THEN NoRecording ELSE disk[f]]
  /\ stage' = "headless"
  /\ UNCHANGED <<server, journal, blocks, image, clients, pos, got, count>>

\* initRecording: a file of a new name ...
CreateFile ==
  /\ server = "up" /\ stage = "create"
  /\ old' = cur /\ cur' = NewName
  /\ disk' = [disk EXCEPT ![NewName] = NewRecording]
  /\ stage' = "headless"
  /\ UNCHANGED <<server, journal, blocks, image, clients, pos, got, count>>

\* ... its header ...
WriteHeader ==
  /\ server = "up" /\ stage = "headless"
  /\ disk' = [disk EXCEPT ![cur].head = TRUE]
  /\ stage' = "unnamed"
  /\ UNCHANGED <<server, journal, image, count, memory>>

\* ... and the line in the journal.  From here the session is the new one.
NameFile ==
  /\ server = "up" /\ stage = "unnamed"
  /\ journal' = cur
  /\ blocks' = <<NewBlock(disk[cur].first)>>
  /\ got' = [u \in User |-> <<>>]
  /\ stage' = "named"
  /\ UNCHANGED <<server, disk, cur, old, image, clients, pos, count>>

\* The old recording is removed (or renamed, to archive it) ...
RemoveOld ==
  /\ server = "up" /\ stage = "named"
  /\ disk' = IF old = 0 THEN disk ELSE [disk EXCEPT ![old] = NoRecording]
  /\ stage' = IF image = <<>> THEN "idle" ELSE "filling"
  /\ UNCHANGED <<server, journal, image, count, memory>>

\* ... and the new one gets its messages.
AddImage ==
  /\ server = "up" /\ stage = "filling"
  /\ HistoryAdd(Head(image))
  /\ image' = Tail(image)
  /\ stage' = IF Tail(image) = <<>> THEN "idle" ELSE "filling"
  /\ UNCHANGED <<server, journal, cur, old, clients, pos, got, count>>

-----------------------------------------------------------------------------
(* The server stops and starts again.                                      *)

\* What the disk holds when the process is gone: not the buffer, and perhaps
\* the first bytes of a message
Remains(r, tear) ==
  [r EXCEPT !.msgs = SubSeq(@, 1, r.safe), !.first = 0,
            !.tail = IF tear THEN "head" ELSE @]

\* What is left of a UserLeave, the shortest message, is covered by any other.
CanBeCut(r) == r.safe < Len(r.msgs) /\ r.msgs[r.safe + 1].t # "Leave"

Down ==
  /\ server' = "down"
  /\ count' = [count EXCEPT !.restarts = @ + 1]
  /\ cur' = 0 /\ old' = 0 /\ blocks' = <<>> /\ stage' = "idle"
  /\ image' = <<>> /\ clients' = <<>>
  /\ pos' = [u \in User |-> -1] /\ got' = [u \in User |-> <<>>]
  /\ UNCHANGED journal

Crash ==
  /\ server = "up" /\ count.restarts < MaxRestarts
  /\ \E tear \in BOOLEAN :
       /\ tear => /\ count.restarts + 1 \in Torn
                  /\ cur # 0 /\ CanBeCut(disk[cur])
       /\ disk' = [f \in File |-> Remains(disk[f], tear /\ f = cur)]
  /\ Down

\* A clean exit: the clients are gone without a word in the history (the
\* session is not running any more), and the files are closed.
Stop ==
  /\ Reading /\ count.restarts < MaxRestarts
  /\ \E r \in Flushed(disk[cur]) :
       disk' = [f \in File |->
                  Remains(IF f = cur THEN r ELSE disk[f], FALSE)]
  /\ Down

\* Mutant: the users who were there stay in the history
NobodyLeaves(msgs) == {<<>>}

\* The UserLeave messages scanBlocks adds, in the order of a QSet
Leaves(msgs) ==
  {[i \in DOMAIN order |-> [t |-> "Leave", by |-> order[i], n |-> 0]] :
     order \in {o \in [1..Cardinality(Present(msgs)) -> Present(msgs)] :
                  \A i, j \in DOMAIN o : o[i] = o[j] => i = j}}

\* What scanBlocks finds.  A cut message is recognised by its header; bytes
\* from inside a message may look like anything.
Scanned(r) ==
  {r} \cup
  IF r.tail # "inside" THEN {}
  ELSE {[r EXCEPT !.msgs = Append(@, [t |-> "Bogus", by |-> 0, n |-> 0]),
                  !.safe = @ + 1, !.tail = t] : t \in {"none", "inside"}}

\* Mutant: the indices are counted from the block before
ScanBlocksFromBefore(n, leaves) ==
  LET last == n \div BlockSize + 1
  IN  [i \in 1..last |->
         [start |-> (i - 2) * BlockSize,
          count |-> IF i < last THEN BlockSize ELSE (n % BlockSize) + leaves,
          cache |-> <<>>]]

\* The blocks of a recording of n messages, the last one with the leaves
ScanBlocks(n, leaves) ==
  LET last == n \div BlockSize + 1
  IN  [i \in 1..last |->
         [start |-> (i - 1) * BlockSize,
          count |-> IF i < last THEN BlockSize ELSE (n % BlockSize) + leaves,
          cache |-> <<>>]]

\* FiledHistory::load finds the recording named last, its header and at least
\* one message; scanBlocks puts the end of the file after the last message.
Loadable(r) == r.there /\ r.head /\ r.msgs # <<>>

Start ==
  /\ server = "down" /\ journal # 0
  /\ \E r \in Scanned(disk[journal]) :
       /\ Loadable(r)
       /\ \E leaves \in Leaves(r.msgs) :
            /\ disk' = [disk EXCEPT ![journal] =
                          [r EXCEPT !.msgs = r.msgs \o leaves]]
            /\ blocks' = ScanBlocks(Len(r.msgs), Len(leaves))
  /\ server' = "up" /\ cur' = journal
  /\ UNCHANGED <<journal, old, stage, image, clients, pos, got, count>>

StartFails ==
  /\ server = "down"
  /\ journal # 0 =>
       \E r \in Scanned(disk[journal]) : ~Loadable(r)
  /\ server' = "lost"
  /\ UNCHANGED <<journal, disk, old, stage, image, count, memory>>

-----------------------------------------------------------------------------
Init ==
  /\ server = "up" /\ journal = 0 /\ cur = 0 /\ old = 0
  /\ disk = [f \in File |-> NoRecording]
  /\ blocks = <<>> /\ stage = "create" /\ image = <<>> /\ clients = <<>>
  /\ pos = [u \in User |-> -1] /\ got = [u \in User |-> <<>>]
  /\ count = [msgs |-> 0, resets |-> 0, restarts |-> 0]

Next ==
  \/ \E u \in User : Join(u) \/ Leave(u) \/ Draw(u)
  \/ \E u \in User : SendNextHistoryBatch(u)
  \/ Flush
  \/ Reset \/ CreateFile \/ WriteHeader \/ NameFile \/ RemoveOld \/ AddImage
  \/ Crash \/ Stop \/ Start \/ StartFails

Spec == Init /\ [][Next]_vars

-----------------------------------------------------------------------------
(* Properties.                                                             *)

\* FiledHistory is a session history: what it has stored, indexed, cached and
\* sent is an ordered log, across resets and restarts.  The FILE line is what
\* replaces the log by the new one: until then a crash leaves the old session,
\* and afterwards the new one, of which nothing need be on the disk yet.
Named == IF journal = 0 THEN NoRecording ELSE disk[journal]

Log == INSTANCE HistoryLog WITH
         Reader <- User, log <- Named.msgs, first <- Named.first,
         safe <- Named.safe, got <- got

IsHistoryLog == Log!Spec

\* getBatch: "Q_ASSERT(b.messages.size() == b.count)".  A cache holds all of
\* the messages of its block or none, though messages are added to the open
\* block and caches are loaded and released in any order.
CacheComplete ==
  Reading => \A i \in 1..Len(blocks) :
               blocks[i].cache # <<>> => blocks[i].cache = Load(blocks[i])

\* scanBlocks: "There should be no users at the end of the recording."  Who
\* reads the history sees the users that are there and no others, whatever the
\* crash that took the others away left of what they said.
NobodyIsLeftBehind == Reading => Present(disk[cur].msgs) = Online

\* A session is given up only when the recording that the journal names has
\* never had a message on the disk (load, initRecording, historyReset): no
\* crash during a reset makes the journal name a recording that is removed,
\* not yet created, or without a header.
LostOnlyWhenEmpty ==
  server = "lost" => \/ journal = 0
                     \/ /\ disk[journal].there /\ disk[journal].head
                        /\ disk[journal].safe = 0

\* A client that is behind is sent something whenever it asks, so that it gets
\* all of the history, block after block: getBatch never stays at the end of a
\* block, a closed block or a reset (sendNextHistoryBatch, getBatch).
BatchesAdvance ==
  Reading => \A u \in Online :
               pos[u] < LastIndex => EndOf(BlockAfter(pos[u])) > pos[u]

\* tests/filedhistory.cpp, "Tolerate truncated messages": after a recording
\* with a cut message is loaded, the history is made of messages that were
\* added to it.
OnlyWhatWasAdded ==
  server = "up" /\ cur # 0 =>
    \A i \in 1..Len(disk[cur].msgs) : disk[cur].msgs[i].t # "Bogus"

=============================================================================
