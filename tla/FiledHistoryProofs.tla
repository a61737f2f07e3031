------------------------- MODULE FiledHistoryProofs -------------------------
(* For any number of users, messages, resets, crashes and restarts, and any *)
(* size of blocks: what FiledHistory keeps in its files, its index of       *)
(* blocks and its caches is one ordered log.                                *)
EXTENDS FiledHistory, SequenceTheorems, FiniteSetTheorems,
        WellFoundedInduction, TLAPS

Block == [start : Nat, count : Nat, cache : Seq(Message)]

-----------------------------------------------------------------------------
(* The invariant.                                                          *)

\* The recordings that have been created, by number, at most
Created == IF stage = "create" THEN count.resets ELSE count.resets + 1

\* The stages in which the journal names the recording that is written
Current == {"named", "filling", "idle"}

\* The index after the last message of a recording
EndIndex(r) == r.first + Len(r.msgs)

\* The files.  The journal names a recording that exists and has its header;
\* the names that are given out next are free.
FilesOK ==
  /\ cur <= Created
  /\ \A f \in File : disk[f].there => f <= Created
  /\ \A f \in File : disk[f].safe <= Len(disk[f].msgs)
  /\ journal # 0 => disk[journal].there /\ disk[journal].head

\* Nothing is kept in memory while the server is down, and what is in the
\* files is on the disk.
DownOK ==
  server # "up" =>
    /\ cur = 0 /\ old = 0 /\ stage = "idle" /\ image = <<>> /\ clients = <<>>
    /\ \A u \in User : pos[u] = -1 /\ got[u] = <<>>
    /\ \A f \in File :
         disk[f].safe = Len(disk[f].msgs) /\ disk[f].first = 0

\* A new recording, until the journal names it and the old one is removed
StageOK ==
  server = "up" =>
    /\ stage \in Current => cur = journal /\ cur # 0
    /\ stage = "create" => cur = journal
    /\ stage \in {"headless", "unnamed"} =>
         /\ cur # 0 /\ old = journal /\ cur # old
         /\ disk[cur].there /\ disk[cur].msgs = <<>> /\ disk[cur].safe = 0
         /\ disk[cur].first >= EndIndex(Named)
    /\ stage = "unnamed" => disk[cur].head
    /\ stage = "named" => old # cur /\ disk[cur].msgs = <<>>
    /\ stage = "filling" => image # <<>>
    /\ stage = "idle" => image = <<>>

\* The blocks: one after the other, from the first message to the last, and
\* none but the last is empty.  A cache holds its block or nothing.
Tiles(bs, r) ==
  /\ bs # <<>>
  /\ bs[1].start = r.first
  /\ \A i \in 1..(Len(bs) - 1) :
       bs[i].count > 0 /\ bs[i + 1].start = bs[i].start + bs[i].count
  /\ \A i, j \in 1..Len(bs) : i < j => bs[i].start + bs[i].count <= bs[j].start
  /\ bs[Len(bs)].start + bs[Len(bs)].count = EndIndex(r)

\* The messages of a block in a recording
Stretch(r, b) == SubSeq(r.msgs, b.start - r.first + 1,
                        b.start - r.first + b.count)

Cached(bs, r) ==
  \A i \in 1..Len(bs) : bs[i].cache # <<>> => bs[i].cache = Stretch(r, bs[i])

BlocksOK ==
  server = "up" /\ stage \in Current =>
    Tiles(blocks, disk[cur]) /\ Cached(blocks, disk[cur])

\* What a client has been sent is the log up to its position.
Taken(u, r) == IF pos[u] < r.first THEN 0 ELSE pos[u] - r.first + 1

Delivered ==
  \A u \in User : /\ pos[u] < EndIndex(Named)
                  /\ got[u] = SubSeq(Named.msgs, 1, Taken(u, Named))

\* Who is there, to a reader of the recording once it has its messages
Coming == IF stage \in Current THEN disk[cur].msgs \o image ELSE image

UsersOK ==
  /\ \A i, j \in 1..Len(clients) : clients[i] = clients[j] => i = j
  /\ server = "up" => Present(Coming) = Online

IInv ==
  /\ TypeOK /\ FilesOK /\ DownOK /\ StageOK /\ BlocksOK /\ Delivered
  /\ UsersOK /\ LostOnlyWhenEmpty

-----------------------------------------------------------------------------
(* Messages and recordings.                                                *)

LEMMA Within ==
  ASSUME NEW a \in Nat, NEW c \in Nat, NEW f \in Nat, NEW l \in Nat,
         f <= a, a + c <= f + l
  PROVE  \A k \in 1..c : a - f + k \in 1..l
OBVIOUS

LEMMA LenAppend ==
  ASSUME NEW S, NEW s \in Seq(S), NEW e \in S
  PROVE  /\ Append(s, e) \in Seq(S) /\ Len(s) \in Nat
         /\ Len(Append(s, e)) = Len(s) + 1
         /\ \A i \in 1..Len(s) : Append(s, e)[i] = s[i]
         /\ Append(s, e)[Len(s) + 1] = e
BY AppendProperties, LenProperties

\* Whoever joins is there, whoever leaves is not, and nothing else matters.
LEMMA PresentAppend ==
  ASSUME NEW msgs \in Seq(Message), NEW m \in Message
  PROVE  /\ m.t = "Join" /\ m.by \in User =>
              Present(Append(msgs, m)) = Present(msgs) \cup {m.by}
         /\ m.t = "Leave" =>
              Present(Append(msgs, m)) = Present(msgs) \ {m.by}
         /\ m.t \notin {"Join", "Leave"} =>
              Present(Append(msgs, m)) = Present(msgs)
<1> DEFINE all == Append(msgs, m)
           n == Len(msgs)
<1>1. /\ n \in Nat /\ Len(all) = n + 1 /\ all[n + 1] = m
      /\ \A i \in 1..n : all[i] = msgs[i]
  BY LenAppend
<1> HIDE DEF all, n
<1>2. ASSUME NEW u \in User
      PROVE  u \in Present(all) <=>
               \/ m.t = "Join" /\ m.by = u
               \/ u \in Present(msgs) /\ ~(m.t = "Leave" /\ m.by = u)
  <2>1. ASSUME u \in Present(all)
        PROVE  \/ m.t = "Join" /\ m.by = u
               \/ u \in Present(msgs) /\ ~(m.t = "Leave" /\ m.by = u)
    <3>1. PICK i \in 1..(n + 1) :
            /\ all[i].t = "Join" /\ all[i].by = u
            /\ \A j \in i..(n + 1) : ~(all[j].t = "Leave" /\ all[j].by = u)
      BY <1>1, <2>1 DEF Present
    <3>2. ~(m.t = "Leave" /\ m.by = u)
      BY <1>1, <3>1
    <3>3. CASE i = n + 1
      BY <1>1, <3>1, <3>3
    <3>4. CASE i # n + 1
      <4>1. i \in 1..n /\ i..n \subseteq 1..n /\ i..n \subseteq i..(n + 1)
        BY <1>1, <3>4
      <4>2. msgs[i].t = "Join" /\ msgs[i].by = u
        BY <1>1, <3>1, <4>1
      <4>3. \A j \in i..n : ~(msgs[j].t = "Leave" /\ msgs[j].by = u)
        BY <1>1, <3>1, <4>1
      <4> QED BY <3>2, <4>1, <4>2, <4>3 DEF Present, n
    <3> QED BY <3>3, <3>4
  <2>2. ASSUME m.t = "Join" /\ m.by = u
        PROVE  u \in Present(all)
    <3>1. \A j \in (n + 1)..(n + 1) : ~(all[j].t = "Leave" /\ all[j].by = u)
      BY <1>1, <2>2
    <3> QED BY <1>1, <2>2, <3>1 DEF Present
  <2>3. ASSUME u \in Present(msgs), ~(m.t = "Leave" /\ m.by = u)
        PROVE  u \in Present(all)
    <3>1. PICK i \in 1..n :
            /\ msgs[i].t = "Join" /\ msgs[i].by = u
            /\ \A j \in i..n : ~(msgs[j].t = "Leave" /\ msgs[j].by = u)
      BY <2>3 DEF Present, n
    <3>2. i \in 1..Len(all) /\ all[i].t = "Join" /\ all[i].by = u
      BY <1>1, <3>1
    <3>3. ASSUME NEW j \in i..(n + 1)
          PROVE  ~(all[j].t = "Leave" /\ all[j].by = u)
      <4>0. n \in Nat
        BY <1>1
      <4>1. j = n + 1 \/ (j \in i..n /\ j \in 1..n)
        BY <4>0
      <4> QED BY <1>1, <2>3, <3>1, <4>1
    <3> QED BY <1>1, <3>2, <3>3 DEF Present
  <2> QED BY <2>1, <2>2, <2>3
<1>3. Present(all) \subseteq User /\ Present(msgs) \subseteq User
  BY DEF Present
<1> QED BY <1>2, <1>3 DEF all

LEMMA PresentNothing == Present(<<>>) = {}
BY DEF Present

\* A reset's history begins with those who are there.
LEMMA PresentJoins ==
  ASSUME NEW users \in Seq(User), NEW n
  PROVE  Present([i \in 1..Len(users) |->
                    [t |-> "Join", by |-> users[i], n |-> n]])
           = {users[i] : i \in 1..Len(users)}
<1> DEFINE s == [i \in 1..Len(users) |->
                    [t |-> "Join", by |-> users[i], n |-> n]]
<1>1. Len(users) \in Nat /\ Len(s) = Len(users)
  BY LenProperties
<1>2. \A i \in 1..Len(users) :
        users[i] \in User /\ s[i].t = "Join" /\ s[i].by = users[i]
  BY ElementOfSeq
<1> HIDE DEF s
<1>3. ASSUME NEW u \in User
      PROVE  u \in Present(s) <=> \E i \in 1..Len(users) : users[i] = u
  BY <1>1, <1>2 DEF Present
<1> QED BY <1>2, <1>3 DEF Present, s

\* If everyone who is there leaves, nobody is left.
LEMMA PresentAfterLeaves ==
  ASSUME NEW msgs \in Seq(Message), NEW leaves \in Seq(Message),
         \A i \in 1..Len(leaves) : leaves[i].t = "Leave",
         \A u \in Present(msgs) : \E i \in 1..Len(leaves) : leaves[i].by = u
  PROVE  Present(msgs \o leaves) = {}
<1> DEFINE all == msgs \o leaves
           n == Len(msgs)
           k == Len(leaves)
<1>1. /\ n \in Nat /\ k \in Nat /\ Len(all) = n + k
      /\ \A i \in 1..n : all[i] = msgs[i]
      /\ \A i \in 1..k : all[n + i] = leaves[i]
  BY ConcatProperties, LenProperties
<1> HIDE DEF all, n
<1>2. SUFFICES ASSUME NEW u \in User, u \in Present(all) PROVE FALSE
  BY DEF Present, all
<1>3. PICK i \in 1..(n + k) :
        /\ all[i].t = "Join" /\ all[i].by = u
        /\ \A j \in i..(n + k) : ~(all[j].t = "Leave" /\ all[j].by = u)
  BY <1>1, <1>2 DEF Present
<1>4. i \in 1..n
  <2>1. SUFFICES ASSUME i > n PROVE FALSE
    BY <1>1, <1>3
  <2>2. i - n \in 1..k /\ n + (i - n) = i
    BY <1>1, <2>1
  <2>3. all[i] = leaves[i - n] /\ leaves[i - n].t = "Leave"
    BY <1>1, <2>2
  <2> QED BY <1>3, <2>3
<1>5. u \in Present(msgs)
  <2>1. \A j \in i..n : j \in i..(n + k) /\ j \in 1..n
    BY <1>1, <1>4
  <2>2. \A j \in i..n : ~(msgs[j].t = "Leave" /\ msgs[j].by = u)
    BY <1>1, <1>3, <2>1
  <2> QED BY <1>1, <1>3, <1>4, <2>2 DEF Present, n
<1>6. PICK j \in 1..k : leaves[j].by = u
  BY <1>5
<1>7. n + j \in i..(n + k)
  BY <1>1, <1>4
<1> QED BY <1>1, <1>3, <1>6, <1>7

LEMMA FlushedIs ==
  ASSUME NEW r \in Recording, NEW f \in Flushed(r)
  PROVE  /\ f \in Recording /\ f.safe = Len(r.msgs) /\ f.msgs = r.msgs
         /\ f.first = r.first /\ f.there = r.there /\ f.head = r.head
<1>1. Len(r.msgs) \in Nat
  BY LenProperties DEF Recording
<1>2. CASE r.safe = Len(r.msgs)
  BY <1>2 DEF Flushed
<1>3. CASE r.safe # Len(r.msgs)
  <2>1. PICK t \in {"none", "inside"} :
          f = [r EXCEPT !.safe = Len(r.msgs), !.tail = t]
    BY <1>3 DEF Flushed
  <2> QED BY <1>1, <2>1 DEF Recording
<1> QED BY <1>2, <1>3

-----------------------------------------------------------------------------
(* Blocks.                                                                 *)

\* A block lies within the recording.
LEMMA TileBounds ==
  ASSUME NEW bs \in Seq(Block), NEW r \in Recording, Tiles(bs, r),
         NEW i \in 1..Len(bs)
  PROVE  /\ Len(bs) \in Nat /\ Len(bs) > 0
         /\ bs[i] \in Block /\ r.first \in Nat /\ Len(r.msgs) \in Nat
         /\ bs[i].start \in Nat /\ bs[i].count \in Nat
         /\ r.first <= bs[i].start
         /\ bs[i].start + bs[i].count <= EndIndex(r)
<1>1. Len(bs) \in Nat /\ Len(bs) > 0
  BY LenProperties, EmptySeq DEF Tiles
<1>2. \A j \in 1..Len(bs) : bs[j].start \in Nat /\ bs[j].count \in Nat
                            /\ bs[j] \in Block
  <2>1. \A j \in 1..Len(bs) : bs[j] \in Block
    BY ElementOfSeq
  <2> QED BY <2>1 DEF Block
<1>3. r.first \in Nat /\ Len(r.msgs) \in Nat
  BY LenProperties DEF Recording
<1>4. r.first <= bs[i].start
  <2>1. CASE i = 1
    BY <2>1, <1>2, <1>3 DEF Tiles
  <2>2. CASE i # 1
    <3>1. 1 \in 1..Len(bs) /\ 1 < i
      BY <1>1, <2>2
    <3>2. bs[1].start = r.first /\ bs[1].start + bs[1].count <= bs[i].start
      BY <3>1 DEF Tiles
    <3> QED BY <1>2, <1>3, <3>1, <3>2
  <2> QED BY <2>1, <2>2
<1>5. bs[i].start + bs[i].count <= EndIndex(r)
  <2> DEFINE n == Len(bs)
  <2>1. n \in 1..Len(bs) /\ bs[n].start + bs[n].count = EndIndex(r)
    BY <1>1 DEF Tiles
  <2>2. CASE i = n
    BY <2>1, <2>2, <1>2
  <2>3. CASE i # n
    <3>1. i < n
      BY <1>1, <2>3
    <3>2. bs[i].start + bs[i].count <= bs[n].start
      BY <2>1, <3>1 DEF Tiles
    <3> QED BY <1>2, <2>1, <3>2, SMTT(40)
  <2> QED BY <2>2, <2>3
<1> QED BY <1>1, <1>2, <1>3, <1>4, <1>5

\* The last block ends where the recording ends.
LEMMA EndsAt ==
  ASSUME NEW b, NEW r, b.start + b.count = r.first + Len(r.msgs),
         /\ b.start \in Nat /\ b.count \in Nat
         /\ r.first \in Nat /\ Len(r.msgs) \in Nat
  PROVE  b.start - r.first + (b.count + 1) = Len(r.msgs) + 1
OBVIOUS

LEMMA LastTile ==
  ASSUME NEW bs \in Seq(Block), NEW r \in Recording, Tiles(bs, r)
  PROVE  bs[Len(bs)].start - r.first + (bs[Len(bs)].count + 1)
           = Len(r.msgs) + 1
<1>1. Len(bs) \in Nat /\ Len(bs) > 0
  BY LenProperties, EmptySeq DEF Tiles
<1>2. Len(bs) \in 1..Len(bs)
  BY <1>1
<1>3. /\ bs[Len(bs)].start \in Nat /\ bs[Len(bs)].count \in Nat
      /\ r.first \in Nat /\ Len(r.msgs) \in Nat
  BY <1>2, TileBounds
<1>4. bs[Len(bs)].start + bs[Len(bs)].count = r.first + Len(r.msgs)
  BY DEF Tiles, EndIndex
<1> QED BY ONLY <1>3, <1>4, EndsAt, Zenon

\* What is cached is what is there to be read.
LEMMA StretchType ==
  ASSUME NEW bs \in Seq(Block), NEW r \in Recording, Tiles(bs, r),
         NEW i \in 1..Len(bs)
  PROVE  /\ Stretch(r, bs[i]) \in Seq(Message)
         /\ Len(Stretch(r, bs[i])) = bs[i].count
         /\ \A k \in 1..bs[i].count :
              Stretch(r, bs[i])[k] = r.msgs[bs[i].start - r.first + k]
<1> DEFINE from == bs[i].start - r.first
           c == bs[i].count
<1>1. from \in Nat /\ c \in Nat /\ from + c <= Len(r.msgs)
  BY TileBounds DEF EndIndex
<1>2. r.msgs \in Seq(Message) /\ Len(r.msgs) \in Nat
  BY LenProperties DEF Recording
<1> HIDE DEF from, c
<1>3. \A k \in (from + 1)..(from + c) : r.msgs[k] \in Message
  <2>1. \A k \in (from + 1)..(from + c) : k \in 1..Len(r.msgs)
    BY <1>1, <1>2
  <2> QED BY <2>1, <1>2, ElementOfSeq
<1> DEFINE t == SubSeq(r.msgs, from + 1, from + c)
<1>4. /\ t \in Seq(Message)
      /\ Len(t) = IF from + 1 <= from + c THEN (from + c) - (from + 1) + 1 ELSE 0
      /\ \A k \in 1..((from + c) - (from + 1) + 1) :
           t[k] = r.msgs[(from + 1) + k - 1]
  BY <1>1, <1>3, SubSeqProperties
<1>5. Len(t) = c /\ \A k \in 1..c : t[k] = r.msgs[from + k]
  <2>1. (from + c) - (from + 1) + 1 = c /\ (from + 1 <= from + c \/ c = 0)
    BY <1>1
  <2>2. \A k \in 1..c : (from + 1) + k - 1 = from + k
    BY <1>1
  <2> HIDE DEF t
  <2> QED BY <1>4, <2>1, <2>2
<1>6. Stretch(r, bs[i]) = t
  BY DEF Stretch, from, c
<1> HIDE DEF t
<1> QED BY <1>4, <1>5, <1>6 DEF from, c

\* The blocks do not depend on what is safe.
LEMMA TilesSame ==
  ASSUME NEW bs, NEW r, NEW q, q.msgs = r.msgs, q.first = r.first,
         Tiles(bs, r), Cached(bs, r)
  PROVE  Tiles(bs, q) /\ Cached(bs, q)
BY DEF Tiles, Cached, Stretch, EndIndex

\* A message is added to the last block, and to its cache.
LEMMA AddToBlockTiles ==
  ASSUME NEW bs \in Seq(Block), NEW r \in Recording, Tiles(bs, r),
         Cached(bs, r), NEW m \in Message, NEW q \in Recording,
         q.msgs = Append(r.msgs, m), q.first = r.first
  PROVE  /\ AddToBlock(bs, m) \in Seq(Block)
         /\ Tiles(AddToBlock(bs, m), q) /\ Cached(AddToBlock(bs, m), q)
         /\ Len(AddToBlock(bs, m)) = Len(bs)
<1> DEFINE n == Len(bs)
           b == bs[n]
           cache == IF b.cache = <<>> THEN <<>> ELSE Append(b.cache, m)
           c == [b EXCEPT !.count = b.count + 1, !.cache = cache]
           cs == AddToBlock(bs, m)
<1>0. n \in Nat /\ n > 0
  BY LenProperties, EmptySeq DEF Tiles
<1>1. n \in 1..Len(bs)
  BY <1>0
<1>2. /\ b \in Block /\ b.start \in Nat /\ b.count \in Nat
      /\ r.first <= b.start /\ r.first \in Nat
      /\ b.start + b.count = EndIndex(r) /\ Len(r.msgs) \in Nat
  BY <1>1, TileBounds DEF Tiles
<1>3. cache \in Seq(Message)
  BY <1>2, AppendProperties, EmptySeq DEF Block
<1>4. cs = [bs EXCEPT ![n] = c]
  BY DEF AddToBlock
<1>5. c \in Block /\ c.start = b.start /\ c.count = b.count + 1
      /\ c.cache = cache
  <2>1. b.count + 1 \in Nat
    BY <1>2
  <2> HIDE DEF cache, b
  <2> QED BY <1>2, <1>3, <2>1 DEF Block
<1> HIDE DEF c, cs
<1>6. /\ cs \in Seq(Block) /\ Len(cs) = n
      /\ \A j \in 1..n : cs[j] = IF j = n THEN c ELSE bs[j]
  BY <1>1, <1>4, <1>5, ExceptSeq
<1>7. EndIndex(q) = EndIndex(r) + 1
  <2>1. Len(q.msgs) = Len(r.msgs) + 1
    BY LenAppend DEF Recording
  <2> QED BY <2>1, <1>2 DEF EndIndex
<1>8. Tiles(cs, q)
  <2>1. \A j \in 1..n : cs[j].start = bs[j].start
    BY <1>5, <1>6
  <2>2. \A j \in 1..(n - 1) : j \in 1..n /\ j + 1 \in 1..n /\ j # n
    BY <1>0
  <2>3. \A j \in 1..(n - 1) : cs[j] = bs[j]
    BY <1>6, <2>2
  <2>4. cs # <<>>
    BY <1>0, <1>6
  <2>5. cs[1].start = q.first
    BY <2>1, <1>0 DEF Tiles
  <2>6. \A j \in 1..(n - 1) :
          cs[j].count > 0 /\ cs[j + 1].start = cs[j].start + cs[j].count
    BY <2>1, <2>2, <2>3 DEF Tiles
  <2>7. \A i, j \in 1..n : i < j => cs[i].start + cs[i].count <= cs[j].start
    <3>1. \A i, j \in 1..n : i < j => i \in 1..(n - 1)
      BY <1>0
    <3> QED BY <2>1, <2>3, <3>1 DEF Tiles
  <2>8. cs[n].start + cs[n].count = EndIndex(q)
    <3>1. cs[n] = c
      BY <1>1, <1>6
    <3>2. b.start + (b.count + 1) = (b.start + b.count) + 1
      BY <1>2
    <3> QED BY <1>2, <1>5, <1>7, <3>1, <3>2
  <2> QED BY <1>6, <2>4, <2>5, <2>6, <2>7, <2>8 DEF Tiles
<1>9. Cached(cs, q)
  <2> SUFFICES ASSUME NEW i \in 1..Len(cs), cs[i].cache # <<>>
               PROVE  cs[i].cache = Stretch(q, cs[i])
    BY DEF Cached
  <2>0. i \in 1..n
    BY <1>6
  <2>1. /\ Stretch(q, cs[i]) \in Seq(Message)
        /\ Len(Stretch(q, cs[i])) = cs[i].count
        /\ \A k \in 1..cs[i].count :
             Stretch(q, cs[i])[k] = q.msgs[cs[i].start - q.first + k]
    BY <1>6, <1>8, StretchType
  <2>2. /\ Stretch(r, bs[i]) \in Seq(Message)
        /\ Len(Stretch(r, bs[i])) = bs[i].count
        /\ \A k \in 1..bs[i].count :
             Stretch(r, bs[i])[k] = r.msgs[bs[i].start - r.first + k]
    BY <2>0, StretchType
  <2>3. /\ bs[i].start \in Nat /\ bs[i].count \in Nat /\ r.first <= bs[i].start
        /\ bs[i].start + bs[i].count <= EndIndex(r)
    BY <2>0, TileBounds
  <2>4. \A k \in 1..bs[i].count :
          q.msgs[bs[i].start - r.first + k] = r.msgs[bs[i].start - r.first + k]
    <3>1. \A k \in 1..bs[i].count : bs[i].start - r.first + k \in 1..Len(r.msgs)
      <4>1. r.first \in Nat /\ Len(r.msgs) \in Nat
            /\ bs[i].start + bs[i].count <= r.first + Len(r.msgs)
        BY <1>2, <2>3 DEF EndIndex
      <4> QED BY <2>3, <4>1, Within
    <3> QED BY <3>1, LenAppend DEF Recording
  <2>5. CASE i # n
    <3>1. cs[i] = bs[i]
      BY <1>6, <2>0, <2>5
    <3>2. bs[i].cache = Stretch(r, bs[i])
      BY <2>0, <3>1 DEF Cached
    <3>3. Stretch(q, bs[i]) = Stretch(r, bs[i])
      <4> DEFINE x == Stretch(q, bs[i])
                 y == Stretch(r, bs[i])
      <4>1. x \in Seq(Message) /\ y \in Seq(Message) /\ Len(x) = Len(y)
        BY <2>1, <2>2, <3>1
      <4>2. \A k \in 1..bs[i].count : x[k] = y[k]
        BY <2>1, <2>2, <2>4, <3>1
      <4>3. Len(x) = bs[i].count
        BY <2>1, <3>1
      <4> HIDE DEF x, y
      <4>4. \A k \in 1..Len(x) : x[k] = y[k]
        BY <4>2, <4>3
      <4>5. x = y
        BY <4>1, <4>4, SeqEqual
      <4> QED BY <4>5 DEF x, y
    <3> QED BY <3>1, <3>2, <3>3
  <2>6. CASE i = n
    <3>1. cs[i] = c /\ bs[i] = b
      BY <1>6, <2>0, <2>6
    <3>2. b.cache # <<>> /\ cs[i].cache = Append(b.cache, m)
      BY <1>5, <3>1
    <3>3. b.cache = Stretch(r, b)
      BY <1>1, <3>2 DEF Cached
    <3> DEFINE app == Append(b.cache, m)
               str == Stretch(q, cs[i])
    <3>4. /\ app \in Seq(Message) /\ Len(app) = b.count + 1
          /\ \A k \in 1..b.count : app[k] = b.cache[k]
          /\ app[b.count + 1] = m
      BY <2>2, <3>1, <3>3, LenAppend
    <3>5. /\ str \in Seq(Message) /\ Len(str) = b.count + 1
          /\ \A k \in 1..(b.count + 1) : str[k] = q.msgs[b.start - r.first + k]
      BY <2>1, <1>5, <3>1
    <3>6. \A k \in 1..b.count : app[k] = str[k]
      <4>1. \A k \in 1..b.count : k \in 1..(b.count + 1)
        BY <1>2
      <4>2. \A k \in 1..b.count : b.cache[k] = q.msgs[b.start - r.first + k]
        BY <2>2, <2>4, <3>1, <3>3
      <4> HIDE DEF app, str
      <4> QED BY <3>4, <3>5, <4>1, <4>2
    <3>7. app[b.count + 1] = str[b.count + 1]
      <4>1. b.start - r.first + (b.count + 1) = Len(r.msgs) + 1
        BY LastTile
      <4>2. q.msgs[Len(r.msgs) + 1] = m
        BY LenAppend DEF Recording
      <4>3. b.count + 1 \in 1..(b.count + 1)
        BY <1>2
      <4> HIDE DEF app, str
      <4> QED BY <3>4, <3>5, <4>1, <4>2, <4>3
    <3> HIDE DEF app, str
    <3>8. \A k \in 1..Len(app) : app[k] = str[k]
      <4>1. \A k \in 1..(b.count + 1) : k = b.count + 1 \/ k \in 1..b.count
        BY <1>2
      <4> QED BY <3>4, <3>6, <3>7, <4>1
    <3>9. app = str
      BY <3>4, <3>5, <3>8, SeqEqual
    <3> QED BY <3>2, <3>9 DEF app, str
  <2> QED BY <2>5, <2>6
<1> QED BY <1>6, <1>8, <1>9 DEF cs

\* A new block begins where the last one ends.
LEMMA CloseBlockTiles ==
  ASSUME NEW bs \in Seq(Block), NEW r \in Recording, Tiles(bs, r),
         Cached(bs, r)
  PROVE  /\ CloseBlock(bs) \in Seq(Block)
         /\ Tiles(CloseBlock(bs), r) /\ Cached(CloseBlock(bs), r)
<1> DEFINE n == Len(bs)
           b == bs[n]
           c == NewBlock(b.start + b.count)
           cs == Append(bs, c)
<1>1. n \in Nat /\ n > 0
  BY LenProperties, EmptySeq DEF Tiles
<1>2. n \in 1..n
  BY <1>1
<1>3. /\ b.start \in Nat /\ b.count \in Nat
      /\ b.start + b.count = EndIndex(r)
  BY <1>2, TileBounds DEF Tiles
<1>4. CASE b.count = 0
  BY <1>4 DEF CloseBlock
<1>5. CASE b.count # 0
  <2>1. CloseBlock(bs) = cs
    BY <1>5 DEF CloseBlock
  <2>2. /\ c.start = b.start + b.count /\ c.count = 0 /\ c.cache = <<>>
        /\ c \in Block
    <3>1. b.start + b.count \in Nat
      BY <1>3
    <3> HIDE DEF b
    <3> QED BY <3>1, EmptySeq DEF NewBlock, Block
  <2> HIDE DEF c
  <2>3. /\ cs \in Seq(Block) /\ Len(cs) = n + 1 /\ cs[n + 1] = c
        /\ \A i \in 1..n : cs[i] = bs[i]
    BY <2>2, LenAppend
  <2> HIDE DEF cs
  <2>4. Tiles(cs, r)
    <3>1. cs # <<>>
      BY <1>1, <2>3
    <3>2. cs[1].start = r.first
      BY <1>1, <2>3 DEF Tiles
    <3>3. ASSUME NEW i \in 1..(Len(cs) - 1)
          PROVE  cs[i].count > 0 /\ cs[i + 1].start = cs[i].start + cs[i].count
      <4>1. i \in 1..n
        BY <1>1, <2>3
      <4>2. CASE i = n
        BY <1>3, <1>5, <2>2, <2>3, <4>1, <4>2
      <4>3. CASE i # n
        <5>1. i \in 1..(n - 1) /\ i + 1 \in 1..n
          BY <1>1, <4>1, <4>3
        <5> QED BY <2>3, <4>1, <5>1 DEF Tiles
      <4> QED BY <4>2, <4>3
    <3>4. ASSUME NEW i \in 1..Len(cs), NEW j \in 1..Len(cs), i < j
          PROVE  cs[i].start + cs[i].count <= cs[j].start
      <4>1. i \in 1..n
        BY <1>1, <2>3, <3>4
      <4>2. CASE j = n + 1
        <5>1. cs[j].start = EndIndex(r)
          BY <1>3, <2>2, <2>3, <4>2
        <5>2. bs[i].start + bs[i].count <= EndIndex(r)
          BY <4>1, TileBounds
        <5> QED BY <2>3, <4>1, <5>1, <5>2
      <4>3. CASE j # n + 1
        <5>1. j \in 1..n
          BY <1>1, <2>3, <4>3
        <5> QED BY <2>3, <3>4, <4>1, <5>1 DEF Tiles
      <4> QED BY <4>2, <4>3
    <3>5. cs[Len(cs)].start + cs[Len(cs)].count = EndIndex(r)
      <4>1. (b.start + b.count) + 0 = b.start + b.count
        BY <1>3
      <4> QED BY <1>3, <2>2, <2>3, <4>1
    <3> QED BY <3>1, <3>2, <3>3, <3>4, <3>5 DEF Tiles
  <2>5. Cached(cs, r)
    <3> SUFFICES ASSUME NEW i \in 1..Len(cs), cs[i].cache # <<>>
                 PROVE  cs[i].cache = Stretch(r, cs[i])
      BY DEF Cached
    <3>1. i \in 1..n \/ i = n + 1
      BY <1>1, <2>3
    <3>2. i # n + 1
      BY <2>2, <2>3
    <3> QED BY <2>3, <3>1, <3>2 DEF Cached
  <2> QED BY <2>1, <2>3, <2>4, <2>5
<1> QED BY <1>4, <1>5

\* The caches may be emptied or filled at any time.
LEMMA RecachedTiles ==
  ASSUME NEW bs \in Seq(Block), NEW r \in Recording, Tiles(bs, r),
         NEW cs \in Seq(Block), Len(cs) = Len(bs),
         \A i \in 1..Len(bs) :
           /\ cs[i].start = bs[i].start /\ cs[i].count = bs[i].count
           /\ cs[i].cache # <<>> => cs[i].cache = Stretch(r, bs[i])
  PROVE  Tiles(cs, r) /\ Cached(cs, r)
<1>1. Len(bs) \in Nat /\ Len(bs) > 0
  BY LenProperties, EmptySeq DEF Tiles
<1>2. cs # <<>>
  BY <1>1
<1>3. 1 \in 1..Len(bs) /\ Len(bs) \in 1..Len(bs)
      /\ \A i \in 1..(Len(bs) - 1) : i \in 1..Len(bs) /\ i + 1 \in 1..Len(bs)
  BY <1>1
<1>4. Tiles(cs, r)
  BY <1>2, <1>3 DEF Tiles
<1>5. \A i \in 1..Len(bs) : Stretch(r, cs[i]) = Stretch(r, bs[i])
  BY DEF Stretch
<1> QED BY <1>4, <1>5 DEF Cached

LEMMA CleanupTiles ==
  ASSUME NEW bs \in Seq(Block), NEW r \in Recording, Tiles(bs, r),
         Cached(bs, r), NEW before
  PROVE  /\ CleanupBatches(bs, before) \in Seq(Block)
         /\ Tiles(CleanupBatches(bs, before), r)
         /\ Cached(CleanupBatches(bs, before), r)
<1> DEFINE cs == CleanupBatches(bs, before)
           Old(i) == \A j \in 1..i : bs[j].start + bs[j].count < before
           c(i) == IF Old(i) THEN [bs[i] EXCEPT !.cache = <<>>] ELSE bs[i]
<1>1. Len(bs) \in Nat /\ \A i \in 1..Len(bs) : bs[i] \in Block
  BY LenProperties, ElementOfSeq
<1>2. cs = [i \in 1..Len(bs) |-> c(i)]
  BY DEF CleanupBatches
<1> HIDE DEF Old, cs
<1>3. \A i \in 1..Len(bs) :
        /\ c(i) \in Block
        /\ c(i).start = bs[i].start /\ c(i).count = bs[i].count
        /\ c(i).cache = <<>> \/ c(i).cache = bs[i].cache
  BY <1>1, EmptySeq DEF Block
<1> HIDE DEF c
<1>4. cs \in Seq(Block) /\ Len(cs) = Len(bs)
  BY <1>1, <1>2, <1>3
<1>5. \A i \in 1..Len(bs) :
           /\ cs[i].start = bs[i].start /\ cs[i].count = bs[i].count
           /\ cs[i].cache # <<>> => cs[i].cache = Stretch(r, bs[i])
  BY <1>2, <1>3 DEF Cached
<1>6. Tiles(cs, r) /\ Cached(cs, r)
  BY <1>4, <1>5, RecachedTiles
<1> QED BY <1>4, <1>6 DEF cs

LEMMA LoadTiles ==
  ASSUME NEW bs \in Seq(Block), NEW r \in Recording, Tiles(bs, r),
         Cached(bs, r), NEW i \in 1..Len(bs), NEW cache,
         cache = bs[i].cache \/ cache = Stretch(r, bs[i])
  PROVE  /\ [bs EXCEPT ![i].cache = cache] \in Seq(Block)
         /\ Tiles([bs EXCEPT ![i].cache = cache], r)
         /\ Cached([bs EXCEPT ![i].cache = cache], r)
<1> DEFINE c == [bs[i] EXCEPT !.cache = cache]
           cs == [bs EXCEPT ![i] = c]
<1>1. bs[i] \in Block /\ Stretch(r, bs[i]) \in Seq(Message)
  BY ElementOfSeq, StretchType
<1>2. cache \in Seq(Message)
  BY <1>1 DEF Block
<1>3. c \in Block /\ c.start = bs[i].start /\ c.count = bs[i].count
      /\ c.cache = cache
  BY <1>1, <1>2 DEF Block
<1>4. cs = [bs EXCEPT ![i].cache = cache]
  OBVIOUS
<1> HIDE DEF c
<1>5. cs \in Seq(Block) /\ Len(cs) = Len(bs)
      /\ \A j \in 1..Len(bs) : cs[j] = IF j = i THEN c ELSE bs[j]
  BY <1>3, ExceptSeq
<1> HIDE DEF cs
<1>6. \A j \in 1..Len(bs) :
           /\ cs[j].start = bs[j].start /\ cs[j].count = bs[j].count
           /\ cs[j].cache # <<>> => cs[j].cache = Stretch(r, bs[j])
  BY <1>3, <1>5 DEF Cached
<1>7. Tiles(cs, r) /\ Cached(cs, r)
  BY <1>5, <1>6, RecachedTiles
<1> QED BY <1>4, <1>5, <1>7

\* What scanBlocks makes of a recording: whole blocks and a rest.
LEMMA Division ==
  ASSUME NEW n \in Nat
  PROVE  /\ BlockSize \in Nat /\ BlockSize > 0
         /\ n \div BlockSize \in Nat /\ n % BlockSize \in Nat
         /\ n = (n \div BlockSize) * BlockSize + (n % BlockSize)
<1>1. BlockSize \in Nat \ {0}
  BY BoundAssumption
<1> QED BY <1>1

LEMMA Multiples ==
  ASSUME NEW b \in Nat
  PROVE  /\ \A i \in Nat : i > 0 => (i - 1) * b \in Nat
         /\ \A i \in Nat : ((i + 1) - 1) * b = (i - 1) * b + b
         /\ \A i, j \in Nat : i < j => (i - 1) * b + b <= (j - 1) * b
         /\ (1 - 1) * b = 0
OBVIOUS

LEMMA ScanBlocksTiles ==
  ASSUME NEW n \in Nat, NEW k \in Nat, NEW r \in Recording,
         r.first = 0, Len(r.msgs) = n + k
  PROVE  /\ ScanBlocks(n, k) \in Seq(Block)
         /\ Tiles(ScanBlocks(n, k), r) /\ Cached(ScanBlocks(n, k), r)
<1> DEFINE d == n \div BlockSize
           rest == n % BlockSize
           size(i) == IF i < d + 1 THEN BlockSize ELSE rest + k
           cs == ScanBlocks(n, k)
<1>1. /\ BlockSize \in Nat /\ BlockSize > 0 /\ d \in Nat /\ rest \in Nat
      /\ n = d * BlockSize + rest
  BY Division
<1>2. cs = [i \in 1..(d + 1) |-> [start |-> (i - 1) * BlockSize,
                                  count |-> size(i), cache |-> <<>>]]
  BY DEF ScanBlocks
<1> HIDE DEF d, rest, cs
<1>3. \A i \in 1..(d + 1) : size(i) \in Nat
  BY <1>1
<1>4. \A i \in 1..(d + 1) : (i - 1) * BlockSize \in Nat
  BY <1>1, Multiples
<1>5. \A i \in 1..(d + 1) : [start |-> (i - 1) * BlockSize,
                             count |-> size(i), cache |-> <<>>] \in Block
  <2> HIDE DEF size
  <2> QED BY <1>3, <1>4, EmptySeq DEF Block
<1>6. /\ cs \in Seq(Block) /\ Len(cs) = d + 1
      /\ \A i \in 1..(d + 1) :
           /\ cs[i].start = (i - 1) * BlockSize
           /\ cs[i].count = size(i) /\ cs[i].cache = <<>>
  <2> HIDE DEF size
  <2> QED BY <1>1, <1>2, <1>5
<1>7. \A i \in 1..d : /\ i \in 1..(d + 1) /\ i + 1 \in 1..(d + 1)
                      /\ size(i) = BlockSize
  BY <1>1
<1>8. size(d + 1) = rest + k
  BY <1>1
<1> HIDE DEF size
<1>9. Tiles(cs, r)
  <2>1. cs # <<>>
    BY <1>1, <1>6
  <2>2. cs[1].start = r.first
    BY <1>1, <1>6, Multiples
  <2>3. \A i \in 1..d :
          cs[i].count > 0 /\ cs[i + 1].start = cs[i].start + cs[i].count
    <3>1. \A i \in 1..d : ((i + 1) - 1) * BlockSize = (i - 1) * BlockSize + BlockSize
      BY <1>1, Multiples
    <3> QED BY <1>1, <1>6, <1>7, <3>1
  <2>4. \A i, j \in 1..(d + 1) :
          i < j => cs[i].start + cs[i].count <= cs[j].start
    <3>1. \A i, j \in 1..(d + 1) :
            i < j => i \in 1..d
                     /\ (i - 1) * BlockSize + BlockSize <= (j - 1) * BlockSize
      BY <1>1, Multiples
    <3> QED BY <1>6, <1>7, <3>1
  <2>5. cs[d + 1].start + cs[d + 1].count = EndIndex(r)
    <3>1. d + 1 \in 1..(d + 1) /\ (d + 1) - 1 = d
      BY <1>1
    <3>2. cs[d + 1].start = d * BlockSize /\ cs[d + 1].count = rest + k
      BY <1>6, <1>8, <3>1
    <3>3. d * BlockSize \in Nat
      BY <1>1
    <3>4. d * BlockSize + (rest + k) = n + k
      BY <1>1, <3>3
    <3>5. EndIndex(r) = n + k
      BY DEF EndIndex
    <3> QED BY <3>2, <3>4, <3>5
  <2>6. Len(cs) - 1 = d
    BY <1>1, <1>6
  <2> QED BY <1>6, <2>1, <2>2, <2>3, <2>4, <2>5, <2>6 DEF Tiles
<1>10. Cached(cs, r)
  BY <1>6 DEF Cached
<1> QED BY <1>6, <1>9, <1>10 DEF cs

-----------------------------------------------------------------------------
(* Adding a message.                                                       *)

LEMMA HistoryAddKeeps ==
  ASSUME TypeOK, cur \in File, disk[cur].safe <= Len(disk[cur].msgs),
         Tiles(blocks, disk[cur]), Cached(blocks, disk[cur]),
         NEW m \in Message, HistoryAdd(m)
  PROVE  /\ disk' = [disk EXCEPT ![cur] = disk'[cur]]
         /\ disk'[cur] \in Recording
         /\ disk'[cur].msgs = Append(disk[cur].msgs, m)
         /\ disk'[cur].first = disk[cur].first
         /\ disk'[cur].there = disk[cur].there
         /\ disk'[cur].head = disk[cur].head
         /\ disk[cur].safe <= disk'[cur].safe
         /\ disk'[cur].safe <= Len(disk'[cur].msgs)
         /\ blocks' \in Seq(Block)
         /\ Tiles(blocks', disk'[cur]) /\ Cached(blocks', disk'[cur])
<1> DEFINE bs == AddToBlock(blocks, m)
           msgs == Append(disk[cur].msgs, m)
           r == [disk[cur] EXCEPT !.msgs = msgs]
           full == bs[Len(bs)].count > BlockSize
<1>1. disk[cur] \in Recording /\ blocks \in Seq(Block)
      /\ disk \in [File -> Recording]
  BY DEF TypeOK, Block
<1>2. msgs \in Seq(Message) /\ Len(msgs) = Len(disk[cur].msgs) + 1
      /\ Len(disk[cur].msgs) \in Nat /\ disk[cur].safe \in Nat
  BY <1>1, LenAppend DEF Recording
<1> HIDE DEF msgs
<1>3. /\ r \in Recording /\ r.msgs = msgs /\ r.first = disk[cur].first
      /\ r.there = disk[cur].there /\ r.head = disk[cur].head
      /\ r.safe = disk[cur].safe
  BY <1>1, <1>2 DEF Recording
<1>4. PICK f : /\ f \in (IF full THEN Flushed(r) ELSE {r})
               /\ disk' = [disk EXCEPT ![cur] = f]
  BY DEF HistoryAdd, msgs
<1>5. blocks' = IF full THEN CloseBlock(bs) ELSE bs
  BY DEF HistoryAdd
<1> HIDE DEF r, full
<1>6. bs \in Seq(Block) /\ Tiles(bs, r) /\ Cached(bs, r)
  BY <1>1, <1>3, AddToBlockTiles DEF msgs
<1> HIDE DEF bs
<1>7. CloseBlock(bs) \in Seq(Block) /\ Tiles(CloseBlock(bs), r)
      /\ Cached(CloseBlock(bs), r)
  BY <1>3, <1>6, CloseBlockTiles
<1>8. /\ f \in Recording /\ f.msgs = msgs /\ f.first = disk[cur].first
      /\ f.there = disk[cur].there /\ f.head = disk[cur].head
      /\ f.safe = disk[cur].safe \/ f.safe = Len(msgs)
  BY <1>3, <1>4, FlushedIs
<1>9. disk'[cur] = f
  BY <1>1, <1>4
<1>10. disk[cur].safe <= f.safe /\ f.safe <= Len(f.msgs)
  BY <1>2, <1>8
<1>11. blocks' \in Seq(Block) /\ Tiles(blocks', r) /\ Cached(blocks', r)
  BY <1>5, <1>6, <1>7
<1>12. Tiles(blocks', f) /\ Cached(blocks', f)
  BY <1>3, <1>8, <1>11, TilesSame
<1> QED BY <1>4, <1>8, <1>9, <1>10, <1>11, <1>12 DEF msgs

-----------------------------------------------------------------------------
(* Steps that only add to the recording, or flush it.                      *)

\* A sequence and a longer one have the same beginnings.
LEMMA SamePrefix ==
  ASSUME NEW S, NEW s \in Seq(S), NEW t \in Seq(S), NEW k \in 0..Len(s),
         Len(s) <= Len(t), \A i \in 1..Len(s) : t[i] = s[i]
  PROVE  SubSeq(t, 1, k) = SubSeq(s, 1, k)
<1>1. Len(s) \in Nat /\ Len(t) \in Nat
  BY LenProperties
<1>2. \A i \in 1..k : i \in 1..Len(s) /\ i \in 1..Len(t)
  BY <1>1
<1>3. \A i \in 1..k : s[i] \in S /\ t[i] \in S /\ t[i] = s[i]
  BY <1>2, ElementOfSeq
<1> DEFINE x == SubSeq(s, 1, k)
           y == SubSeq(t, 1, k)
<1>4. /\ x \in Seq(S) /\ Len(x) = k /\ \A i \in 1..k : x[i] = s[i]
      /\ y \in Seq(S) /\ Len(y) = k /\ \A i \in 1..k : y[i] = t[i]
  <2>1. k \in Nat /\ 1 \in Int /\ (1 <= k \/ k = 0)
        /\ \A i \in 1..k : 1 + i - 1 = i
    BY <1>1
  <2>2. /\ x \in Seq(S) /\ Len(x) = (IF 1 <= k THEN k - 1 + 1 ELSE 0)
        /\ \A i \in 1..(k - 1 + 1) : x[i] = s[1 + i - 1]
    BY <1>3, <2>1, SubSeqProperties
  <2>3. /\ y \in Seq(S) /\ Len(y) = (IF 1 <= k THEN k - 1 + 1 ELSE 0)
        /\ \A i \in 1..(k - 1 + 1) : y[i] = t[1 + i - 1]
    BY <1>3, <2>1, SubSeqProperties
  <2>4. k - 1 + 1 = k
    BY <2>1
  <2> HIDE DEF x, y
  <2> QED BY <2>1, <2>2, <2>3, <2>4
<1> HIDE DEF x, y
<1>5. Len(x) = Len(y) /\ \A i \in 1..Len(x) : x[i] = y[i]
  BY <1>3, <1>4
<1>6. x = y
  BY <1>4, <1>5, SeqEqual
<1> QED BY <1>6 DEF x, y

\* How much a client has been sent
LEMMA TakenType ==
  ASSUME NEW r \in Recording, NEW u, pos[u] \in Int, pos[u] < EndIndex(r)
  PROVE  /\ Taken(u, r) \in 0..Len(r.msgs) /\ Len(r.msgs) \in Nat
         /\ pos[u] = -1 => Taken(u, r) = 0
<1>1. r.first \in Nat /\ Len(r.msgs) \in Nat
  BY LenProperties DEF Recording
<1> QED BY <1>1 DEF Taken, EndIndex

\* The recording that is named is written to, and nothing else.
Grows ==
  /\ server = "up" /\ stage \in Current /\ stage' \in Current
  /\ UNCHANGED <<server, journal, cur, old>>
  /\ count' \in [msgs : 0..MaxMessages, resets : 0..MaxResets,
                 restarts : 0..MaxRestarts]
  /\ count'.resets = count.resets
  /\ disk' = [disk EXCEPT ![cur] = disk'[cur]]
  /\ disk'[cur] \in Recording
  /\ disk'[cur].there = disk[cur].there /\ disk'[cur].head = disk[cur].head
  /\ disk'[cur].first = disk[cur].first
  /\ disk[cur].safe <= disk'[cur].safe
  /\ disk'[cur].safe <= Len(disk'[cur].msgs)
  /\ Len(disk[cur].msgs) <= Len(disk'[cur].msgs)
  /\ \A i \in 1..Len(disk[cur].msgs) : disk'[cur].msgs[i] = disk[cur].msgs[i]

LEMMA CurrentFile ==
  ASSUME IInv, server = "up", stage \in Current
  PROVE  /\ cur \in File /\ cur = journal /\ Named = disk[cur]
         /\ disk[cur] \in Recording /\ disk[cur].msgs \in Seq(Message)
         /\ Len(disk[cur].msgs) \in Nat /\ disk[cur].first \in Nat
         /\ disk[cur].safe \in Nat
         /\ disk[cur].safe <= Len(disk[cur].msgs)
<1>1. cur = journal /\ cur # 0 /\ cur \in File \cup {0}
      /\ disk \in [File -> Recording]
  BY DEF IInv, StageOK, TypeOK
<1>2. cur \in File
  BY <1>1
<1>3. disk[cur] \in Recording
  BY <1>1, <1>2
<1> QED BY <1>1, <1>2, <1>3, LenProperties DEF IInv, FilesOK, Recording, Named

LEMMA GrowsFiles ==
  ASSUME IInv, Grows
  PROVE  /\ FilesOK' /\ DownOK' /\ disk' \in [File -> Recording]
         /\ Named' = disk'[cur]
<1>1. /\ cur \in File /\ cur = journal /\ cur # 0
      /\ disk \in [File -> Recording]
  BY CurrentFile DEF IInv, StageOK, TypeOK, Grows
<1>2. disk' \in [File -> Recording] /\ Named' = disk'[cur]
  BY <1>1 DEF Grows, Named
<1>3. Created' = Created
  BY DEF Created, Grows, Current
<1>4. \A f \in File : disk'[f] = IF f = cur THEN disk'[cur] ELSE disk[f]
  BY <1>1 DEF Grows
<1>5. FilesOK'
  BY <1>1, <1>3, <1>4 DEF FilesOK, IInv, Grows
<1>6. DownOK'
  BY DEF DownOK, Grows
<1> QED BY <1>2, <1>5, <1>6

LEMMA GrowsDelivered ==
  ASSUME IInv, Grows, pos' \in [User -> Int],
         \A u \in User : \/ pos'[u] = pos[u] /\ got'[u] = got[u]
                         \/ pos'[u] = -1 /\ got'[u] = <<>>
  PROVE  Delivered'
<1> DEFINE r == disk[cur]
           q == disk'[cur]
<1>1. /\ Named = r /\ r \in Recording /\ r.msgs \in Seq(Message)
      /\ Len(r.msgs) \in Nat /\ r.first \in Nat
  BY CurrentFile DEF Grows
<1>2. Named' = q /\ q \in Recording /\ q.first = r.first
      /\ q.msgs \in Seq(Message) /\ Len(r.msgs) <= Len(q.msgs)
      /\ \A i \in 1..Len(r.msgs) : q.msgs[i] = r.msgs[i]
  BY GrowsFiles DEF Grows, Recording
<1>3. Len(q.msgs) \in Nat
  BY <1>2, LenProperties
<1> HIDE DEF r, q
<1> SUFFICES ASSUME NEW u \in User
             PROVE  /\ pos'[u] < EndIndex(q)
                    /\ got'[u] = SubSeq(q.msgs, 1,
                         IF pos'[u] < q.first THEN 0 ELSE pos'[u] - q.first + 1)
  BY <1>2 DEF Delivered, Taken
<1>4. EndIndex(r) <= EndIndex(q) /\ EndIndex(r) \in Nat /\ EndIndex(q) \in Nat
  BY <1>1, <1>2, <1>3 DEF EndIndex
<1>5. /\ pos[u] \in Int /\ pos[u] < EndIndex(r)
      /\ got[u] = SubSeq(r.msgs, 1, Taken(u, r))
  BY <1>1 DEF IInv, TypeOK, Delivered
<1>6. CASE pos'[u] = pos[u] /\ got'[u] = got[u]
  <2>1. Taken(u, r) \in 0..Len(r.msgs)
    BY <1>1, <1>5, TakenType
  <2>2. SubSeq(q.msgs, 1, Taken(u, r)) = SubSeq(r.msgs, 1, Taken(u, r))
    BY <1>1, <1>2, <2>1, SamePrefix
  <2>3. Taken(u, r) = IF pos'[u] < q.first THEN 0 ELSE pos'[u] - q.first + 1
    BY <1>2, <1>6 DEF Taken
  <2>4. pos'[u] < EndIndex(q)
    BY <1>4, <1>5, <1>6
  <2> QED BY <1>5, <1>6, <2>2, <2>3, <2>4
<1>7. CASE pos'[u] = -1 /\ got'[u] = <<>>
  <2>1. -1 < q.first /\ -1 < EndIndex(q)
    BY <1>1, <1>2, <1>4
  <2>2. SubSeq(q.msgs, 1, 0) = <<>>
    BY SubSeqEmpty
  <2> QED BY <1>7, <2>1, <2>2
<1> QED BY <1>6, <1>7

LEMMA GrowsKeeps ==
  ASSUME IInv, Grows, stage' \in {"filling", "idle"},
         image' \in Seq(Message),
         stage' = "filling" => image' # <<>>, stage' = "idle" => image' = <<>>,
         blocks' \in Seq(Block),
         Tiles(blocks', disk'[cur]), Cached(blocks', disk'[cur]),
         pos' \in [User -> Int], got' \in [User -> Seq(Message)], Delivered',
         clients' \in Seq(User),
         \A i, j \in 1..Len(clients') : clients'[i] = clients'[j] => i = j,
         Present(disk'[cur].msgs \o image') = Online'
  PROVE  IInv'
<1>1. FilesOK' /\ DownOK' /\ disk' \in [File -> Recording]
  BY GrowsFiles
<1>2. cur' = cur /\ journal' = journal /\ old' = old /\ server' = "up"
      /\ cur = journal /\ cur # 0 /\ stage' \in Current
  BY CurrentFile DEF Grows, IInv, StageOK, Current
<1>3. TypeOK'
  <2>1. {journal, cur, old} \subseteq File \cup {0}
    BY DEF IInv, TypeOK
  <2>2. stage' \in Stages
    BY DEF Stages
  <2>3. count' \in [msgs : 0..MaxMessages, resets : 0..MaxResets,
                    restarts : 0..MaxRestarts]
    BY DEF Grows
  <2> QED BY <1>1, <1>2, <2>1, <2>2, <2>3 DEF TypeOK, Block
<1>4. StageOK'
  BY <1>2 DEF StageOK, Current
<1>5. BlocksOK'
  BY <1>2 DEF BlocksOK
<1>6. UsersOK'
  <2>1. Coming' = disk'[cur].msgs \o image'
    BY <1>2 DEF Coming
  <2>2. Present(Coming') = Online'
    BY <2>1
  <2> QED BY <2>2 DEF UsersOK
<1>7. LostOnlyWhenEmpty'
  BY <1>2 DEF LostOnlyWhenEmpty
<1> QED BY <1>1, <1>3, <1>4, <1>5, <1>6, <1>7 DEF IInv

-----------------------------------------------------------------------------
(* Joining, leaving and drawing.                                           *)

LEMMA OnlineIs ==
  ASSUME IInv
  PROVE  /\ clients \in Seq(User) /\ Len(clients) \in Nat
         /\ Online \subseteq User
         /\ Reading => Present(disk[cur].msgs) = Online
<1>1. clients \in Seq(User)
  BY DEF IInv, TypeOK
<1>2. Reading => Present(disk[cur].msgs) = Online
  <2> SUFFICES ASSUME Reading PROVE Present(disk[cur].msgs) = Online
    OBVIOUS
  <2>1. disk[cur].msgs \in Seq(Message) /\ image = <<>> /\ stage = "idle"
        /\ server = "up"
    BY CurrentFile DEF Reading, IInv, StageOK, Current
  <2>2. disk[cur].msgs \o <<>> = disk[cur].msgs
    BY <2>1, ConcatEmptySeq
  <2> QED BY <2>1, <2>2 DEF IInv, UsersOK, Coming, Current
<1> QED BY <1>1, <1>2, LenProperties, ElementOfSeq DEF Online

LEMMA AddGrows ==
  ASSUME IInv, Reading, NEW m \in Message, Add(m)
  PROVE  /\ Grows /\ stage' = "idle" /\ image' = <<>>
         /\ disk'[cur].msgs = Append(disk[cur].msgs, m)
         /\ blocks' \in Seq(Block)
         /\ Tiles(blocks', disk'[cur]) /\ Cached(blocks', disk'[cur])
<1>1. server = "up" /\ stage = "idle" /\ stage \in Current /\ image = <<>>
  BY DEF Reading, Current, IInv, StageOK
<1>2. /\ TypeOK /\ cur \in File /\ disk[cur].safe <= Len(disk[cur].msgs)
      /\ Tiles(blocks, disk[cur]) /\ Cached(blocks, disk[cur])
      /\ HistoryAdd(m)
  BY <1>1, CurrentFile DEF IInv, BlocksOK, Add
<1>3. /\ disk' = [disk EXCEPT ![cur] = disk'[cur]]
      /\ disk'[cur] \in Recording
      /\ disk'[cur].msgs = Append(disk[cur].msgs, m)
      /\ disk'[cur].first = disk[cur].first
      /\ disk'[cur].there = disk[cur].there
      /\ disk'[cur].head = disk[cur].head
      /\ disk[cur].safe <= disk'[cur].safe
      /\ disk'[cur].safe <= Len(disk'[cur].msgs)
      /\ blocks' \in Seq(Block)
      /\ Tiles(blocks', disk'[cur]) /\ Cached(blocks', disk'[cur])
  BY <1>2, HistoryAddKeeps
<1>4. /\ count' \in [msgs : 0..MaxMessages, resets : 0..MaxResets,
                     restarts : 0..MaxRestarts]
      /\ count'.resets = count.resets
  <2>1. /\ count \in [msgs : 0..MaxMessages, resets : 0..MaxResets,
                      restarts : 0..MaxRestarts]
        /\ count.msgs < MaxMessages
        /\ count' = [count EXCEPT !.msgs = count.msgs + 1]
    BY DEF IInv, TypeOK, Add
  <2>2. count.msgs \in Nat /\ MaxMessages \in Nat
    BY <2>1, BoundAssumption
  <2>3. count.msgs + 1 \in 0..MaxMessages
    BY <2>1, <2>2
  <2> QED BY <2>1, <2>3
<1>5. /\ Len(disk[cur].msgs) <= Len(disk'[cur].msgs)
      /\ \A i \in 1..Len(disk[cur].msgs) :
           disk'[cur].msgs[i] = disk[cur].msgs[i]
  <2>1. disk[cur].msgs \in Seq(Message)
    BY <1>1, CurrentFile
  <2> QED BY <1>3, <2>1, LenAppend
<1> QED BY <1>1, <1>3, <1>4, <1>5 DEF Grows, Add

LEMMA AddKeeps ==
  ASSUME IInv, Reading, NEW m \in Message, Add(m),
         pos' \in [User -> Int], got' \in [User -> Seq(Message)],
         \A u \in User : \/ pos'[u] = pos[u] /\ got'[u] = got[u]
                         \/ pos'[u] = -1 /\ got'[u] = <<>>,
         clients' \in Seq(User),
         \A i, j \in 1..Len(clients') : clients'[i] = clients'[j] => i = j,
         Present(Append(disk[cur].msgs, m)) = Online'
  PROVE  IInv'
<1>1. /\ Grows /\ stage' = "idle" /\ image' = <<>>
      /\ disk'[cur].msgs = Append(disk[cur].msgs, m)
      /\ blocks' \in Seq(Block)
      /\ Tiles(blocks', disk'[cur]) /\ Cached(blocks', disk'[cur])
  BY AddGrows
<1>3. Delivered'
  BY <1>1, GrowsDelivered
<1>4. disk'[cur].msgs \o image' = Append(disk[cur].msgs, m)
  <2>1. disk'[cur].msgs \in Seq(Message)
    BY <1>1 DEF Grows, Recording
  <2> QED BY <1>1, <2>1, ConcatEmptySeq
<1>5. Present(disk'[cur].msgs \o image') = Online'
  BY <1>4
<1>6. image' \in Seq(Message)
  BY <1>1, EmptySeq
<1> QED BY <1>1, <1>3, <1>5, <1>6, GrowsKeeps

LEMMA MsgType ==
  ASSUME IInv, NEW u \in User \cup {0},
         NEW t \in {"Join", "Leave", "Draw", "Image"}
  PROVE  /\ Msg(t, u) \in Message /\ Msg(t, u).t = t /\ Msg(t, u).by = u
BY DEF Msg, Message, IInv, TypeOK

LEMMA JoinKeeps ==
  ASSUME IInv, NEW u \in User, Join(u)
  PROVE  IInv'
<1> DEFINE m == Msg("Join", u)
           n == Len(clients)
<1>1. Reading /\ Add(m) /\ clients' = Append(clients, u) /\ u \notin Online
      /\ pos' = pos /\ got' = got
  BY DEF Join
<1>2. m \in Message /\ m.t = "Join" /\ m.by = u
  BY MsgType
<1>3. /\ clients' \in Seq(User) /\ n \in Nat /\ Len(clients') = n + 1
      /\ \A i \in 1..n : clients'[i] = clients[i]
      /\ clients'[n + 1] = u
  BY <1>1, OnlineIs, LenAppend
<1>4. \A i \in 1..n : clients[i] # u
  BY <1>1 DEF Online
<1>5. \A i, j \in 1..n : clients[i] = clients[j] => i = j
  BY DEF IInv, UsersOK
<1>6. \A i, j \in 1..Len(clients') : clients'[i] = clients'[j] => i = j
  <2>1. \A i \in 1..(n + 1) : i = n + 1 \/ i \in 1..n
    BY <1>3
  <2> QED BY <1>3, <1>4, <1>5, <2>1
<1>7. Online' = Online \cup {u}
  <2>1. \A v : v \in Online' <=> \E i \in 1..(n + 1) : clients'[i] = v
    BY <1>3 DEF Online
  <2>2. \A v : v \in Online <=> \E i \in 1..n : clients[i] = v
    BY DEF Online
  <2>3. \A i \in 1..(n + 1) : i = n + 1 \/ i \in 1..n
    BY <1>3
  <2>4. n + 1 \in 1..(n + 1) /\ \A i \in 1..n : i \in 1..(n + 1)
    BY <1>3
  <2> QED BY <1>3, <2>1, <2>2, <2>3, <2>4
<1>8. Present(Append(disk[cur].msgs, m)) = Online'
  <2>1. disk[cur].msgs \in Seq(Message) /\ Present(disk[cur].msgs) = Online
    BY <1>1, CurrentFile, OnlineIs DEF Reading, Current
  <2> HIDE DEF m
  <2> QED BY <1>2, <1>7, <2>1, PresentAppend
<1> HIDE DEF m
<1>9. pos' \in [User -> Int] /\ got' \in [User -> Seq(Message)]
  BY <1>1 DEF IInv, TypeOK
<1> QED BY <1>1, <1>2, <1>3, <1>6, <1>8, <1>9, AddKeeps

LEMMA WithoutIs ==
  ASSUME NEW users \in Seq(User), NEW u, \E i \in 1..Len(users) : users[i] = u,
         \A i, j \in 1..Len(users) : users[i] = users[j] => i = j
  PROVE  /\ Without(users, u) \in Seq(User)
         /\ \A i, j \in 1..Len(Without(users, u)) :
              Without(users, u)[i] = Without(users, u)[j] => i = j
         /\ {Without(users, u)[i] : i \in 1..Len(Without(users, u))}
              = {users[i] : i \in 1..Len(users)} \ {u}
<1> DEFINE n == Len(users)
           k == CHOOSE i \in 1..n : users[i] = u
           w == Without(users, u)
           at(j) == IF j < k THEN j ELSE j + 1
<1>1. n \in Nat /\ k \in 1..n /\ users[k] = u
  BY LenProperties
<1>2. w = [j \in 1..(n - 1) |-> IF j < k THEN users[j] ELSE users[j + 1]]
  BY DEF Without
<1> HIDE DEF k, w, n
<1>3. \A j \in 1..(n - 1) : at(j) \in 1..n /\ at(j) # k
  BY <1>1
<1>4. \A i, j \in 1..(n - 1) : at(i) = at(j) => i = j
  BY <1>1
<1>5. \A i \in 1..n : i # k => \E j \in 1..(n - 1) : at(j) = i
  <2> SUFFICES ASSUME NEW i \in 1..n, i # k
               PROVE  \E j \in 1..(n - 1) : at(j) = i
    OBVIOUS
  <2>1. CASE i < k
    <3>1. i \in 1..(n - 1)
      BY <1>1, <2>1
    <3> QED BY <2>1, <3>1
  <2>2. CASE i > k
    <3>1. i - 1 \in 1..(n - 1) /\ ~(i - 1 < k) /\ (i - 1) + 1 = i
      BY <1>1, <2>2
    <3> QED BY <3>1
  <2> QED BY <1>1, <2>1, <2>2
<1>6. \A j \in 1..(n - 1) : w[j] = users[at(j)]
  BY <1>2
<1> HIDE DEF at
<1>7. \A i \in 1..n : users[i] \in User
  BY ElementOfSeq DEF n
<1>8. w \in [1..(n - 1) -> User]
  <2>1. \A j \in 1..(n - 1) : w[j] \in User
    BY <1>3, <1>6, <1>7
  <2> QED BY <1>2, <2>1
<1>9. w \in Seq(User) /\ Len(w) = n - 1
  <2>1. n - 1 \in Nat
    BY <1>1
  <2> QED BY <1>8, <2>1
<1>10. \A i, j \in 1..Len(w) : w[i] = w[j] => i = j
  <2>1. \A i, j \in 1..n : users[i] = users[j] => i = j
    BY DEF n
  <2> SUFFICES ASSUME NEW i \in 1..(n - 1), NEW j \in 1..(n - 1), w[i] = w[j]
               PROVE  i = j
    BY <1>9
  <2>2. at(i) = at(j)
    BY <1>3, <1>6, <2>1
  <2> QED BY <1>4, <2>2
<1>11. \A v : (\E i \in 1..Len(w) : w[i] = v)
                <=> (v # u /\ \E i \in 1..n : users[i] = v)
  <2>1. \A i \in 1..n : users[i] = u => i = k
    BY <1>1 DEF n
  <2> QED BY <1>1, <1>3, <1>5, <1>6, <1>9, <2>1, ZenonT(60)
<1>12. {w[i] : i \in 1..Len(w)} = {users[i] : i \in 1..n} \ {u}
  <2> DEFINE A == {w[i] : i \in 1..Len(w)}
             B == {users[i] : i \in 1..n}
  <2>1. \A v : v \in A <=> \E i \in 1..Len(w) : w[i] = v
    OBVIOUS
  <2>2. \A v : v \in B <=> \E i \in 1..n : users[i] = v
    OBVIOUS
  <2> HIDE DEF A, B
  <2>3. A = B \ {u}
    BY <1>11, <2>1, <2>2
  <2> QED BY <2>3 DEF A, B
<1> QED BY <1>9, <1>10, <1>12 DEF w, n

LEMMA LeaveKeeps ==
  ASSUME IInv, NEW u \in User, Leave(u)
  PROVE  IInv'
<1> DEFINE m == Msg("Leave", u)
<1>1. Reading /\ Add(m) /\ clients' = Without(clients, u) /\ u \in Online
      /\ pos' = [pos EXCEPT ![u] = -1] /\ got' = [got EXCEPT ![u] = <<>>]
  BY DEF Leave
<1>2. m \in Message /\ m.t = "Leave" /\ m.by = u
  BY MsgType
<1>3. clients \in Seq(User) /\ \E i \in 1..Len(clients) : clients[i] = u
  BY <1>1, OnlineIs DEF Online
<1>4. \A i, j \in 1..Len(clients) : clients[i] = clients[j] => i = j
  BY DEF IInv, UsersOK
<1>5. /\ clients' \in Seq(User)
      /\ \A i, j \in 1..Len(clients') : clients'[i] = clients'[j] => i = j
      /\ Online' = Online \ {u}
  <2> DEFINE w == Without(clients, u)
  <2>1. /\ w \in Seq(User)
        /\ \A i, j \in 1..Len(w) : w[i] = w[j] => i = j
        /\ {w[i] : i \in 1..Len(w)} = {clients[i] : i \in 1..Len(clients)} \ {u}
    BY <1>3, <1>4, WithoutIs
  <2>2. clients' = w
    BY <1>1
  <2> HIDE DEF w
  <2> QED BY <2>1, <2>2 DEF Online
<1>6. Present(Append(disk[cur].msgs, m)) = Online'
  <2>1. disk[cur].msgs \in Seq(Message) /\ Present(disk[cur].msgs) = Online
    BY <1>1, CurrentFile, OnlineIs DEF Reading, Current
  <2> HIDE DEF m
  <2> QED BY <1>2, <1>5, <2>1, PresentAppend
<1>7. pos \in [User -> Int] /\ got \in [User -> Seq(Message)]
  BY DEF IInv, TypeOK
<1>8. pos' \in [User -> Int] /\ got' \in [User -> Seq(Message)]
  BY <1>1, <1>7, EmptySeq
<1>9. \A v \in User : \/ pos'[v] = pos[v] /\ got'[v] = got[v]
                      \/ pos'[v] = -1 /\ got'[v] = <<>>
  BY <1>1, <1>7
<1> HIDE DEF m
<1> QED BY <1>1, <1>2, <1>5, <1>6, <1>8, <1>9, AddKeeps

LEMMA DrawKeeps ==
  ASSUME IInv, NEW u \in User, Draw(u)
  PROVE  IInv'
<1> DEFINE m == Msg("Draw", u)
<1>1. Reading /\ Add(m) /\ clients' = clients /\ pos' = pos /\ got' = got
  BY DEF Draw
<1>2. m \in Message /\ m.t = "Draw"
  BY MsgType
<1>3. clients' \in Seq(User) /\ Online' = Online
      /\ \A i, j \in 1..Len(clients') : clients'[i] = clients'[j] => i = j
  BY <1>1 DEF Online, IInv, TypeOK, UsersOK
<1>4. Present(Append(disk[cur].msgs, m)) = Online'
  <2>1. disk[cur].msgs \in Seq(Message) /\ Present(disk[cur].msgs) = Online
    BY <1>1, CurrentFile, OnlineIs DEF Reading, Current
  <2> HIDE DEF m
  <2> QED BY <1>2, <1>3, <2>1, PresentAppend
<1>5. pos' \in [User -> Int] /\ got' \in [User -> Seq(Message)]
  BY <1>1 DEF IInv, TypeOK
<1> HIDE DEF m
<1> QED BY <1>1, <1>2, <1>3, <1>4, <1>5, AddKeeps

-----------------------------------------------------------------------------
(* The buffer is flushed; a reset's history is added.                      *)

LEMMA FlushGrows ==
  ASSUME IInv, server = "up", stage \in Current, stage' \in Current,
         UNCHANGED <<server, journal, cur, old, count>>,
         NEW f, f \in Flushed(disk[cur]) \/ f = disk[cur],
         disk' = [disk EXCEPT ![cur] = f]
  PROVE  /\ Grows /\ disk'[cur].msgs = disk[cur].msgs
         /\ disk'[cur].first = disk[cur].first
         /\ \A bs : Tiles(bs, disk[cur]) /\ Cached(bs, disk[cur]) =>
                    Tiles(bs, disk'[cur]) /\ Cached(bs, disk'[cur])
<1>1. /\ cur \in File /\ disk[cur] \in Recording
      /\ disk[cur].safe \in Nat /\ Len(disk[cur].msgs) \in Nat
      /\ disk[cur].safe <= Len(disk[cur].msgs)
      /\ disk \in [File -> Recording]
  BY CurrentFile DEF IInv, TypeOK
<1>2. disk'[cur] = f
  BY <1>1
<1>3. /\ f \in Recording /\ f.msgs = disk[cur].msgs
      /\ f.first = disk[cur].first /\ f.there = disk[cur].there
      /\ f.head = disk[cur].head
      /\ f.safe = disk[cur].safe \/ f.safe = Len(disk[cur].msgs)
  BY <1>1, FlushedIs
<1>4. disk[cur].safe <= f.safe /\ f.safe <= Len(f.msgs)
  BY <1>1, <1>3
<1>5. count' \in [msgs : 0..MaxMessages, resets : 0..MaxResets,
                  restarts : 0..MaxRestarts]
  BY DEF IInv, TypeOK
<1>6. Grows
  BY <1>1, <1>2, <1>3, <1>4, <1>5 DEF Grows
<1> QED BY <1>2, <1>3, <1>6, TilesSame

LEMMA FlushKeeps ==
  ASSUME IInv, Flush
  PROVE  IInv'
<1>1. /\ server = "up" /\ stage = "idle" /\ stage' = "idle" /\ image = <<>>
      /\ image' = <<>> /\ clients' = clients /\ pos' = pos /\ got' = got
      /\ blocks' = blocks /\ UNCHANGED <<server, journal, cur, old, count>>
  BY DEF Flush, Reading, memory, IInv, StageOK
<1>2. PICK f \in Flushed(disk[cur]) : disk' = [disk EXCEPT ![cur] = f]
  BY DEF Flush
<1>3. /\ Grows /\ disk'[cur].msgs = disk[cur].msgs
      /\ \A bs : Tiles(bs, disk[cur]) /\ Cached(bs, disk[cur]) =>
                 Tiles(bs, disk'[cur]) /\ Cached(bs, disk'[cur])
  BY <1>1, <1>2, FlushGrows DEF Current
<1>4. Tiles(blocks', disk'[cur]) /\ Cached(blocks', disk'[cur])
  BY <1>1, <1>3 DEF IInv, BlocksOK, Current
<1>5. /\ blocks' \in Seq(Block) /\ image' \in Seq(Message)
      /\ pos' \in [User -> Int] /\ got' \in [User -> Seq(Message)]
      /\ clients' \in Seq(User)
  BY <1>1 DEF IInv, TypeOK, Block
<1>6. Delivered'
  BY <1>1, <1>3, <1>5, GrowsDelivered
<1>7. /\ Present(disk'[cur].msgs \o image') = Online'
      /\ \A i, j \in 1..Len(clients') : clients'[i] = clients'[j] => i = j
  BY <1>1, <1>3 DEF IInv, UsersOK, Coming, Current, Online
<1> QED BY <1>1, <1>3, <1>4, <1>5, <1>6, <1>7, GrowsKeeps

\* Moving a message from one sequence to the other keeps them together.
LEMMA AppendHead ==
  ASSUME NEW S, NEW s \in Seq(S), NEW t \in Seq(S), t # <<>>
  PROVE  Append(s, Head(t)) \o Tail(t) = s \o t
<1>1. Head(t) \in S /\ Tail(t) \in Seq(S) /\ <<Head(t)>> \in Seq(S)
  BY HeadTailProperties
<1>2. Append(s, Head(t)) = s \o <<Head(t)>>
  BY <1>1, AppendIsConcat
<1>3. (s \o <<Head(t)>>) \o Tail(t) = s \o (<<Head(t)>> \o Tail(t))
  BY <1>1, ConcatAssociative
<1>4. <<Head(t)>> \o Tail(t) = t
  <2> DEFINE x == <<Head(t)>> \o Tail(t)
  <2>1. Len(t) \in Nat /\ Len(t) > 0
    BY LenProperties, EmptySeq
  <2>2. /\ Len(Tail(t)) = Len(t) - 1 /\ Head(t) = t[1]
        /\ \A i \in 1..Len(Tail(t)) : Tail(t)[i] = t[i + 1]
    BY HeadTailProperties
  <2>3. /\ x \in Seq(S) /\ Len(x) = 1 + Len(Tail(t))
        /\ \A i \in 1..(1 + Len(Tail(t))) :
             x[i] = IF i <= 1 THEN <<Head(t)>>[i] ELSE Tail(t)[i - 1]
    <3>1. Len(<<Head(t)>>) = 1
      OBVIOUS
    <3> QED BY <1>1, <3>1, ConcatProperties
  <2>4. Len(x) = Len(t)
    BY <2>1, <2>2, <2>3
  <2>5. ASSUME NEW i \in 1..Len(x) PROVE x[i] = t[i]
    <3>1. i \in 1..(1 + Len(Tail(t)))
      BY <2>3
    <3>2. CASE i = 1
      <4>1. <<Head(t)>>[1] = t[1]
        BY <2>2
      <4> QED BY <2>3, <3>1, <3>2, <4>1
    <3>3. CASE i # 1
      <4>1. i - 1 \in 1..Len(Tail(t)) /\ ~(i <= 1) /\ (i - 1) + 1 = i
        BY <2>1, <2>2, <3>1, <3>3
      <4> HIDE DEF x
      <4> QED BY <2>2, <2>3, <3>1, <4>1
    <3> QED BY <3>2, <3>3
  <2> HIDE DEF x
  <2>6. x = t
    BY <2>3, <2>4, <2>5, SeqEqual
  <2> QED BY <2>6 DEF x
<1> QED BY <1>2, <1>3, <1>4

LEMMA AddImageKeeps ==
  ASSUME IInv, AddImage
  PROVE  IInv' /\ Grows /\ got' = got
<1> DEFINE m == Head(image)
<1>1. /\ server = "up" /\ stage = "filling" /\ stage \in Current
      /\ image # <<>> /\ image \in Seq(Message)
      /\ HistoryAdd(m) /\ image' = Tail(image)
      /\ clients' = clients /\ pos' = pos /\ got' = got
      /\ UNCHANGED <<server, journal, cur, old, count>>
  BY DEF AddImage, Current, IInv, StageOK, TypeOK
<1>2. /\ stage' \in {"filling", "idle"}
      /\ stage' = "filling" => image' # <<>>
      /\ stage' = "idle" => image' = <<>>
  BY <1>1 DEF AddImage
<1>3. m \in Message /\ image' \in Seq(Message)
  BY <1>1, HeadTailProperties
<1>4. /\ cur \in File /\ disk[cur].msgs \in Seq(Message)
      /\ disk[cur].safe <= Len(disk[cur].msgs)
      /\ Tiles(blocks, disk[cur]) /\ Cached(blocks, disk[cur]) /\ TypeOK
  BY <1>1, CurrentFile DEF IInv, BlocksOK
<1> HIDE DEF m
<1>5. /\ disk' = [disk EXCEPT ![cur] = disk'[cur]]
      /\ disk'[cur] \in Recording
      /\ disk'[cur].msgs = Append(disk[cur].msgs, m)
      /\ disk'[cur].first = disk[cur].first
      /\ disk'[cur].there = disk[cur].there
      /\ disk'[cur].head = disk[cur].head
      /\ disk[cur].safe <= disk'[cur].safe
      /\ disk'[cur].safe <= Len(disk'[cur].msgs)
      /\ blocks' \in Seq(Block)
      /\ Tiles(blocks', disk'[cur]) /\ Cached(blocks', disk'[cur])
  BY <1>1, <1>3, <1>4, HistoryAddKeeps
<1>6. /\ Len(disk[cur].msgs) <= Len(disk'[cur].msgs)
      /\ \A i \in 1..Len(disk[cur].msgs) :
           disk'[cur].msgs[i] = disk[cur].msgs[i]
  BY <1>3, <1>4, <1>5, LenAppend
<1>7. Grows
  <2>1. stage' \in Current
    BY <1>2 DEF Current
  <2>2. count' \in [msgs : 0..MaxMessages, resets : 0..MaxResets,
                    restarts : 0..MaxRestarts]
    BY <1>1 DEF IInv, TypeOK
  <2> QED BY <1>1, <1>5, <1>6, <2>1, <2>2 DEF Grows
<1>8. pos' \in [User -> Int] /\ got' \in [User -> Seq(Message)]
      /\ clients' \in Seq(User)
  BY <1>1 DEF IInv, TypeOK
<1>9. Delivered'
  BY <1>1, <1>7, <1>8, GrowsDelivered
<1>10. disk'[cur].msgs \o image' = disk[cur].msgs \o image
  BY <1>1, <1>4, <1>5, AppendHead DEF m
<1>11. /\ Present(disk'[cur].msgs \o image') = Online'
       /\ \A i, j \in 1..Len(clients') : clients'[i] = clients'[j] => i = j
  BY <1>1, <1>10 DEF IInv, UsersOK, Coming, Online
<1> QED BY <1>1, <1>2, <1>3, <1>5, <1>7, <1>8, <1>9, <1>11, GrowsKeeps

-----------------------------------------------------------------------------
(* Sending a batch.                                                        *)

LEMMA MinExists ==
  ASSUME NEW S, S \subseteq Nat, S # {}
  PROVE  \E m \in S : \A k \in S : m <= k
<1> DEFINE R == OpToRel(<, Nat)
<1>1. IsWellFoundedOn(R, Nat)
  BY NatLessThanWellFounded
<1>2. PICK m \in S : \A k \in S : ~(<<k, m>> \in R)
  BY <1>1, WFMin
<1>3. \A k \in S : ~(k < m)
  BY <1>2 DEF OpToRel
<1>4. m \in Nat /\ \A k \in S : k \in Nat
  OBVIOUS
<1>5. \A k \in S : m <= k
  BY <1>3, <1>4
<1> QED BY <1>5

LEMMA MaxExists ==
  ASSUME NEW n \in Nat, NEW S, S \subseteq 1..n, S # {}
  PROVE  \E m \in S : \A k \in S : k <= m
<1> DEFINE T == {n - k : k \in S}
<1>1. T \subseteq Nat /\ T # {}
  <2>1. \A k \in S : n - k \in Nat
    OBVIOUS
  <2>2. T \subseteq Nat
    BY <2>1
  <2>3. T # {}
    BY Zenon
  <2> QED BY <2>2, <2>3
<1> HIDE DEF T
<1>2. PICK d \in T : \A k \in T : d <= k
  BY <1>1, MinExists
<1>3. PICK m \in S : d = n - m
  BY DEF T
<1>4. \A k \in S : n - m <= n - k
  BY <1>2, <1>3 DEF T
<1>5. \A k \in S : k <= m
  BY <1>4
<1> QED BY <1>5

\* getBatch's block: all before it have been sent, and it has not, unless it
\* is the last.
LEMMA BlockAfterIs ==
  ASSUME NEW bs \in Seq(Block), bs = blocks, blocks # <<>>, NEW p \in Int
  PROVE  /\ BlockAfter(p) \in 1..Len(blocks)
         /\ BlockAfter(p) = 1 \/ EndOf(BlockAfter(p) - 1) <= p
         /\ BlockAfter(p) = Len(blocks) \/ EndOf(BlockAfter(p)) > p
<1> DEFINE n == Len(blocks)
           S == {i \in 1..n : i = 1 \/ EndOf(i - 1) <= p}
           Is(i) == /\ i = 1 \/ EndOf(i - 1) <= p
                    /\ \A j \in (i + 1)..n : EndOf(j - 1) > p
           b == BlockAfter(p)
<1>1. n \in Nat /\ n > 0
  BY LenProperties, EmptySeq
<1>2. \A i \in 1..n : EndOf(i) \in Int
  <2>1. \A i \in 1..n : blocks[i] \in Block
    BY ElementOfSeq
  <2>2. \A i \in 1..n : blocks[i].start \in Nat /\ blocks[i].count \in Nat
    BY <2>1 DEF Block
  <2> QED BY <2>2 DEF EndOf
<1>3. PICK m \in S : \A k \in S : k <= m
  <2>1. 1 \in S
    BY <1>1
  <2>2. S \subseteq 1..n /\ S # {}
    BY <2>1
  <2> HIDE DEF S, n
  <2> QED BY <1>1, <2>2, MaxExists
<1>4. m \in 1..n /\ Is(m)
  <2>1. m \in 1..n /\ (m = 1 \/ EndOf(m - 1) <= p)
    BY <1>3
  <2>2. ASSUME NEW j \in (m + 1)..n PROVE EndOf(j - 1) > p
    <3>1. j \in 1..n /\ ~(j <= m) /\ j # 1 /\ j - 1 \in 1..n
      BY <1>1, <2>1
    <3>2. j \notin S
      BY <1>3, <3>1
    <3>3. ~(EndOf(j - 1) <= p)
      BY <3>1, <3>2
    <3>4. EndOf(j - 1) \in Int
      BY <1>2, <3>1
    <3> QED BY <3>3, <3>4
  <2> QED BY <2>1, <2>2
<1>5. b = CHOOSE i \in 1..n : Is(i)
  BY DEF BlockAfter
<1> HIDE DEF Is, b, n, S
<1>6. b \in 1..n /\ Is(b)
  BY <1>4, <1>5, Zenon
<1>7. b = n \/ EndOf(b) > p
  <2> SUFFICES ASSUME b # n PROVE EndOf(b) > p
    OBVIOUS
  <2>1. b + 1 \in (b + 1)..n /\ (b + 1) - 1 = b
    BY <1>1, <1>6
  <2>2. EndOf((b + 1) - 1) > p
    BY <1>6, <2>1 DEF Is
  <2> QED BY <2>1, <2>2
<1> QED BY <1>6, <1>7 DEF Is, b, n

\* Where a client is in the block it reads: what it has been sent ends in the
\* block or just before it.
LEMMA BatchOffset ==
  ASSUME IInv, Reading, NEW u \in User
  PROVE  LET r == disk[cur]
             i == BlockAfter(pos[u])
             b == blocks[i]
             offset == IF pos[u] - b.start + 1 > 0
                       THEN pos[u] - b.start + 1 ELSE 0
         IN  /\ i \in 1..Len(blocks)
             /\ b.start \in Nat /\ b.count \in Nat
             /\ r.first \in Nat /\ Len(r.msgs) \in Nat
             /\ r.first <= b.start /\ b.start + b.count <= EndIndex(r)
             /\ offset \in 0..b.count
             /\ Taken(u, r) = b.start - r.first + offset
             /\ pos[u] < LastIndex => EndOf(i) > pos[u]
<1> DEFINE r == disk[cur]
           p == pos[u]
           i == BlockAfter(p)
           b == blocks[i]
           offset == IF p - b.start + 1 > 0 THEN p - b.start + 1 ELSE 0
<1>1. /\ Named = r /\ r \in Recording /\ Tiles(blocks, r)
      /\ blocks \in Seq(Block) /\ p \in Int /\ p < EndIndex(r)
  BY CurrentFile DEF IInv, Reading, Current, BlocksOK, TypeOK, Delivered, Block
<1> HIDE DEF r, p
<1>2. /\ i \in 1..Len(blocks)
      /\ i = 1 \/ EndOf(i - 1) <= p
      /\ i = Len(blocks) \/ EndOf(i) > p
  BY <1>1, BlockAfterIs DEF Tiles
<1> HIDE DEF i
<1>3. /\ b.start \in Nat /\ b.count \in Nat
      /\ r.first \in Nat /\ Len(r.msgs) \in Nat /\ Len(blocks) \in Nat
      /\ r.first <= b.start /\ b.start + b.count <= EndIndex(r)
  BY <1>1, <1>2, TileBounds
<1>4. b.start = r.first \/ b.start <= p + 1
  <2>1. CASE i = 1
    BY <1>1, <2>1 DEF Tiles
  <2>2. CASE i # 1
    <3>1. i - 1 \in 1..(Len(blocks) - 1) /\ i - 1 \in 1..Len(blocks)
          /\ (i - 1) + 1 = i
      BY <1>2, <1>3, <2>2
    <3>2. b.start = blocks[i - 1].start + blocks[i - 1].count
      BY <1>1, <3>1 DEF Tiles
    <3>3. blocks[i - 1].start \in Nat /\ blocks[i - 1].count \in Nat
      BY <1>1, <3>1, TileBounds
    <3>4. blocks[i - 1].start + blocks[i - 1].count - 1 <= p
      BY <1>2, <2>2 DEF EndOf
    <3> QED BY <1>1, <3>2, <3>3, <3>4
  <2> QED BY <2>1, <2>2
<1>5. p <= b.start + b.count - 1
  <2>1. CASE i = Len(blocks)
    <3>1. b.start + b.count = EndIndex(r)
      BY <1>1, <2>1 DEF Tiles
    <3> QED BY <1>1, <1>3, <3>1
  <2>2. CASE EndOf(i) > p
    <3>1. b.start + b.count - 1 > p
      BY <2>2 DEF EndOf
    <3> QED BY <1>1, <1>3, <3>1
  <2> QED BY <1>2, <2>1, <2>2
<1>6. p < LastIndex => EndOf(i) > p
  <2> SUFFICES ASSUME p < LastIndex PROVE EndOf(i) > p
    OBVIOUS
  <2>1. CASE i = Len(blocks)
    <3>1. b.start + b.count = r.first + Len(r.msgs)
      BY <1>1, <2>1 DEF Tiles, EndIndex
    <3>2. p < r.first + Len(r.msgs) - 1 /\ p \in Int
      BY <1>1 DEF LastIndex, r
    <3>3. b.start + b.count - 1 > p
      <4> DEFINE e == b.start + b.count
      <4>0. e \in Int /\ e = r.first + Len(r.msgs)
        BY <1>3, <3>1
      <4>1. p < e - 1 /\ b.start + b.count - 1 = e - 1
        <5>1. r.first + Len(r.msgs) - 1 = (r.first + Len(r.msgs)) - 1
          BY <1>3
        <5>2. \A x, y \in Nat : x + y - 1 = (x + y) - 1
          OBVIOUS
        <5>3. b.start + b.count - 1 = (b.start + b.count) - 1
          BY <1>3, <5>2, Zenon
        <5> QED BY <3>2, <4>0, <5>1, <5>3
      <4> HIDE DEF e
      <4>2. e - 1 > p
        BY <3>2, <4>0, <4>1
      <4> QED BY <4>1, <4>2
    <3> QED BY <3>3 DEF EndOf
  <2> QED BY <1>2, <2>1
<1>7. Taken(u, r) = IF p < r.first THEN 0 ELSE p - r.first + 1
  BY DEF Taken, p
<1> HIDE DEF b
<1>8. offset \in 0..b.count /\ Taken(u, r) = b.start - r.first + offset
  <2> DEFINE s == b.start
             c == b.count
             f == r.first
  <2>1. /\ p \in Int /\ s \in Nat /\ c \in Nat /\ f \in Nat
        /\ f <= s /\ (s = f \/ s <= p + 1) /\ p <= s + c - 1
    BY <1>1, <1>3, <1>4, <1>5
  <2> HIDE DEF s, c, f
  <2>2. /\ (IF p - s + 1 > 0 THEN p - s + 1 ELSE 0) \in 0..c
        /\ (IF p < f THEN 0 ELSE p - f + 1)
             = s - f + (IF p - s + 1 > 0 THEN p - s + 1 ELSE 0)
    BY <2>1
  <2> QED BY <1>7, <2>2 DEF s, c, f
<1> QED BY <1>2, <1>3, <1>6, <1>8 DEF r, p, i, b

\* The rest of a block continues what comes before it.
LEMMA RestOfBlock ==
  ASSUME NEW S, NEW m \in Seq(S), NEW from \in Nat, NEW c \in Nat,
         from + c <= Len(m), NEW o \in Nat, o < c,
         NEW block \in Seq(S), Len(block) = c,
         \A k \in 1..c : block[k] = m[from + k]
  PROVE  SubSeq(m, 1, from + o) \o SubSeq(block, o + 1, Len(block))
           = SubSeq(m, 1, from + c)
<1>1. Len(m) \in Nat
  BY LenProperties
<1> DEFINE x == SubSeq(block, o + 1, c)
           y == SubSeq(m, from + o + 1, from + c)
<1>2. /\ x \in Seq(S) /\ Len(x) = c - o
      /\ \A k \in 1..(c - o) : x[k] = block[o + k]
  <2>1. \A k \in (o + 1)..c : block[k] \in S
    <3>1. \A k \in (o + 1)..c : k \in 1..Len(block)
      OBVIOUS
    <3> QED BY <3>1, ElementOfSeq
  <2>2. /\ x \in Seq(S)
        /\ Len(x) = IF o + 1 <= c THEN c - (o + 1) + 1 ELSE 0
        /\ \A k \in 1..(c - (o + 1) + 1) : x[k] = block[(o + 1) + k - 1]
    BY <2>1, SubSeqProperties
  <2>3. c - (o + 1) + 1 = c - o /\ o + 1 <= c
        /\ \A k \in 1..(c - o) : (o + 1) + k - 1 = o + k
    OBVIOUS
  <2> HIDE DEF x
  <2> QED BY <2>2, <2>3
<1>3. /\ y \in Seq(S) /\ Len(y) = c - o
      /\ \A k \in 1..(c - o) : y[k] = m[from + (o + k)]
  <2> DEFINE a == from + o + 1
             e == from + c
  <2>1. \A k \in a..e : m[k] \in S
    <3>1. \A k \in a..e : k \in 1..Len(m)
      BY <1>1
    <3> QED BY <3>1, ElementOfSeq
  <2>2. a \in Nat /\ e \in Nat
    OBVIOUS
  <2>3. e - a + 1 = c - o /\ a <= e
        /\ \A k \in 1..(c - o) : a + k - 1 = from + (o + k)
    OBVIOUS
  <2>4. y = SubSeq(m, a, e)
    OBVIOUS
  <2> HIDE DEF y, a, e
  <2>5. /\ y \in Seq(S) /\ Len(y) = IF a <= e THEN e - a + 1 ELSE 0
        /\ \A k \in 1..(e - a + 1) : y[k] = m[a + k - 1]
    BY <2>1, <2>2, <2>4, SubSeqProperties
  <2> QED BY <2>3, <2>5
<1>4. \A k \in 1..(c - o) : o + k \in 1..c
  OBVIOUS
<1>5. x = y
  <2> HIDE DEF x, y
  <2>1. x \in Seq(S) /\ y \in Seq(S) /\ Len(x) = Len(y) /\ Len(x) = c - o
    BY <1>2, <1>3
  <2>2. \A k \in 1..Len(x) : x[k] = y[k]
    BY <1>2, <1>3, <1>4, <2>1
  <2> QED BY <2>1, <2>2, SeqEqual
<1>6. SubSeq(m, 1, from + o) \o y = SubSeq(m, 1, from + c)
  <2>1. /\ 1 \in 1..(Len(m) + 1) /\ from + o \in (1 - 1)..Len(m)
        /\ from + c \in (from + o)..Len(m)
    BY <1>1
  <2> QED BY <2>1, ConcatAdjacentSubSeq
<1> QED BY <1>5, <1>6

\* A batch is what comes next in the log, up to the end of a block.
LEMMA SendKeeps ==
  ASSUME IInv, NEW u \in User, SendNextHistoryBatch(u)
  PROVE  /\ IInv' /\ Grows
         /\ \A v \in User : v # u => got'[v] = got[v]
         /\ Taken(u, Named) <= Taken(u, Named)'
<1> DEFINE r == disk[cur]
           p == pos[u]
           i == BlockAfter(p)
           b == blocks[i]
           offset == IF p - b.start + 1 > 0 THEN p - b.start + 1 ELSE 0
           fresh == offset < b.count /\ b.cache = <<>>
           cache == IF fresh THEN Load(b) ELSE b.cache
           bs == [blocks EXCEPT ![i].cache = cache]
           moved == [pos EXCEPT ![u] = EndOf(i)]
           part == SubSeq(cache, offset + 1, Len(cache))
           sent == b.start - r.first + b.count
<1>1. /\ Reading /\ u \in Online /\ pos' = moved
      /\ got' = [got EXCEPT ![u] = IF offset < b.count
                                    THEN got[u] \o part ELSE got[u]]
      /\ blocks' = CleanupBatches(bs, MinPosition(moved))
      /\ UNCHANGED <<server, journal, cur, old, stage, image, clients, count>>
      /\ \E f \in IF fresh THEN Flushed(r) ELSE {r} :
           disk' = [disk EXCEPT ![cur] = f]
  BY DEF SendNextHistoryBatch
<1>2. /\ server = "up" /\ stage = "idle" /\ stage \in Current /\ stage' = "idle"
      /\ image = <<>> /\ image' = <<>>
  BY <1>1 DEF Reading, Current, IInv, StageOK
<1>3. /\ Named = r /\ r \in Recording /\ r.msgs \in Seq(Message)
      /\ blocks \in Seq(Block) /\ Tiles(blocks, r) /\ Cached(blocks, r)
      /\ pos \in [User -> Int] /\ got \in [User -> Seq(Message)]
      /\ p \in Int /\ got[u] = SubSeq(r.msgs, 1, Taken(u, r))
  BY <1>2, CurrentFile DEF IInv, BlocksOK, TypeOK, Delivered, Block
<1>4. /\ i \in 1..Len(blocks)
      /\ b.start \in Nat /\ b.count \in Nat
      /\ r.first \in Nat /\ Len(r.msgs) \in Nat
      /\ r.first <= b.start /\ b.start + b.count <= EndIndex(r)
      /\ offset \in 0..b.count
      /\ Taken(u, r) = b.start - r.first + offset
  BY <1>1, BatchOffset
<1>5. PICK f : /\ f \in Flushed(r) \/ f = r
               /\ disk' = [disk EXCEPT ![cur] = f]
  BY <1>1
<1>6. /\ Grows /\ disk'[cur].msgs = r.msgs /\ disk'[cur].first = r.first
      /\ \A cs : Tiles(cs, r) /\ Cached(cs, r) =>
                 Tiles(cs, disk'[cur]) /\ Cached(cs, disk'[cur])
  BY <1>1, <1>2, <1>5, FlushGrows
<1>7. cache = b.cache \/ cache = Stretch(r, b)
  BY DEF Load, Stretch
<1>8. offset < b.count => cache = Stretch(r, b)
  <2>1. b.cache # <<>> => b.cache = Stretch(r, b)
    BY <1>3, <1>4 DEF Cached
  <2> QED BY <2>1 DEF Load, Stretch
<1> HIDE DEF cache
<1>9. blocks' \in Seq(Block) /\ Tiles(blocks', r) /\ Cached(blocks', r)
  <2>1. bs \in Seq(Block) /\ Tiles(bs, r) /\ Cached(bs, r)
    <3> HIDE DEF i, r
    <3> QED BY <1>3, <1>4, <1>7, LoadTiles
  <2> HIDE DEF bs, r
  <2> QED BY <1>1, <1>3, <2>1, CleanupTiles
<1>10. /\ Stretch(r, b) \in Seq(Message) /\ Len(Stretch(r, b)) = b.count
       /\ \A k \in 1..b.count :
            Stretch(r, b)[k] = r.msgs[b.start - r.first + k]
  BY <1>3, <1>4, StretchType
<1>11. b.start - r.first \in Nat /\ b.start - r.first + b.count <= Len(r.msgs)
       /\ offset \in Nat /\ offset <= b.count
  BY <1>4 DEF EndIndex
<1>12. got'[u] = SubSeq(r.msgs, 1, sent)
  <2>1. CASE offset < b.count
    <3>1. got'[u] = got[u] \o part
      BY <1>1, <1>3, <2>1
    <3>2. SubSeq(r.msgs, 1, b.start - r.first + offset) \o part
            = SubSeq(r.msgs, 1, b.start - r.first + b.count)
      <4> DEFINE msgs == r.msgs
                 from == b.start - r.first
                 c == b.count
                 o == offset
      <4>1. /\ msgs \in Seq(Message) /\ from \in Nat /\ c \in Nat
            /\ from + c <= Len(msgs) /\ o \in Nat /\ o < c
            /\ cache \in Seq(Message) /\ Len(cache) = c
            /\ \A k \in 1..c : cache[k] = msgs[from + k]
        BY <1>3, <1>4, <1>8, <1>10, <1>11, <2>1
      <4> HIDE DEF msgs, from, c, o
      <4>2. SubSeq(msgs, 1, from + o) \o SubSeq(cache, o + 1, Len(cache))
              = SubSeq(msgs, 1, from + c)
        BY <4>1, RestOfBlock
      <4> QED BY <4>2 DEF msgs, from, c, o
    <3> QED BY <1>3, <1>4, <3>1, <3>2
  <2>2. CASE ~(offset < b.count)
    <3>1. got'[u] = got[u]
      BY <1>1, <1>3, <2>2
    <3>2. offset = b.count
      <4> HIDE DEF offset
      <4> QED BY <1>4, <1>11, <2>2
    <3> QED BY <1>3, <1>4, <3>1, <3>2
  <2> QED BY <2>1, <2>2
<1>13. pos'[u] = b.start + b.count - 1
  BY <1>1, <1>3 DEF EndOf
<1>14. /\ pos'[u] \in Int /\ pos'[u] < EndIndex(r)
       /\ sent = IF pos'[u] < r.first THEN 0 ELSE pos'[u] - r.first + 1
  <2> DEFINE s == b.start
             c == b.count
             g == r.first
  <2> HIDE DEF s, c, g
  <2>1. s \in Nat /\ c \in Nat /\ g \in Nat /\ g <= s
    BY <1>4 DEF s, c, g
  <2>2. /\ s + c - 1 \in Int /\ s + c - 1 < s + c
        /\ s - g + c = IF s + c - 1 < g THEN 0 ELSE (s + c - 1) - g + 1
    BY <2>1
  <2>3. EndIndex(r) \in Nat /\ s + c <= EndIndex(r)
    BY <1>4 DEF s, c, EndIndex
  <2>4. s + c - 1 < EndIndex(r)
    BY <2>1, <2>2, <2>3
  <2> QED BY <1>13, <2>2, <2>4 DEF s, c, g
<1> HIDE DEF r, b, offset, part, moved, sent, bs, fresh
<1>15. /\ \A v \in User : v # u => pos'[v] = pos[v] /\ got'[v] = got[v]
       /\ pos' \in [User -> Int]
  BY <1>1, <1>3, <1>14 DEF moved, EndOf
<1>16. got' \in [User -> Seq(Message)]
  <2>1. got'[u] \in Seq(Message)
    <3>1. sent \in 0..Len(r.msgs)
      BY <1>4, <1>11 DEF sent
    <3>2. \A k \in 1..sent : r.msgs[k] \in Message
      <4>1. \A k \in 1..sent : k \in 1..Len(r.msgs)
        BY <1>4, <3>1
      <4> QED BY <1>3, <4>1, ElementOfSeq
    <3>3. sent \in Int /\ 1 \in Int
      BY <3>1
    <3>4. SubSeq(r.msgs, 1, sent) \in Seq(Message)
      BY <3>2, <3>3, SubSeqProperties
    <3> QED BY <1>12, <3>4
  <2>2. got' = [got EXCEPT ![u] = got'[u]]
    BY <1>1, <1>3
  <2> QED BY <1>3, <2>1, <2>2
<1>17. Delivered'
  <2>1. Named' = disk'[cur] /\ EndIndex(disk'[cur]) = EndIndex(r)
    BY <1>6, GrowsFiles DEF EndIndex
  <2> SUFFICES ASSUME NEW v \in User
               PROVE  /\ pos'[v] < EndIndex(r)
                      /\ got'[v] = SubSeq(r.msgs, 1,
                           IF pos'[v] < r.first THEN 0
                           ELSE pos'[v] - r.first + 1)
    BY <1>6, <2>1 DEF Delivered, Taken
  <2>2. CASE v = u
    BY <1>12, <1>14, <2>2
  <2>3. CASE v # u
    <3>1. pos'[v] = pos[v] /\ got'[v] = got[v]
      BY <1>15, <2>3
    <3>2. pos[v] < EndIndex(r) /\ got[v] = SubSeq(r.msgs, 1, Taken(v, r))
      BY <1>3 DEF IInv, Delivered
    <3> QED BY <3>1, <3>2 DEF Taken
  <2> QED BY <2>2, <2>3
<1>18. IInv'
  <2>1. Tiles(blocks', disk'[cur]) /\ Cached(blocks', disk'[cur])
    BY <1>6, <1>9
  <2>2. /\ Present(disk'[cur].msgs \o image') = Online'
        /\ \A k, j \in 1..Len(clients') : clients'[k] = clients'[j] => k = j
    <3>1. disk'[cur].msgs \o image' = Coming
      BY <1>2, <1>6 DEF Coming, r
    <3>2. Online' = Online /\ clients' = clients
      BY <1>1 DEF Online
    <3> QED BY <1>2, <3>1, <3>2 DEF IInv, UsersOK
  <2>3. clients' \in Seq(User) /\ image' \in Seq(Message)
    BY <1>1, <1>2 DEF IInv, TypeOK
  <2> QED BY <1>2, <1>6, <1>9, <1>15, <1>16, <1>17, <2>1, <2>2, <2>3, GrowsKeeps
<1>19. Taken(u, Named) <= Taken(u, Named)'
  <2>1. Taken(u, Named) = b.start - r.first + offset
    BY <1>3, <1>4
  <2>2. Taken(u, Named)' = sent
    <3>1. Named' = disk'[cur]
      BY <1>6, GrowsFiles
    <3> QED BY <1>6, <1>14, <3>1 DEF Taken
  <2> QED BY <1>4, <1>11, <2>1, <2>2 DEF sent
<1> QED BY <1>6, <1>15, <1>18, <1>19

-----------------------------------------------------------------------------
(* A reset, step by step.                                                  *)

\* The image begins with those who are there, and brings nobody else.
LEMMA ImageIs ==
  ASSUME IInv
  PROVE  LET img == [i \in 1..Len(clients) |-> Msg("Join", clients[i])]
                      \o <<Msg("Image", 0)>>
         IN  img \in Seq(Message) /\ Present(img) = Online
<1> DEFINE joins == [i \in 1..Len(clients) |-> Msg("Join", clients[i])]
           m == Msg("Image", 0)
<1>1. clients \in Seq(User) /\ Len(clients) \in Nat
  BY OnlineIs
<1>2. m \in Message /\ m.t = "Image"
  BY MsgType
<1>3. \A i \in 1..Len(clients) : Msg("Join", clients[i]) \in Message
  <2>1. \A i \in 1..Len(clients) : clients[i] \in User
    BY <1>1, ElementOfSeq
  <2> QED BY <2>1, MsgType
<1>4. joins \in Seq(Message)
  BY <1>1, <1>3
<1>5. Present(joins) = Online
  BY <1>1, PresentJoins DEF Msg, Online
<1> HIDE DEF joins, m
<1>6. joins \o <<m>> = Append(joins, m)
  BY <1>2, <1>4, AppendIsConcat
<1>7. Append(joins, m) \in Seq(Message) /\ Present(Append(joins, m)) = Online
  BY <1>2, <1>4, <1>5, LenAppend, PresentAppend
<1> QED BY <1>6, <1>7 DEF joins, m

LEMMA ResetKeeps ==
  ASSUME IInv, Reset
  PROVE  /\ IInv' /\ got' = got
         /\ Named'.msgs = Named.msgs /\ Named'.first = Named.first
         /\ Named'.safe = Len(Named.msgs)
<1>1. /\ server = "up" /\ stage = "idle" /\ stage \in Current
      /\ stage' = "create" /\ server' = "up"
      /\ count.resets < MaxResets
      /\ count' = [count EXCEPT !.resets = count.resets + 1]
      /\ UNCHANGED <<journal, cur, old, blocks, clients, pos, got>>
  BY DEF Reset, Reading, memory, Current
<1>2. PICK f \in Flushed(disk[cur]) : disk' = [disk EXCEPT ![cur] = f]
  BY DEF Reset
<1>3. /\ cur \in File /\ cur = journal /\ cur # 0 /\ Named = disk[cur]
      /\ disk[cur] \in Recording /\ disk \in [File -> Recording]
      /\ Len(disk[cur].msgs) \in Nat
  BY <1>1, CurrentFile DEF IInv, StageOK, TypeOK
<1>4. /\ f \in Recording /\ f.safe = Len(disk[cur].msgs)
      /\ f.msgs = disk[cur].msgs /\ f.first = disk[cur].first
      /\ f.there = disk[cur].there /\ f.head = disk[cur].head
  BY <1>3, FlushedIs
<1>5. \A g \in File : disk'[g] = IF g = cur THEN f ELSE disk[g]
  BY <1>2, <1>3
<1>6. image' \in Seq(Message) /\ Present(image') = Online
  BY ImageIs DEF Reset
<1>7. /\ count' \in [msgs : 0..MaxMessages, resets : 0..MaxResets,
                     restarts : 0..MaxRestarts]
      /\ count'.resets = count.resets + 1
  <2>1. /\ count \in [msgs : 0..MaxMessages, resets : 0..MaxResets,
                      restarts : 0..MaxRestarts]
    BY DEF IInv, TypeOK
  <2>2. count.resets + 1 \in 0..MaxResets
    BY <1>1, <2>1, BoundAssumption
  <2> QED BY <1>1, <2>1, <2>2
<1>8. TypeOK'
  BY <1>1, <1>2, <1>3, <1>4, <1>6, <1>7 DEF TypeOK, IInv, Stages
<1>9. FilesOK'
  <2>1. Created' = Created
    BY <1>1, <1>7 DEF Created
  <2> QED BY <1>1, <1>3, <1>4, <1>5, <2>1 DEF FilesOK, IInv
<1>file. Named' = f
  BY <1>1, <1>3, <1>5 DEF Named
<1>10. Delivered'
  BY <1>1, <1>3, <1>4, <1>file DEF Delivered, IInv, Taken, EndIndex
<1>11. UsersOK'
  <2>1. Coming' = image' /\ Online' = Online /\ clients' = clients
    BY <1>1 DEF Coming, Current, Online
  <2>2. Present(Coming') = Online'
    BY <1>6, <2>1
  <2> QED BY <2>1, <2>2 DEF UsersOK, IInv
<1>12. DownOK' /\ BlocksOK' /\ LostOnlyWhenEmpty'
  BY <1>1 DEF DownOK, BlocksOK, Current, LostOnlyWhenEmpty
<1>13. StageOK'
  BY <1>1, <1>3 DEF StageOK, Current
<1> QED BY <1>1, <1>3, <1>4, <1>8, <1>9, <1>10, <1>11, <1>12, <1>13, <1>file DEF IInv

\* The name of a new recording is free, and higher than that of the old one.
LEMMA NewNameIs ==
  ASSUME IInv, stage = "create"
  PROVE  /\ NewName \in File /\ NewName > cur /\ ~disk[NewName].there
         /\ NewName <= count.resets + 1
<1> DEFINE S == {f \in File : f > cur /\ ~disk[f].there}
           n == count.resets + 1
           Is(f) == /\ f > cur /\ ~disk[f].there
                    /\ \A g \in (cur + 1)..(f - 1) : disk[g].there
<1>1. /\ MaxResets \in Nat /\ MaxRestarts \in Nat
      /\ count.resets \in 0..MaxResets /\ cur \in File \cup {0}
  BY BoundAssumption DEF IInv, TypeOK
<1>2. cur <= count.resets /\ \A f \in File : disk[f].there => f <= count.resets
  BY DEF IInv, FilesOK, Created
<1>3. n \in File /\ n > cur /\ ~(n <= count.resets) /\ cur \in Nat
  BY <1>1, <1>2 DEF File
<1>4. n \in S
  BY <1>2, <1>3
<1>5. \A f \in File : f \in Nat
  BY <1>1 DEF File
<1>6. PICK m \in S : \A k \in S : m <= k
  <2>1. S \subseteq Nat /\ S # {}
    BY <1>4, <1>5
  <2> HIDE DEF S
  <2> QED BY <2>1, MinExists
<1>7. m \in File /\ Is(m)
  <2>1. ASSUME NEW g \in (cur + 1)..(m - 1) PROVE disk[g].there
    <3>1. g \in File /\ g > cur /\ ~(m <= g)
      BY <1>1, <1>3, <1>5, <1>6 DEF File
    <3> QED BY <1>6, <3>1
  <2> QED BY <1>6, <2>1
<1>8. NewName = CHOOSE f \in File : Is(f)
  BY DEF NewName
<1> HIDE DEF Is
<1>9. NewName \in File /\ Is(NewName)
  BY <1>7, <1>8, Zenon
<1>10. NewName <= n
  <2> SUFFICES ASSUME ~(NewName <= n) PROVE FALSE
    OBVIOUS
  <2>1. n \in (cur + 1)..(NewName - 1)
    BY <1>3, <1>5, <1>9
  <2>2. disk[n].there
    BY <1>9, <2>1 DEF Is
  <2> QED BY <1>4, <2>2
<1> QED BY <1>9, <1>10 DEF Is

LEMMA EmptyRecordings ==
  /\ NoRecording \in Recording /\ NoRecording.first = 0
  /\ NoRecording.msgs = <<>> /\ NoRecording.safe = 0 /\ ~NoRecording.there
  /\ Len(NoRecording.msgs) = 0
BY EmptySeq DEF NoRecording, Recording

\* Named is a recording.
LEMMA NamedIs ==
  ASSUME IInv
  PROVE  /\ Named \in Recording /\ Named.msgs \in Seq(Message)
         /\ Len(Named.msgs) \in Nat /\ Named.first \in Nat
         /\ Named.safe \in Nat /\ Named.safe <= Len(Named.msgs)
         /\ EndIndex(Named) \in Nat
<1>1. CASE journal = 0
  <2>1. Named = NoRecording
    BY <1>1 DEF Named
  <2>2. Named.first + Len(Named.msgs) = 0
    BY <2>1, EmptyRecordings
  <2> QED BY <2>1, <2>2, EmptyRecordings, EmptySeq DEF EndIndex
<1>2. CASE journal # 0
  <2>1. journal \in File /\ disk[journal] \in Recording
    BY <1>2 DEF IInv, TypeOK
  <2>2. disk[journal].safe <= Len(disk[journal].msgs)
    BY <2>1 DEF IInv, FilesOK
  <2>3. Named = disk[journal]
    BY <1>2 DEF Named
  <2>4. Len(disk[journal].msgs) \in Nat
    BY <2>1, LenProperties DEF Recording
  <2> QED BY <2>1, <2>2, <2>3, <2>4 DEF Recording, EndIndex
<1> QED BY <1>1, <1>2

\* Until the journal names it, the new recording changes nothing for anyone.
LEMMA UnnamedKeeps ==
  ASSUME IInv, server = "up", stage \notin Current, stage' \notin Current,
         UNCHANGED <<server, journal, image, clients, pos, got, count, blocks>>,
         stage' \in Stages, cur' \in File, old' \in File \cup {0},
         disk' \in [File -> Recording], journal # 0 => disk'[journal] = disk[journal],
         FilesOK', StageOK'
  PROVE  IInv'
<1>1. TypeOK'
  BY DEF IInv, TypeOK
<1>2. Named' = Named
  BY DEF Named
<1>3. Delivered'
  BY <1>2 DEF IInv, Delivered, Taken
<1>4. UsersOK'
  BY DEF IInv, UsersOK, Coming, Online
<1>5. DownOK' /\ BlocksOK' /\ LostOnlyWhenEmpty'
  BY DEF DownOK, BlocksOK, LostOnlyWhenEmpty
<1> QED BY <1>1, <1>3, <1>4, <1>5 DEF IInv

LEMMA CreateFileKeeps ==
  ASSUME IInv, CreateFile
  PROVE  IInv' /\ UNCHANGED <<Named, got>>
<1> DEFINE new == NewName
           r == NewRecording
<1>1. /\ server = "up" /\ stage = "create" /\ stage' = "headless"
      /\ old' = cur /\ cur' = new /\ disk' = [disk EXCEPT ![new] = r]
      /\ UNCHANGED <<server, journal, blocks, image, clients, pos, got, count>>
  BY DEF CreateFile
<1>2. /\ new \in File /\ new > cur /\ ~disk[new].there
      /\ new <= count.resets + 1
  BY <1>1, NewNameIs
<1>3. /\ cur = journal /\ cur \in File \cup {0} /\ disk \in [File -> Recording]
      /\ count.resets \in 0..MaxResets
  BY <1>1 DEF IInv, StageOK, TypeOK
<1>4. new # 0 /\ new # cur /\ (journal # 0 => new # journal)
      /\ cur \in Nat /\ new \in Nat
  BY <1>2, <1>3, BoundAssumption DEF File
<1>5. NewFirstIndex = EndIndex(Named) /\ NewFirstIndex \in Nat
  <2>1. Named.first \in Nat /\ Len(Named.msgs) \in Nat
    BY NamedIs
  <2>2. CASE cur = 0
    <3>1. Named = NoRecording
      BY <1>3, <2>2 DEF Named
    <3>2. EndIndex(Named) = 0
      BY <3>1, EmptyRecordings DEF EndIndex
    <3> QED BY <2>2, <3>2 DEF NewFirstIndex
  <2>3. CASE cur # 0
    <3>1. Named = disk[cur]
      BY <1>3, <2>3 DEF Named
    <3>2. NewFirstIndex = (Named.first + Len(Named.msgs) - 1) + 1
      BY <2>3, <3>1 DEF NewFirstIndex, LastIndex
    <3> QED BY <2>1, <3>2 DEF EndIndex
  <2> QED BY <2>2, <2>3
<1>6. /\ r \in Recording /\ r.there /\ r.msgs = <<>> /\ r.safe = 0
      /\ Len(r.msgs) = 0 /\ r.first = EndIndex(Named)
  <2>1. r = [NoRecording EXCEPT !.there = TRUE, !.first = NewFirstIndex]
    BY DEF NewRecording
  <2> QED BY <1>5, <2>1, EmptySeq DEF NoRecording, Recording
<1> HIDE DEF new, r
<1>7. \A f \in File : disk'[f] = IF f = new THEN r ELSE disk[f]
  BY <1>1, <1>2, <1>3
<1>8. FilesOK'
  <2>1. Created' = count.resets + 1 /\ Created = count.resets
    BY <1>1 DEF Created
  <2>2. cur' <= Created'
    BY <1>1, <1>2, <2>1
  <2>3. \A f \in File : disk'[f].there => f <= Created'
    <3>1. \A f \in File : f \in Nat
      BY BoundAssumption DEF File
    <3>2. \A f \in File : disk[f].there => f <= count.resets
      BY <2>1 DEF IInv, FilesOK
    <3>3. \A f \in File : disk[f].there => f <= count.resets + 1
      BY <1>3, <3>1, <3>2, BoundAssumption
    <3> QED BY <1>2, <1>7, <2>1, <3>3
  <2>4. \A f \in File : disk'[f].safe <= Len(disk'[f].msgs)
    BY <1>6, <1>7 DEF IInv, FilesOK
  <2>5. journal' # 0 => disk'[journal'].there /\ disk'[journal'].head
    BY <1>1, <1>3, <1>4, <1>7 DEF IInv, FilesOK
  <2> QED BY <2>2, <2>3, <2>4, <2>5 DEF FilesOK
<1>9. (journal # 0 => disk'[journal] = disk[journal]) /\ Named' = Named
  BY <1>1, <1>3, <1>4, <1>7 DEF Named
<1>10. StageOK'
  <2>1. EndIndex(Named) \in Nat
    BY NamedIs
  <2>2. disk'[cur'] = r /\ r.first >= EndIndex(Named')
    BY <1>1, <1>2, <1>6, <1>7, <1>9, <2>1
  <2> QED BY <1>1, <1>3, <1>4, <1>6, <2>2 DEF StageOK, Current
<1>11. disk' \in [File -> Recording]
  BY <1>1, <1>3, <1>6
<1> QED BY <1>1, <1>2, <1>3, <1>8, <1>9, <1>10, <1>11, UnnamedKeeps
        DEF Current, Stages

LEMMA WriteHeaderKeeps ==
  ASSUME IInv, WriteHeader
  PROVE  IInv' /\ UNCHANGED <<Named, got>>
<1> DEFINE r == [disk[cur] EXCEPT !.head = TRUE]
<1>1. /\ server = "up" /\ stage = "headless" /\ stage' = "unnamed"
      /\ disk' = [disk EXCEPT ![cur].head = TRUE]
      /\ UNCHANGED <<server, journal, image, count, cur, old, blocks, clients,
                     pos, got>>
  BY DEF WriteHeader, memory
<1>2. /\ cur # 0 /\ old = journal /\ cur # journal
      /\ cur \in File \cup {0} /\ old \in File \cup {0}
      /\ disk \in [File -> Recording]
      /\ disk[cur].there /\ disk[cur].msgs = <<>> /\ disk[cur].safe = 0
      /\ disk[cur].first >= EndIndex(Named)
  BY <1>1 DEF IInv, StageOK, TypeOK
<1>3. cur \in File
  BY <1>2
<1>4. /\ r \in Recording /\ r.there = disk[cur].there /\ r.head
      /\ r.msgs = disk[cur].msgs /\ r.safe = disk[cur].safe
      /\ r.first = disk[cur].first
  BY <1>2, <1>3 DEF Recording
<1>5. disk' = [disk EXCEPT ![cur] = r]
  BY <1>1
<1> HIDE DEF r
<1>6. \A f \in File : disk'[f] = IF f = cur THEN r ELSE disk[f]
  BY <1>2, <1>3, <1>5
<1>7. FilesOK'
  <2>1. Created' = Created
    BY <1>1 DEF Created
  <2> QED BY <1>1, <1>2, <1>4, <1>6, <2>1 DEF FilesOK, IInv, TypeOK
<1>8. (journal # 0 => disk'[journal] = disk[journal]) /\ Named' = Named
  <2>1. journal # 0 => journal \in File
    BY DEF IInv, TypeOK
  <2> QED BY <1>1, <1>2, <1>6, <2>1 DEF Named
<1>9. StageOK'
  <2>1. disk'[cur'] = r
    BY <1>1, <1>3, <1>6
  <2> QED BY <1>1, <1>2, <1>4, <1>8, <2>1 DEF StageOK, Current
<1>10. disk' \in [File -> Recording]
  BY <1>2, <1>3, <1>4, <1>5
<1> QED BY <1>1, <1>2, <1>3, <1>7, <1>8, <1>9, <1>10, UnnamedKeeps
        DEF Current, Stages

\* No client is ahead of the old history, so none has anything of the new.
LEMMA NameFileKeeps ==
  ASSUME IInv, NameFile
  PROVE  /\ IInv' /\ Named' = disk[cur] /\ Named'.first >= EndIndex(Named)
         /\ Named'.msgs = <<>> /\ Named'.safe = 0
         /\ \A u \in User : got'[u] = <<>>
<1> DEFINE r == disk[cur]
           b == NewBlock(r.first)
<1>1. /\ server = "up" /\ stage = "unnamed" /\ stage' = "named"
      /\ journal' = cur /\ blocks' = <<b>>
      /\ got' = [u \in User |-> <<>>]
      /\ UNCHANGED <<server, disk, cur, old, image, clients, pos, count>>
  BY DEF NameFile
<1>2. /\ cur # 0 /\ old = journal /\ cur # old /\ cur \in File \cup {0}
      /\ r.there /\ r.head /\ r.msgs = <<>> /\ r.safe = 0
      /\ r.first >= EndIndex(Named)
  BY <1>1 DEF IInv, StageOK, TypeOK
<1>3. cur \in File /\ r \in Recording
  BY <1>2 DEF IInv, TypeOK
<1>4. r.first \in Nat /\ Len(r.msgs) = 0 /\ EndIndex(r) = r.first
  BY <1>2, <1>3 DEF Recording, EndIndex
<1>5. b \in Block /\ b.start = r.first /\ b.count = 0 /\ b.cache = <<>>
  BY <1>4, EmptySeq DEF NewBlock, Block
<1>6. Named' = r
  BY <1>1, <1>2 DEF Named
<1> HIDE DEF b
<1>7. blocks' \in Seq(Block) /\ Len(blocks') = 1 /\ blocks'[1] = b
  BY <1>1, <1>5
<1>8. TypeOK'
  <2>1. got' \in [User -> Seq(Message)]
    BY <1>1, EmptySeq
  <2> QED BY <1>1, <1>2, <1>7, <2>1 DEF TypeOK, IInv, Stages, Block
<1>9. FilesOK'
  <2>1. Created' = Created
    BY <1>1 DEF Created
  <2> QED BY <1>1, <1>2, <2>1 DEF FilesOK, IInv
<1>10. BlocksOK'
  <2>1. Tiles(blocks', r)
    <3>1. blocks' # <<>>
      BY <1>7
    <3>2. b.start + b.count = r.first
      BY <1>4, <1>5
    <3>3. \A i \in 1..1 : i = 1
      OBVIOUS
    <3>4. 1..(1 - 1) = {}
      OBVIOUS
    <3> QED BY <1>4, <1>5, <1>7, <3>1, <3>2, <3>3, <3>4 DEF Tiles
  <2>2. Cached(blocks', r)
    BY <1>5, <1>7 DEF Cached
  <2> QED BY <1>1, <2>1, <2>2 DEF BlocksOK
<1>11. Delivered'
  <2> SUFFICES ASSUME NEW u \in User
               PROVE  /\ pos'[u] < EndIndex(r)
                      /\ got'[u] = SubSeq(r.msgs, 1,
                           IF pos'[u] < r.first THEN 0
                           ELSE pos'[u] - r.first + 1)
    BY <1>6 DEF Delivered, Taken
  <2>1. pos[u] \in Int /\ pos[u] < EndIndex(Named) /\ EndIndex(Named) \in Nat
    BY NamedIs DEF IInv, TypeOK, Delivered
  <2>2. pos[u] < r.first
    BY <1>2, <1>4, <2>1
  <2>3. SubSeq(r.msgs, 1, 0) = <<>>
    BY SubSeqEmpty
  <2> QED BY <1>1, <1>4, <2>2, <2>3
<1>12. UsersOK'
  <2>1. Coming' = image /\ Coming = image
    <3>1. image \in Seq(Message)
      BY DEF IInv, TypeOK
    <3>2. <<>> \o image = image
      BY <3>1, ConcatEmptySeq
    <3> QED BY <1>1, <1>2, <3>2 DEF Coming, Current
  <2>2. Online' = Online
    BY <1>1 DEF Online
  <2>3. Present(Coming') = Online'
    BY <1>1, <2>1, <2>2 DEF IInv, UsersOK
  <2> QED BY <1>1, <2>3 DEF IInv, UsersOK
<1>13. StageOK'
  BY <1>1, <1>2 DEF StageOK, Current
<1>14. DownOK' /\ LostOnlyWhenEmpty'
  BY <1>1 DEF DownOK, LostOnlyWhenEmpty
<1> QED BY <1>1, <1>2, <1>6, <1>8, <1>9, <1>10, <1>11, <1>12, <1>13, <1>14 DEF IInv

LEMMA RemoveOldKeeps ==
  ASSUME IInv, RemoveOld
  PROVE  IInv' /\ UNCHANGED <<Named, got>>
<1>1. /\ server = "up" /\ stage = "named" /\ stage \in Current
      /\ disk' = IF old = 0 THEN disk ELSE [disk EXCEPT ![old] = NoRecording]
      /\ stage' = IF image = <<>> THEN "idle" ELSE "filling"
      /\ UNCHANGED <<server, journal, image, count, cur, old, blocks, clients,
                     pos, got>>
  BY DEF RemoveOld, memory, Current
<1>2. /\ cur \in File /\ cur = journal /\ cur # 0 /\ old # cur
      /\ old \in File \cup {0} /\ disk \in [File -> Recording]
  BY <1>1, CurrentFile DEF IInv, StageOK, TypeOK
<1>3. stage' \in Current /\ stage' \in Stages
  BY <1>1 DEF Current, Stages
<1>4. /\ disk' \in [File -> Recording]
      /\ \A f \in File : disk'[f] = IF f = old THEN NoRecording ELSE disk[f]
  <2>1. CASE old = 0
    <3>1. 0 \notin File
      BY BoundAssumption DEF File
    <3> QED BY <1>1, <1>2, <2>1, <3>1
  <2>2. CASE old # 0
    BY <1>1, <1>2, <2>2, EmptyRecordings
  <2> QED BY <2>1, <2>2
<1>5. disk'[cur] = disk[cur]
  BY <1>2, <1>4
<1>6. Named' = Named
  BY <1>1, <1>2, <1>5 DEF Named
<1>7. TypeOK'
  BY <1>1, <1>3, <1>4 DEF IInv, TypeOK
<1>8. FilesOK'
  <2>1. Created' = Created
    BY <1>1, <1>3 DEF Created, Current
  <2>2. \A f \in File : disk'[f].there => disk[f].there
    BY <1>4, EmptyRecordings
  <2>3. \A f \in File : disk'[f].safe <= Len(disk'[f].msgs)
    BY <1>4, EmptyRecordings DEF IInv, FilesOK
  <2> QED BY <1>1, <1>2, <1>5, <2>1, <2>2, <2>3 DEF FilesOK, IInv
<1>9. StageOK'
  BY <1>1, <1>2 DEF StageOK, Current
<1>10. BlocksOK'
  BY <1>1, <1>5 DEF IInv, BlocksOK
<1>11. Delivered'
  BY <1>1, <1>6 DEF IInv, Delivered, Taken
<1>12. UsersOK'
  BY <1>1, <1>3, <1>5 DEF IInv, UsersOK, Coming, Online
<1>13. DownOK' /\ LostOnlyWhenEmpty'
  BY <1>1 DEF DownOK, LostOnlyWhenEmpty
<1> QED BY <1>1, <1>6, <1>7, <1>8, <1>9, <1>10, <1>11, <1>12, <1>13 DEF IInv

-----------------------------------------------------------------------------
(* The server stops and starts.                                            *)

\* Nobody has been sent anything.
LEMMA NothingDelivered ==
  ASSUME NEW r \in Recording, Named' = r,
         \A u \in User : pos'[u] = -1 /\ got'[u] = <<>>
  PROVE  Delivered'
<1>1. r.first \in Nat /\ Len(r.msgs) \in Nat
  BY LenProperties DEF Recording
<1>2. -1 < r.first /\ -1 < EndIndex(r)
  BY <1>1 DEF EndIndex
<1>3. SubSeq(r.msgs, 1, 0) = <<>>
  BY SubSeqEmpty
<1> QED BY <1>2, <1>3 DEF Delivered, Taken

LEMMA RemainsIs ==
  ASSUME NEW r \in Recording, r.safe <= Len(r.msgs), NEW tear \in BOOLEAN
  PROVE  LET q == Remains(r, tear)
         IN  /\ q \in Recording /\ q.there = r.there /\ q.head = r.head
             /\ q.first = 0 /\ q.safe = r.safe
             /\ q.msgs = SubSeq(r.msgs, 1, r.safe) /\ Len(q.msgs) = r.safe
<1> DEFINE m == SubSeq(r.msgs, 1, r.safe)
           t == IF tear THEN "head" ELSE r.tail
           n == r.safe
<1>1. r.msgs \in Seq(Message) /\ Len(r.msgs) \in Nat /\ n \in Nat
  BY LenProperties DEF Recording
<1>2. m \in Seq(Message) /\ Len(m) = n
  <2>1. \A i \in 1..n : i \in 1..Len(r.msgs)
    BY <1>1
  <2>2. \A i \in 1..n : r.msgs[i] \in Message
    BY <1>1, <2>1, ElementOfSeq
  <2>3. m \in Seq(Message) /\ Len(m) = IF 1 <= n THEN n - 1 + 1 ELSE 0
    BY <1>1, <2>2, SubSeqProperties
  <2>4. (IF 1 <= n THEN n - 1 + 1 ELSE 0) = n
    BY <1>1
  <2> QED BY <2>3, <2>4
<1>3. t \in {"none", "head", "inside"}
  BY DEF Recording
<1>4. Remains(r, tear) = [r EXCEPT !.msgs = m, !.first = 0, !.tail = t]
  BY DEF Remains
<1> HIDE DEF m, t
<1>5. [r EXCEPT !.msgs = m, !.first = 0, !.tail = t] \in Recording
  BY <1>2, <1>3 DEF Recording
<1> QED BY <1>2, <1>4, <1>5 DEF Recording, m

\* What goes down with the server, and what remains.
LEMMA DownKeeps ==
  ASSUME IInv, server = "up", count.restarts < MaxRestarts, Down,
         disk' \in [File -> Recording],
         \A f \in File : /\ disk'[f].there = disk[f].there
                         /\ disk'[f].head = disk[f].head
                         /\ disk'[f].first = 0
                         /\ Len(disk'[f].msgs) = disk'[f].safe
  PROVE  IInv'
<1>1. /\ server' = "down" /\ cur' = 0 /\ old' = 0 /\ blocks' = <<>>
      /\ stage' = "idle" /\ image' = <<>> /\ clients' = <<>>
      /\ journal' = journal
      /\ count' = [count EXCEPT !.restarts = count.restarts + 1]
      /\ pos' = [u \in User |-> -1] /\ got' = [u \in User |-> <<>>]
  BY DEF Down
<1>2. /\ count' \in [msgs : 0..MaxMessages, resets : 0..MaxResets,
                     restarts : 0..MaxRestarts]
      /\ count'.resets = count.resets /\ count.resets \in Nat
  <2>1. count \in [msgs : 0..MaxMessages, resets : 0..MaxResets,
                   restarts : 0..MaxRestarts]
    BY DEF IInv, TypeOK
  <2>2. count.restarts + 1 \in 0..MaxRestarts
    BY <2>1, BoundAssumption
  <2> QED BY <1>1, <2>1, <2>2
<1>3. TypeOK'
  <2>1. journal \in File \cup {0}
    BY DEF IInv, TypeOK
  <2>2. pos' \in [User -> Int] /\ got' \in [User -> Seq(Message)]
    BY <1>1, EmptySeq
  <2>3. /\ blocks' \in Seq([start : Nat, count : Nat, cache : Seq(Message)])
        /\ image' \in Seq(Message) /\ clients' \in Seq(User)
    BY <1>1, EmptySeq
  <2> QED BY <1>1, <1>2, <2>1, <2>2, <2>3 DEF TypeOK, Stages
<1>4. FilesOK'
  <2>1. Created' = count.resets + 1 /\ Created \in Nat /\ Created <= Created'
    BY <1>1, <1>2 DEF Created
  <2>2. \A f \in File : disk'[f].there => f <= Created'
    <3>1. \A f \in File : f \in Nat
      BY BoundAssumption DEF File
    <3>2. \A f \in File : disk[f].there => f <= Created
      BY DEF IInv, FilesOK
    <3>3. Created' \in Nat
      BY <1>2, <2>1
    <3> QED BY <2>1, <3>1, <3>2, <3>3
  <2>3. 0 <= Created'
    BY <1>2, <2>1
  <2>4. \A f \in File : disk'[f].safe <= Len(disk'[f].msgs)
    <3>1. \A f \in File : disk'[f].safe \in Nat
      BY DEF Recording
    <3> QED BY <3>1
  <2>5. journal # 0 => disk'[journal].there /\ disk'[journal].head
    BY DEF IInv, FilesOK, TypeOK
  <2> QED BY <1>1, <2>2, <2>3, <2>4, <2>5 DEF FilesOK
<1>5. Delivered'
  <2>1. Named' \in Recording
    BY <1>1, EmptyRecordings DEF Named, IInv, TypeOK
  <2> QED BY <1>1, <2>1, NothingDelivered
<1>6. UsersOK'
  BY <1>1 DEF UsersOK
<1>7. DownOK'
  BY <1>1 DEF DownOK
<1>8. StageOK' /\ BlocksOK' /\ LostOnlyWhenEmpty'
  BY <1>1 DEF StageOK, BlocksOK, LostOnlyWhenEmpty
<1> QED BY <1>3, <1>4, <1>5, <1>6, <1>7, <1>8 DEF IInv

LEMMA CrashKeeps ==
  ASSUME IInv, Crash
  PROVE  IInv'
<1>1. server = "up" /\ count.restarts < MaxRestarts /\ Down
  BY DEF Crash
<1>2. PICK tear \in BOOLEAN :
        disk' = [f \in File |-> Remains(disk[f], tear /\ f = cur)]
  BY DEF Crash
<1>3. \A f \in File : disk[f] \in Recording /\ disk[f].safe <= Len(disk[f].msgs)
  BY DEF IInv, TypeOK, FilesOK
<1>4. ASSUME NEW f \in File
      PROVE  /\ disk'[f] \in Recording
             /\ disk'[f].there = disk[f].there /\ disk'[f].head = disk[f].head
             /\ disk'[f].first = 0 /\ Len(disk'[f].msgs) = disk'[f].safe
  <2> DEFINE t == tear /\ f = cur
  <2>1. t \in BOOLEAN /\ disk'[f] = Remains(disk[f], t)
    BY <1>2
  <2> HIDE DEF t
  <2> QED BY <1>3, <2>1, RemainsIs
<1>5. disk' \in [File -> Recording]
  <2>1. disk' = [f \in File |-> disk'[f]]
    BY <1>2
  <2> QED BY <1>4, <2>1
<1> QED BY <1>1, <1>4, <1>5, DownKeeps

LEMMA StopKeeps ==
  ASSUME IInv, Stop
  PROVE  IInv'
<1>1. server = "up" /\ stage \in Current /\ count.restarts < MaxRestarts /\ Down
  BY DEF Stop, Reading, Current
<1>2. PICK r \in Flushed(disk[cur]) :
        disk' = [f \in File |-> Remains(IF f = cur THEN r ELSE disk[f], FALSE)]
  BY DEF Stop
<1>3. \A f \in File : disk[f] \in Recording /\ disk[f].safe <= Len(disk[f].msgs)
  BY DEF IInv, TypeOK, FilesOK
<1>4. /\ r \in Recording /\ r.safe <= Len(r.msgs)
      /\ r.there = disk[cur].there /\ r.head = disk[cur].head
  <2>1. disk[cur] \in Recording /\ Len(disk[cur].msgs) \in Nat
    BY <1>1, CurrentFile
  <2> QED BY <2>1, FlushedIs
<1>5. ASSUME NEW f \in File
      PROVE  /\ disk'[f] \in Recording
             /\ disk'[f].there = disk[f].there /\ disk'[f].head = disk[f].head
             /\ disk'[f].first = 0 /\ Len(disk'[f].msgs) = disk'[f].safe
  <2> DEFINE q == IF f = cur THEN r ELSE disk[f]
  <2>1. /\ q \in Recording /\ q.safe <= Len(q.msgs)
        /\ q.there = disk[f].there /\ q.head = disk[f].head
    BY <1>3, <1>4
  <2>2. PICK t \in BOOLEAN : t = FALSE /\ disk'[f] = Remains(q, t)
    BY <1>2
  <2> HIDE DEF q
  <2> QED BY <2>1, <2>2, RemainsIs
<1>6. disk' \in [File -> Recording]
  <2>1. disk' = [f \in File |-> disk'[f]]
    BY <1>2
  <2> QED BY <1>5, <2>1
<1> QED BY <1>1, <1>5, <1>6, DownKeeps

\* There are finitely many people in a recording.
LEMMA PresentFinite ==
  ASSUME NEW msgs \in Seq(Message)
  PROVE  IsFiniteSet(Present(msgs)) /\ Cardinality(Present(msgs)) \in Nat
<1> DEFINE n == Len(msgs)
           f == [i \in 1..n |-> msgs[i].by]
           T == {f[i] : i \in 1..n}
<1>1. n \in Nat
  BY LenProperties
<1>2. f \in Surjection(1..n, T)
  BY DEF Surjection
<1>3. IsFiniteSet(1..n)
  BY <1>1, FS_Interval
<1> HIDE DEF T, f
<1>4. IsFiniteSet(T)
  BY <1>2, <1>3, FS_Surjection
<1>5. Present(msgs) \in SUBSET T
  BY DEF Present, T, f
<1> QED BY <1>4, <1>5, FS_Subset, FS_CardinalityType

\* Everyone who is there leaves: as many leave as are there, each once.
LEMMA LeavesIs ==
  ASSUME NEW msgs \in Seq(Message), NEW leaves \in Leaves(msgs)
  PROVE  /\ leaves \in Seq(Message)
         /\ \A i \in 1..Len(leaves) : leaves[i].t = "Leave"
         /\ \A u \in Present(msgs) : \E i \in 1..Len(leaves) : leaves[i].by = u
<1> DEFINE P == Present(msgs)
           n == Cardinality(P)
<1>1. IsFiniteSet(P) /\ n \in Nat
  BY PresentFinite
<1>2. PICK order \in [1..n -> P] :
        /\ \A i, j \in 1..n : order[i] = order[j] => i = j
        /\ leaves = [i \in 1..n |-> [t |-> "Leave", by |-> order[i], n |-> 0]]
  BY DEF Leaves
<1>3. P \subseteq User
  BY DEF Present
<1> HIDE DEF P, n
<1>4. order \in Injection(1..n, P)
  BY <1>2 DEF Injection, IsInjective
<1>5. Cardinality(1..n) = n
  <2>1. Cardinality(1..n) = IF 1 > n THEN 0 ELSE n - 1 + 1
    BY <1>1, FS_Interval
  <2> QED BY <1>1, <2>1
<1>6. order \in Surjection(1..n, P)
  BY <1>1, <1>4, <1>5, FS_Injection DEF n
<1>7. \A u \in P : \E i \in 1..n : order[i] = u
  BY <1>6 DEF Surjection
<1>8. \A i \in 1..n : [t |-> "Leave", by |-> order[i], n |-> 0] \in Message
  <2>1. 0 \in 0..MaxMessages
    BY BoundAssumption
  <2> QED BY <1>2, <1>3, <2>1 DEF Message
<1>9. leaves \in Seq(Message) /\ Len(leaves) = n
  BY <1>1, <1>2, <1>8
<1>10. \A i \in 1..n : leaves[i].t = "Leave" /\ leaves[i].by = order[i]
  BY <1>2
<1> QED BY <1>7, <1>9, <1>10 DEF P

LEMMA ScannedIs ==
  ASSUME NEW r \in Recording, r.first = 0, r.safe = Len(r.msgs),
         NEW q \in Scanned(r)
  PROVE  /\ q \in Recording /\ q.first = 0 /\ q.safe = Len(q.msgs)
         /\ q.there = r.there /\ q.head = r.head
         /\ Len(r.msgs) \in Nat /\ Len(r.msgs) <= Len(q.msgs)
         /\ \A i \in 1..Len(r.msgs) : q.msgs[i] = r.msgs[i]
<1>1. r.msgs \in Seq(Message) /\ Len(r.msgs) \in Nat
  BY LenProperties DEF Recording
<1>2. CASE q = r
  BY <1>1, <1>2
<1>3. CASE q # r
  <2> DEFINE m == [t |-> "Bogus", by |-> 0, n |-> 0]
             s == Append(r.msgs, m)
  <2>1. PICK t \in {"none", "inside"} :
          q = [r EXCEPT !.msgs = s, !.safe = r.safe + 1, !.tail = t]
    BY <1>3 DEF Scanned
  <2>2. m \in Message
    <3>1. 0 \in 0..MaxMessages
      BY BoundAssumption
    <3> QED BY <3>1 DEF Message
  <2> HIDE DEF m
  <2>3. /\ s \in Seq(Message) /\ Len(s) = Len(r.msgs) + 1
        /\ \A i \in 1..Len(r.msgs) : s[i] = r.msgs[i]
    BY <1>1, <2>2, LenAppend
  <2>4. r.safe + 1 \in Nat
    BY <1>1
  <2> HIDE DEF s
  <2>5. /\ q.msgs = s /\ q.safe = r.safe + 1 /\ q.first = r.first
        /\ q.there = r.there /\ q.head = r.head /\ q \in Recording
    BY <2>1, <2>3, <2>4 DEF Recording
  <2> QED BY <1>1, <2>3, <2>5
<1> QED BY <1>2, <1>3

\* scanBlocks: the blocks are those of the recording, and nobody is left.
LEMMA StartKeeps ==
  ASSUME IInv, Start
  PROVE  /\ IInv' /\ Named' = disk'[journal] /\ Named = disk[journal]
         /\ Named'.first = 0 /\ Named.first = 0
         /\ Named.safe <= Named'.safe /\ Named'.safe <= Len(Named'.msgs)
         /\ Len(Named.msgs) <= Len(Named'.msgs)
         /\ \A i \in 1..Len(Named.msgs) : Named'.msgs[i] = Named.msgs[i]
         /\ \A u \in User : got[u] = <<>> /\ got'[u] = <<>>
<1>1. /\ server = "down" /\ journal # 0 /\ server' = "up" /\ cur' = journal
      /\ UNCHANGED <<journal, old, stage, image, clients, pos, got, count>>
  BY DEF Start
<1>2. PICK r \in Scanned(disk[journal]) :
        \E leaves \in Leaves(r.msgs) :
          /\ disk' = [disk EXCEPT ![journal] = [r EXCEPT !.msgs = r.msgs \o leaves]]
          /\ blocks' = ScanBlocks(Len(r.msgs), Len(leaves))
  BY DEF Start
<1>3. PICK leaves \in Leaves(r.msgs) :
          /\ disk' = [disk EXCEPT ![journal] = [r EXCEPT !.msgs = r.msgs \o leaves]]
          /\ blocks' = ScanBlocks(Len(r.msgs), Len(leaves))
  BY <1>2
<1> DEFINE old_ == disk[journal]
           all == r.msgs \o leaves
           q == [r EXCEPT !.msgs = all]
<1>4. /\ journal \in File /\ disk \in [File -> Recording]
      /\ old_ \in Recording /\ old_.there /\ old_.head
      /\ old_.first = 0 /\ old_.safe = Len(old_.msgs)
      /\ stage = "idle" /\ image = <<>> /\ clients = <<>>
      /\ \A u \in User : pos[u] = -1 /\ got[u] = <<>>
  <2>1. journal \in File
    BY <1>1 DEF IInv, TypeOK
  <2> QED BY <1>1, <2>1 DEF IInv, TypeOK, DownOK, FilesOK
<1> HIDE DEF old_
<1>5. /\ r \in Recording /\ r.first = 0 /\ r.safe = Len(r.msgs)
      /\ r.there /\ r.head
      /\ Len(old_.msgs) \in Nat /\ Len(old_.msgs) <= Len(r.msgs)
      /\ \A i \in 1..Len(old_.msgs) : r.msgs[i] = old_.msgs[i]
  BY <1>2, <1>4, ScannedIs DEF old_
<1>6. r.msgs \in Seq(Message) /\ Len(r.msgs) \in Nat
  BY <1>5, LenProperties DEF Recording
<1>7. /\ leaves \in Seq(Message) /\ Len(leaves) \in Nat
      /\ \A i \in 1..Len(leaves) : leaves[i].t = "Leave"
      /\ \A u \in Present(r.msgs) : \E i \in 1..Len(leaves) : leaves[i].by = u
  BY <1>3, <1>6, LeavesIs, LenProperties
<1>8. /\ all \in Seq(Message) /\ Len(all) = Len(r.msgs) + Len(leaves)
      /\ \A i \in 1..Len(r.msgs) : all[i] = r.msgs[i]
  <2>1. /\ all \in Seq(Message) /\ Len(all) = Len(r.msgs) + Len(leaves)
        /\ \A i \in 1..(Len(r.msgs) + Len(leaves)) :
             all[i] = IF i <= Len(r.msgs) THEN r.msgs[i]
                      ELSE leaves[i - Len(r.msgs)]
    BY <1>6, <1>7, ConcatProperties
  <2>2. \A i \in 1..Len(r.msgs) :
          i \in 1..(Len(r.msgs) + Len(leaves)) /\ i <= Len(r.msgs)
    BY <1>6, <1>7
  <2> HIDE DEF all
  <2> QED BY <2>1, <2>2
<1>9. Present(all) = {}
  BY <1>6, <1>7, PresentAfterLeaves
<1> HIDE DEF all
<1>10. /\ q \in Recording /\ q.msgs = all /\ q.first = 0 /\ q.there /\ q.head
       /\ q.safe = Len(r.msgs) /\ q.safe <= Len(q.msgs)
  <2>1. Len(r.msgs) <= Len(all)
    BY <1>6, <1>7, <1>8
  <2>2. /\ q \in Recording /\ q.msgs = all /\ q.first = r.first
        /\ q.there = r.there /\ q.head = r.head /\ q.safe = r.safe
    BY <1>5, <1>8 DEF Recording
  <2> QED BY <1>5, <2>1, <2>2
<1>11. disk' = [disk EXCEPT ![journal] = q]
  BY <1>3 DEF all
<1> HIDE DEF q
<1>12. /\ disk' \in [File -> Recording] /\ disk'[journal] = q
       /\ \A f \in File : disk'[f] = IF f = journal THEN q ELSE disk[f]
  BY <1>4, <1>10, <1>11
<1>13. blocks' \in Seq(Block) /\ Tiles(blocks', q) /\ Cached(blocks', q)
  BY <1>3, <1>6, <1>7, <1>8, <1>10, ScanBlocksTiles
<1>14. Named' = q /\ Named = old_
  BY <1>1, <1>12 DEF Named, old_
<1>15. TypeOK'
  BY <1>1, <1>12, <1>13 DEF IInv, TypeOK, Block
<1>16. FilesOK'
  <2>1. Created' = Created /\ Created \in Nat
    BY <1>1 DEF Created, IInv, TypeOK
  <2>2. journal <= Created
    BY <1>4 DEF IInv, FilesOK, old_
  <2>3. \A f \in File : disk'[f].there => f <= Created
    BY <1>12, <2>2 DEF IInv, FilesOK
  <2>4. \A f \in File : disk'[f].safe <= Len(disk'[f].msgs)
    BY <1>10, <1>12 DEF IInv, FilesOK
  <2> QED BY <1>1, <1>10, <1>12, <2>1, <2>2, <2>3, <2>4 DEF FilesOK
<1>17. StageOK'
  BY <1>1, <1>4 DEF StageOK, Current
<1>18. BlocksOK'
  BY <1>1, <1>12, <1>13 DEF BlocksOK
<1>19. Delivered'
  BY <1>1, <1>4, <1>10, <1>14, NothingDelivered
<1>20. UsersOK'
  <2>1. all \o <<>> = all
    BY <1>8, ConcatEmptySeq
  <2>2. Coming' = all
    BY <1>1, <1>4, <1>10, <1>12, <2>1 DEF Coming, Current
  <2>3. Online' = {} /\ clients' = <<>>
    BY <1>1, <1>4 DEF Online
  <2>4. Present(Coming') = Online'
    BY <1>9, <2>2, <2>3
  <2> QED BY <2>3, <2>4 DEF UsersOK
<1>21. DownOK' /\ LostOnlyWhenEmpty'
  BY <1>1 DEF DownOK, LostOnlyWhenEmpty
<1>22. IInv'
  BY <1>15, <1>16, <1>17, <1>18, <1>19, <1>20, <1>21 DEF IInv
<1>23. /\ Len(old_.msgs) <= Len(q.msgs) /\ old_.safe <= q.safe
       /\ \A i \in 1..Len(old_.msgs) : q.msgs[i] = old_.msgs[i]
  <2>1. \A i \in 1..Len(old_.msgs) : i \in 1..Len(r.msgs)
    BY <1>5, <1>6
  <2> QED BY <1>4, <1>5, <1>6, <1>7, <1>8, <1>10, <2>1
<1> QED BY <1>1, <1>4, <1>10, <1>12, <1>14, <1>22, <1>23 DEF old_

LEMMA StartFailsKeeps ==
  ASSUME IInv, StartFails
  PROVE  IInv' /\ UNCHANGED <<Named, got>>
<1>1. /\ server = "down" /\ server' = "lost"
      /\ UNCHANGED <<journal, disk, old, stage, image, count, cur, blocks,
                     clients, pos, got>>
  BY DEF StartFails, memory
<1>2. Named' = Named
  BY <1>1 DEF Named
<1>3. LostOnlyWhenEmpty'
  <2> SUFFICES ASSUME journal # 0
               PROVE  /\ disk[journal].there /\ disk[journal].head
                      /\ disk[journal].safe = 0
    BY <1>1 DEF LostOnlyWhenEmpty
  <2>1. PICK r \in Scanned(disk[journal]) : ~Loadable(r)
    BY DEF StartFails
  <2> DEFINE d == disk[journal]
  <2>2. /\ d \in Recording /\ d.there /\ d.head
        /\ d.first = 0 /\ d.safe = Len(d.msgs)
    <3>1. journal \in File
      BY DEF IInv, TypeOK
    <3> QED BY <1>1, <3>1 DEF IInv, TypeOK, DownOK, FilesOK
  <2>3. /\ r.there = d.there /\ r.head = d.head
        /\ Len(d.msgs) \in Nat /\ Len(d.msgs) <= Len(r.msgs)
    <3> HIDE DEF d
    <3> QED BY <2>1, <2>2, ScannedIs DEF d
  <2>4. r.msgs = <<>>
    BY <2>1, <2>2, <2>3 DEF Loadable
  <2>5. Len(r.msgs) = 0
    BY <2>4
  <2> QED BY <2>2, <2>3, <2>5
<1>4. /\ TypeOK' /\ FilesOK' /\ DownOK' /\ StageOK' /\ BlocksOK' /\ Delivered'
  <2>1. TypeOK'
    BY <1>1 DEF IInv, TypeOK
  <2>2. FilesOK'
    BY <1>1 DEF IInv, FilesOK, Created
  <2>3. DownOK'
    BY <1>1 DEF IInv, DownOK
  <2>4. StageOK' /\ BlocksOK'
    BY <1>1 DEF StageOK, BlocksOK
  <2>5. Delivered'
    BY <1>1, <1>2 DEF IInv, Delivered, Taken
  <2> QED BY <2>1, <2>2, <2>3, <2>4, <2>5
<1>5. UsersOK'
  BY <1>1 DEF IInv, UsersOK
<1> QED BY <1>1, <1>2, <1>3, <1>4, <1>5 DEF IInv

-----------------------------------------------------------------------------
(* The invariant holds.                                                    *)

LEMMA InitKeeps ==
  ASSUME Init
  PROVE  IInv
<1>1. /\ server = "up" /\ journal = 0 /\ cur = 0 /\ old = 0
      /\ disk = [f \in File |-> NoRecording]
      /\ blocks = <<>> /\ stage = "create" /\ image = <<>> /\ clients = <<>>
      /\ pos = [u \in User |-> -1] /\ got = [u \in User |-> <<>>]
      /\ count = [msgs |-> 0, resets |-> 0, restarts |-> 0]
  BY DEF Init
<1>2. TypeOK
  <2>1. /\ disk \in [File -> Recording]
        /\ pos \in [User -> Int] /\ got \in [User -> Seq(Message)]
    BY <1>1, EmptyRecordings, EmptySeq
  <2>2. /\ blocks \in Seq([start : Nat, count : Nat, cache : Seq(Message)])
        /\ image \in Seq(Message) /\ clients \in Seq(User)
    BY <1>1, EmptySeq
  <2>3. count \in [msgs : 0..MaxMessages, resets : 0..MaxResets,
                   restarts : 0..MaxRestarts]
    BY <1>1, BoundAssumption
  <2> QED BY <1>1, <2>1, <2>2, <2>3 DEF TypeOK, Stages
<1>3. FilesOK
  BY <1>1, EmptyRecordings DEF FilesOK, Created
<1>4. Named = NoRecording
  BY <1>1 DEF Named
<1>5. Delivered
  <2>1. EndIndex(Named) = 0
    BY <1>4, EmptyRecordings DEF EndIndex
  <2>2. -1 < 0 /\ SubSeq(Named.msgs, 1, 0) = <<>>
    BY SubSeqEmpty
  <2>3. Named.first = 0
    BY <1>4, EmptyRecordings
  <2> QED BY <1>1, <2>1, <2>2, <2>3 DEF Delivered, Taken
<1>6. UsersOK
  <2>1. Online = {} /\ Coming = <<>>
    BY <1>1 DEF Online, Coming, Current
  <2> QED BY <1>1, <2>1, PresentNothing DEF UsersOK
<1>7. DownOK /\ BlocksOK /\ LostOnlyWhenEmpty
  BY <1>1 DEF DownOK, BlocksOK, Current, LostOnlyWhenEmpty
<1>8. StageOK
  BY <1>1 DEF StageOK, Current
<1> QED BY <1>2, <1>3, <1>5, <1>6, <1>7, <1>8 DEF IInv

LEMMA StutterKeeps ==
  ASSUME IInv, UNCHANGED vars
  PROVE  IInv' /\ UNCHANGED <<Named, got>>
<1>1. UNCHANGED <<server, journal, disk, cur, old, blocks, stage, image, clients,
                  pos, got, count>>
  BY DEF vars
<1>2. Named' = Named /\ Created' = Created /\ Coming' = Coming /\ Online' = Online
  BY <1>1 DEF Named, Created, Coming, Online
<1>3. TypeOK'
  BY <1>1 DEF IInv, TypeOK
<1>4. FilesOK'
  BY <1>1, <1>2 DEF IInv, FilesOK
<1>5. DownOK' /\ BlocksOK' /\ LostOnlyWhenEmpty'
  BY <1>1 DEF IInv, DownOK, BlocksOK, LostOnlyWhenEmpty
<1>6. StageOK'
  BY <1>1, <1>2 DEF IInv, StageOK
<1>7. Delivered'
  BY <1>1, <1>2 DEF IInv, Delivered, Taken
<1>8. UsersOK'
  BY <1>1, <1>2 DEF IInv, UsersOK
<1> QED BY <1>1, <1>2, <1>3, <1>4, <1>5, <1>6, <1>7, <1>8 DEF IInv

LEMMA NextKeeps ==
  ASSUME IInv, [Next]_vars
  PROVE  IInv'
<1>1. ASSUME NEW u \in User, Join(u) PROVE IInv'
  BY <1>1, JoinKeeps
<1>2. ASSUME NEW u \in User, Leave(u) PROVE IInv'
  BY <1>2, LeaveKeeps
<1>3. ASSUME NEW u \in User, Draw(u) PROVE IInv'
  BY <1>3, DrawKeeps
<1>4. ASSUME NEW u \in User, SendNextHistoryBatch(u) PROVE IInv'
  BY <1>4, SendKeeps
<1>5. CASE Flush
  BY <1>5, FlushKeeps
<1>6. CASE Reset
  BY <1>6, ResetKeeps
<1>7. CASE CreateFile
  BY <1>7, CreateFileKeeps
<1>8. CASE WriteHeader
  BY <1>8, WriteHeaderKeeps
<1>9. CASE NameFile
  BY <1>9, NameFileKeeps
<1>10. CASE RemoveOld
  BY <1>10, RemoveOldKeeps
<1>11. CASE AddImage
  BY <1>11, AddImageKeeps
<1>12. CASE Crash
  BY <1>12, CrashKeeps
<1>13. CASE Stop
  BY <1>13, StopKeeps
<1>14. CASE Start
  BY <1>14, StartKeeps
<1>15. CASE StartFails
  BY <1>15, StartFailsKeeps
<1>16. CASE UNCHANGED vars
  BY <1>16, StutterKeeps
<1> QED BY <1>1, <1>2, <1>3, <1>4, <1>5, <1>6, <1>7, <1>8, <1>9, <1>10, <1>11,
           <1>12, <1>13, <1>14, <1>15, <1>16 DEF Next

\* The inductive invariant holds in every reachable state: the files, the
\* index of blocks, the caches, the positions of the clients and the list of
\* users fit together at every step of historyAdd, getBatch, historyReset,
\* and of a crash and a restart between any two of them.
THEOREM Invariant == Spec => []IInv
<1>1. Init => IInv
  BY InitKeeps
<1>2. IInv /\ [Next]_vars => IInv'
  BY NextKeeps
<1> QED BY <1>1, <1>2, PTL DEF Spec

\* Every variable of FiledHistory keeps its type: indices and sizes of blocks
\* are never negative, and file names are those that were given out.
THEOREM FiledTypeCorrect == Spec => []TypeOK
<1>1. IInv => TypeOK
  BY DEF IInv
<1> QED BY <1>1, Invariant, PTL

\* getBatch's assertion: a cache holds all of its block or nothing, whatever
\* the order in which messages are added, blocks closed, caches loaded and
\* released, and the session reset or restarted.
THEOREM CachesComplete == Spec => []CacheComplete
<1>1. IInv => CacheComplete
  <2> SUFFICES ASSUME IInv, Reading PROVE CacheComplete
    BY DEF CacheComplete
  <2>1. Cached(blocks, disk[cur])
    BY DEF IInv, BlocksOK, Reading, Current
  <2>2. \A i \in 1..Len(blocks) : Load(blocks[i]) = Stretch(disk[cur], blocks[i])
    BY DEF Load, Stretch
  <2> QED BY <2>1, <2>2 DEF CacheComplete, Cached
<1> QED BY <1>1, Invariant, PTL

\* scanBlocks and the reset image: a reader of the history sees exactly the
\* users who are there, after any crash, restart or reset.
THEOREM NobodyLeftBehind == Spec => []NobodyIsLeftBehind
<1>1. IInv => NobodyIsLeftBehind
  BY OnlineIs DEF NobodyIsLeftBehind
<1> QED BY <1>1, Invariant, PTL

\* load() gives a session up only if nothing of it had reached the disk: the
\* order of initRecording's steps leaves no moment at which the journal names
\* a recording that is missing, removed or without a header.
THEOREM LostWhenEmpty == Spec => []LostOnlyWhenEmpty
<1>1. IInv => LostOnlyWhenEmpty
  BY DEF IInv
<1> QED BY <1>1, Invariant, PTL

\* getBatch always finds the block after a client's position: whoever is
\* behind is sent something whenever it asks.
THEOREM BatchesMakeProgress == Spec => []BatchesAdvance
<1>1. IInv => BatchesAdvance
  <2> SUFFICES ASSUME IInv, Reading, NEW u \in Online, pos[u] < LastIndex
               PROVE  EndOf(BlockAfter(pos[u])) > pos[u]
    BY DEF BatchesAdvance
  <2>1. u \in User
    BY OnlineIs
  <2> QED BY <2>1, BatchOffset
<1> QED BY <1>1, Invariant, PTL

-----------------------------------------------------------------------------
(* FiledHistory implements HistoryLog.                                     *)

LEMMA PrefixIs ==
  ASSUME NEW S, NEW s \in Seq(S), NEW k \in 0..Len(s)
  PROVE  /\ SubSeq(s, 1, k) \in Seq(S) /\ Len(SubSeq(s, 1, k)) = k
         /\ \A i \in 1..k : SubSeq(s, 1, k)[i] = s[i]
<1>1. Len(s) \in Nat /\ k \in Nat /\ 1 \in Int
  BY LenProperties
<1>2. \A i \in 1..k : i \in 1..Len(s)
  BY <1>1
<1>3. \A i \in 1..k : s[i] \in S
  BY <1>2, ElementOfSeq
<1> DEFINE x == SubSeq(s, 1, k)
<1>4. /\ x \in Seq(S) /\ Len(x) = (IF 1 <= k THEN k - 1 + 1 ELSE 0)
      /\ \A i \in 1..(k - 1 + 1) : x[i] = s[1 + i - 1]
  BY <1>1, <1>3, SubSeqProperties
<1>5. k - 1 + 1 = k /\ (1 <= k \/ k = 0) /\ \A i \in 1..k : 1 + i - 1 = i
  BY <1>1
<1> HIDE DEF x
<1>6. x \in Seq(S) /\ Len(x) = k /\ \A i \in 1..k : x[i] = s[i]
  BY <1>4, <1>5
<1> QED BY <1>6 DEF x

\* A shorter prefix of a sequence begins a longer one.
LEMMA PrefixesBegin ==
  ASSUME NEW S, NEW s \in Seq(S), NEW n \in 0..Len(s), NEW k \in 0..n
  PROVE  /\ Log!Begins(SubSeq(s, 1, k), SubSeq(s, 1, n))
         /\ SubSeq(s, 1, Len(s)) = s
<1> DEFINE x == SubSeq(s, 1, k)
           y == SubSeq(s, 1, n)
           z == SubSeq(s, 1, Len(s))
<1>1. Len(s) \in Nat
  BY LenProperties
<1>2. k \in 0..Len(s) /\ Len(s) \in 0..Len(s) /\ k <= n
      /\ \A i \in 1..k : i \in 1..n
  BY <1>1
<1>3. /\ x \in Seq(S) /\ Len(x) = k /\ \A i \in 1..k : x[i] = s[i]
      /\ y \in Seq(S) /\ Len(y) = n /\ \A i \in 1..n : y[i] = s[i]
      /\ z \in Seq(S) /\ Len(z) = Len(s) /\ \A i \in 1..Len(s) : z[i] = s[i]
  BY <1>2, PrefixIs
<1> HIDE DEF x, y, z
<1>4. z = s
  BY <1>3, SeqEqual
<1>5. SubSeq(y, 1, k) = x
  <2> DEFINE w == SubSeq(y, 1, k)
  <2>1. /\ w \in Seq(S) /\ Len(w) = k /\ \A i \in 1..k : w[i] = y[i]
    BY <1>2, <1>3, PrefixIs
  <2> HIDE DEF w
  <2>2. \A i \in 1..Len(w) : w[i] = x[i]
    BY <1>2, <1>3, <2>1
  <2>3. w = x
    BY <1>3, <2>1, <2>2, SeqEqual
  <2> QED BY <2>3 DEF w
<1>6. Log!Begins(x, y)
  BY <1>2, <1>3, <1>5 DEF Log!Begins
<1> QED BY <1>4, <1>6 DEF x, y, z

NamedOK ==
  /\ Named \in Recording /\ Named.msgs \in Seq(Message)
  /\ Len(Named.msgs) \in Nat /\ Named.safe <= Len(Named.msgs)

LEMMA NamedAlways == IInv => NamedOK
BY NamedIs DEF NamedOK

LEMMA NamedNext == IInv' => NamedOK'
BY NamedAlways, PTL

\* A step that adds to the recording, makes it safe or delivers it
LEMMA ExtendStep ==
  ASSUME IInv, IInv', Named'.first = Named.first, Named.safe <= Named'.safe,
         Len(Named.msgs) <= Len(Named'.msgs),
         \A i \in 1..Len(Named.msgs) : Named'.msgs[i] = Named.msgs[i],
         \A u \in User : \/ got'[u] = got[u] \/ got'[u] = <<>>
                         \/ Taken(u, Named) <= Taken(u, Named)'
  PROVE  Log!Extend
<1> DEFINE r == Named
           q == Named'
<1>1. /\ r \in Recording /\ r.msgs \in Seq(Message) /\ Len(r.msgs) \in Nat
  BY NamedIs
<1>2. /\ q \in Recording /\ q.msgs \in Seq(Message) /\ Len(q.msgs) \in Nat
      /\ q.safe <= Len(q.msgs)
  BY NamedNext DEF NamedOK
<1> HIDE DEF r, q
<1>3. Log!Begins(r.msgs, q.msgs)
  <2>1. Len(r.msgs) \in 0..Len(r.msgs) /\ Len(r.msgs) <= Len(q.msgs)
    BY <1>1 DEF r, q
  <2>2. SubSeq(q.msgs, 1, Len(r.msgs)) = SubSeq(r.msgs, 1, Len(r.msgs))
    BY <1>1, <1>2, <2>1, SamePrefix DEF r, q
  <2>3. SubSeq(r.msgs, 1, Len(r.msgs)) = r.msgs
    BY <1>1, <2>1, PrefixesBegin
  <2> QED BY <2>1, <2>2, <2>3 DEF Log!Begins
<1>4. ASSUME NEW u \in User
      PROVE  /\ Log!Begins(got'[u], q.msgs)
             /\ Log!Begins(got[u], got'[u]) \/ got'[u] = <<>>
  <2> DEFINE k == Taken(u, Named)
             l == Taken(u, Named)'
  <2>1. /\ k \in 0..Len(r.msgs) /\ got[u] = SubSeq(r.msgs, 1, k)
    BY <1>1, TakenType DEF IInv, TypeOK, Delivered, r
  <2>2. /\ l \in 0..Len(q.msgs) /\ got'[u] = SubSeq(q.msgs, 1, l)
    <3>1. pos'[u] \in Int /\ pos'[u] < EndIndex(q)
          /\ got'[u] = SubSeq(q.msgs, 1, l)
      BY DEF IInv, TypeOK, Delivered, q
    <3>2. q.first \in Nat
      BY <1>2 DEF Recording
    <3>3. l = IF pos'[u] < q.first THEN 0 ELSE pos'[u] - q.first + 1
      BY DEF Taken, q
    <3> HIDE DEF l
    <3> QED BY <1>2, <3>1, <3>2, <3>3 DEF EndIndex
  <2> HIDE DEF k, l
  <2>3. k \in 0..Len(q.msgs) /\ Len(q.msgs) \in 0..Len(q.msgs)
    <3>1. Len(r.msgs) <= Len(q.msgs)
      BY DEF r, q
    <3> QED BY <1>1, <1>2, <2>1, <3>1
  <2>4. got[u] = SubSeq(q.msgs, 1, k)
    <3>1. SubSeq(q.msgs, 1, k) = SubSeq(r.msgs, 1, k)
      BY <1>1, <1>2, <2>1, SamePrefix DEF r, q
    <3> QED BY <2>1, <3>1
  <2>5. Log!Begins(got'[u], q.msgs)
    <3>1. SubSeq(q.msgs, 1, Len(q.msgs)) = q.msgs
          /\ Log!Begins(SubSeq(q.msgs, 1, l), SubSeq(q.msgs, 1, Len(q.msgs)))
      BY <1>2, <2>2, <2>3, PrefixesBegin
    <3> QED BY <2>2, <3>1
  <2>6. CASE got'[u] = got[u]
    <3>1. k \in 0..k
      BY <2>1
    <3>2. Log!Begins(SubSeq(q.msgs, 1, k), SubSeq(q.msgs, 1, k))
      BY <1>2, <2>3, <3>1, PrefixesBegin
    <3> QED BY <2>4, <2>5, <2>6, <3>2
  <2>7. CASE k <= l
    <3>1. k \in 0..l
      BY <2>1, <2>2, <2>7
    <3>2. Log!Begins(SubSeq(q.msgs, 1, k), SubSeq(q.msgs, 1, l))
      BY <1>2, <2>2, <3>1, PrefixesBegin
    <3> QED BY <2>2, <2>4, <2>5, <3>2
  <2> QED BY <2>5, <2>6, <2>7 DEF k, l
<1> QED BY <1>2, <1>3, <1>4 DEF Log!Extend, r, q

LEMMA GrowsExtends ==
  ASSUME IInv, IInv', Grows,
         \A u \in User : \/ got'[u] = got[u] \/ got'[u] = <<>>
                         \/ Taken(u, Named) <= Taken(u, Named)'
  PROVE  Log!Extend
<1>1. Named = disk[cur] /\ Named' = disk'[cur]
  BY CurrentFile, GrowsFiles DEF Grows
<1> QED BY <1>1, ExtendStep DEF Grows

LEMMA EmptyBegins == Log!Begins(<<>>, <<>>)
<1>1. SubSeq(<<>>, 1, 0) = <<>>
  BY SubSeqEmpty
<1>2. Len(<<>>) = 0
  OBVIOUS
<1>3. Len(<<>>) <= Len(<<>>)
  BY <1>2
<1> QED BY <1>1, <1>2, <1>3, Zenon DEF Log!Begins

\* A crash keeps what is safe; a clean stop keeps everything.
LEMMA CrashRestarts ==
  ASSUME IInv, Crash
  PROVE  Log!Restart
<1>1. Down /\ journal' = journal /\ got' = [u \in User |-> <<>>]
  BY DEF Crash, Down
<1>2. PICK tear \in BOOLEAN :
        disk' = [f \in File |-> Remains(disk[f], tear /\ f = cur)]
  BY DEF Crash
<1>3. /\ Named'.first = 0 /\ Named'.safe = Named.safe
      /\ Named'.msgs = SubSeq(Named.msgs, 1, Named.safe)
  <2>1. CASE journal = 0
    <3>1. Named = NoRecording /\ Named' = NoRecording
      BY <1>1, <2>1 DEF Named
    <3>2. SubSeq(<<>>, 1, 0) = <<>>
      BY SubSeqEmpty
    <3> QED BY <3>1, <3>2, EmptyRecordings
  <2>2. CASE journal # 0
    <3> DEFINE t == tear /\ journal = cur
    <3>1. /\ journal \in File /\ disk[journal] \in Recording
          /\ disk[journal].safe <= Len(disk[journal].msgs)
      BY <2>2 DEF IInv, TypeOK, FilesOK
    <3>2. /\ t \in BOOLEAN /\ Named' = Remains(disk[journal], t)
          /\ Named = disk[journal]
      BY <1>1, <1>2, <2>2, <3>1 DEF Named
    <3> HIDE DEF t
    <3> QED BY <3>1, <3>2, RemainsIs
  <2> QED BY <2>1, <2>2
<1>4. Named.safe \in Named.safe..Len(Named.msgs)
  BY NamedIs
<1> QED BY <1>1, <1>3, <1>4 DEF Log!Restart

LEMMA StopRestarts ==
  ASSUME IInv, Stop
  PROVE  Log!Restart
<1>1. /\ journal' = journal /\ got' = [u \in User |-> <<>>]
      /\ server = "up" /\ stage \in Current
  BY DEF Stop, Down, Reading, Current
<1>2. PICK r \in Flushed(disk[cur]) :
        disk' = [f \in File |-> Remains(IF f = cur THEN r ELSE disk[f], FALSE)]
  BY DEF Stop
<1>3. /\ cur \in File /\ cur = journal /\ cur # 0 /\ Named = disk[cur]
      /\ disk[cur] \in Recording /\ Len(disk[cur].msgs) \in Nat
  BY <1>1, CurrentFile DEF IInv, StageOK
<1>4. r \in Recording /\ r.safe = Len(r.msgs) /\ r.msgs = Named.msgs
      /\ r.safe <= Len(r.msgs)
  BY <1>3, FlushedIs
<1>5. PICK t \in BOOLEAN : t = FALSE /\ Named' = Remains(r, t)
  BY <1>1, <1>2, <1>3 DEF Named
<1>6. /\ Named'.first = 0 /\ Named'.safe = Len(Named.msgs)
      /\ Named'.msgs = SubSeq(Named.msgs, 1, Len(Named.msgs))
  BY <1>4, <1>5, RemainsIs
<1>7. Len(Named.msgs) \in Named.safe..Len(Named.msgs)
  BY NamedIs
<1> QED BY <1>1, <1>6, <1>7 DEF Log!Restart

LEMMA NameFileReplaces ==
  ASSUME IInv, NameFile
  PROVE  Log!Replace
<1>1. /\ Named'.first >= Named.first + Len(Named.msgs)
      /\ Named'.msgs = <<>> /\ Named'.safe = 0
      /\ \A u \in User : got'[u] = <<>>
  BY NameFileKeeps DEF EndIndex
<1>2. Named'.safe <= Len(Named'.msgs)
  BY NameFileKeeps, NamedNext DEF NamedOK
<1>3. \A u \in User : Log!Begins(got'[u], Named'.msgs)
  BY <1>1, EmptyBegins
<1> QED BY <1>1, <1>2, <1>3 DEF Log!Replace

LEMMA ResetExtends ==
  ASSUME IInv, Reset
  PROVE  Log!Extend
<1>1. /\ IInv' /\ got' = got
      /\ Named'.msgs = Named.msgs /\ Named'.first = Named.first
      /\ Named'.safe = Len(Named.msgs)
  BY ResetKeeps
<1>2. Named.safe <= Len(Named.msgs) /\ Len(Named.msgs) \in Nat
  BY NamedIs
<1> QED BY <1>1, <1>2, ExtendStep

LEMMA StartExtends ==
  ASSUME IInv, Start
  PROVE  Log!Extend
<1>1. /\ IInv' /\ Named'.first = Named.first /\ Named.safe <= Named'.safe
      /\ Len(Named.msgs) <= Len(Named'.msgs)
      /\ \A i \in 1..Len(Named.msgs) : Named'.msgs[i] = Named.msgs[i]
      /\ \A u \in User : got'[u] = <<>>
  BY StartKeeps
<1> QED BY <1>1, ExtendStep

LEMMA NextRefines ==
  ASSUME IInv, IInv', [Next]_vars
  PROVE  [Log!Next]_(Log!vars)
<1>1. ASSUME NEW u \in User, NEW m \in Message, Reading, Add(m),
             \A v \in User : got'[v] = got[v] \/ got'[v] = <<>>
      PROVE  Log!Extend
  BY <1>1, AddGrows, GrowsExtends
<1>2. ASSUME NEW u \in User, Join(u) PROVE Log!Extend
  <2>1. Reading /\ Add(Msg("Join", u)) /\ got' = got
    BY <1>2 DEF Join
  <2>2. Msg("Join", u) \in Message
    BY MsgType
  <2> QED BY <1>1, <2>1, <2>2
<1>3. ASSUME NEW u \in User, Leave(u) PROVE Log!Extend
  <2>1. Reading /\ Add(Msg("Leave", u)) /\ got' = [got EXCEPT ![u] = <<>>]
    BY <1>3 DEF Leave
  <2>2. Msg("Leave", u) \in Message
    BY MsgType
  <2>3. got \in [User -> Seq(Message)]
    BY DEF IInv, TypeOK
  <2>4. \A v \in User : got'[v] = got[v] \/ got'[v] = <<>>
    BY <2>1, <2>3
  <2> QED BY <1>1, <2>1, <2>2, <2>4
<1>4. ASSUME NEW u \in User, Draw(u) PROVE Log!Extend
  <2>1. Reading /\ Add(Msg("Draw", u)) /\ got' = got
    BY <1>4 DEF Draw
  <2>2. Msg("Draw", u) \in Message
    BY MsgType
  <2> QED BY <1>1, <2>1, <2>2
<1>5. ASSUME NEW u \in User, SendNextHistoryBatch(u) PROVE Log!Extend
  <2>1. /\ Grows /\ \A v \in User : v # u => got'[v] = got[v]
        /\ Taken(u, Named) <= Taken(u, Named)'
    BY <1>5, SendKeeps
  <2>2. \A v \in User : \/ got'[v] = got[v] \/ got'[v] = <<>>
                        \/ Taken(v, Named) <= Taken(v, Named)'
    BY <2>1
  <2> QED BY <2>1, <2>2, GrowsExtends
<1>6. ASSUME Flush PROVE Log!Extend
  <2>1. PICK f \in Flushed(disk[cur]) : disk' = [disk EXCEPT ![cur] = f]
    BY <1>6 DEF Flush
  <2>2. /\ server = "up" /\ stage \in Current /\ stage' \in Current
        /\ UNCHANGED <<server, journal, cur, old, count>> /\ got' = got
    BY <1>6 DEF Flush, Reading, Current, memory
  <2>3. Grows
    BY <2>1, <2>2, FlushGrows
  <2> QED BY <2>2, <2>3, GrowsExtends
<1>7. ASSUME AddImage PROVE Log!Extend
  BY <1>7, AddImageKeeps, GrowsExtends
<1>8. ASSUME UNCHANGED <<Named, got>> PROVE UNCHANGED Log!vars
  BY <1>8 DEF Log!vars
<1>9. CASE CreateFile \/ WriteHeader \/ RemoveOld \/ StartFails \/ UNCHANGED vars
  BY <1>8, <1>9, CreateFileKeeps, WriteHeaderKeeps, RemoveOldKeeps,
     StartFailsKeeps, StutterKeeps
<1>10. CASE Reset \/ Start
  BY <1>10, ResetExtends, StartExtends DEF Log!Next
<1>11. CASE NameFile
  BY <1>11, NameFileReplaces DEF Log!Next
<1>12. CASE Crash \/ Stop
  BY <1>12, CrashRestarts, StopRestarts DEF Log!Next
<1>13. Log!Extend => Log!Next
  BY DEF Log!Next
<1> QED BY <1>2, <1>3, <1>4, <1>5, <1>6, <1>7, <1>9, <1>10, <1>11, <1>12, <1>13
        DEF Next

\* FiledHistory implements the log of HistoryLog, for any number of clients,
\* messages, resets and restarts and any size of blocks: what it stores and
\* sends is one ordered log, which only grows until a reset replaces it by one
\* with higher indices; a client is sent a prefix of it, without a gap or a
\* repetition at any boundary of blocks, and a crash loses nothing that was
\* flushed.
THEOREM FiledHistoryImplementsLog == Spec => IsHistoryLog
<1>1. Init => Log!Init
  <2> SUFFICES ASSUME Init PROVE Log!Init
    OBVIOUS
  <2>1. Named = NoRecording /\ \A u \in User : got[u] = <<>>
    BY DEF Init, Named
  <2>2. \A u \in User : Log!Begins(got[u], Named.msgs)
    BY <2>1, EmptyBegins, EmptyRecordings
  <2> QED BY <2>1, <2>2, EmptyRecordings DEF Log!Init
<1>2. IInv /\ IInv' /\ [Next]_vars => [Log!Next]_(Log!vars)
  BY NextRefines
<1> QED BY <1>1, <1>2, Invariant, PTL DEF Spec, IsHistoryLog, Log!Spec

=============================================================================
