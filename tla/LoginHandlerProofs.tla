------------------------- MODULE LoginHandlerProofs -------------------------
(* For every set of names and accounts and any number of commands, queries  *)
(* and changes of the settings: the types of a connection, that its         *)
(* identity is decided once, by the rules of that moment, and that what it   *)
(* sends is a queue.                                                        *)
EXTENDS LoginHandler, SequenceTheorems, WellFoundedInduction, TLAPS

Stranger == Name \ Registered

QueueType == [outbox : Seq(Message), wire : Seq(Message),
              ignoreIncoming : BOOLEAN, closeWhenReady : BOOLEAN]

\* A connection.  Nobody with an account here is asked about elsewhere.
ConnType ==
  [state    : {"WaitForSecure", "WaitForIdent", "WaitForLogin"},
   nonce    : Nat,
   hostPrivilege : BOOLEAN,
   complete : BOOLEAN,
   handler  : {"live", "leaving", "deleted"},
   name     : Name \cup {NoName},
   auth     : {"none", "internal", "external"},
   inSession : BOOLEAN,
   queries  : Seq(Stranger),
   queue    : QueueType,
   open     : BOOLEAN,
   asked    : Seq(Message),
   received : Seq(Message)]

CommandType ==
  [c : {"startTls", "report", "other", "host", "join", "ident"},
   name : Name \cup {NoName}, password : {"none", "good", "bad"},
   token : Nat, as : Name \cup {NoName}, ok : BOOLEAN]

-----------------------------------------------------------------------------
(* The queue.                                                              *)

\* writeData finds out how much to write: up to the first Disconnect if that
\* is within the limit, and otherwise up to the limit or the end.
LEMMA WritableExists ==
  ASSUME NEW box \in Seq(Message)
  PROVE  /\ Writable(box) \in 0..Len(box)
         /\ \A i \in 1..(Writable(box) - 1) : box[i].k # "Disconnect"
<1> DEFINE m == IF BatchLimit <= Len(box) THEN BatchLimit ELSE Len(box)
           D == {i \in 1..m : box[i].k = "Disconnect"}
           P(n) == /\ n <= BatchLimit
                   /\ \A i \in 1..(n - 1) : box[i].k # "Disconnect"
                   /\ \/ n = BatchLimit \/ n = Len(box)
                      \/ n > 0 /\ box[n].k = "Disconnect"
<1>1. Len(box) \in Nat /\ BatchLimit \in Nat /\ BatchLimit > 0
  BY BatchAssumption, LenProperties
<1>2. m \in 0..Len(box) /\ m <= BatchLimit
  BY <1>1
<1>3. \E n \in 0..Len(box) : P(n)
  <2>1. CASE D = {}
    <3>1. P(m)
      BY <1>1, <2>1
    <3> QED BY <3>1, <1>2
  <2>2. CASE D # {}
    <3> DEFINE R == OpToRel(<, Nat)
    <3>1. IsWellFoundedOn(R, Nat)
      BY NatLessThanWellFounded
    <3>2. D \subseteq Nat
      BY <1>2
    <3>3. PICK n \in D : \A i \in D : ~(<<i, n>> \in R)
      BY <2>2, <3>1, <3>2, WFMin
    <3>4. \A i \in D : ~(i < n)
      BY <3>2, <3>3 DEF OpToRel
    <3>5. n \in 1..m /\ box[n].k = "Disconnect"
      BY <3>3
    <3>6. \A i \in 1..(n - 1) : i \in 1..m /\ i < n
      BY <3>5, <1>2
    <3>7. \A i \in 1..(n - 1) : box[i].k # "Disconnect"
      BY <3>4, <3>6
    <3>8. P(n) /\ n \in 0..Len(box)
      BY <3>5, <3>7, <1>1, <1>2
    <3> QED BY <3>8
  <2> QED BY <2>1, <2>2
<1> HIDE DEF P
<1> DEFINE w == CHOOSE n \in 0..Len(box) : P(n)
<1>4. w \in 0..Len(box) /\ P(w)
  BY <1>3
<1>5. w = Writable(box)
  BY DEF P, Writable
<1> HIDE DEF w
<1> QED BY <1>4, <1>5 DEF P

LEMMA WriteDataType ==
  ASSUME NEW q \in QueueType
  PROVE  WriteData(q) \in QueueType
<1> DEFINE n == Writable(q.outbox)
<1>1. q.outbox \in Seq(Message) /\ q.wire \in Seq(Message)
  BY DEF QueueType
<1>2. n \in 0..Len(q.outbox) /\ Len(q.outbox) \in Nat
  BY <1>1, WritableExists, LenProperties
<1>3. SubSeq(q.outbox, 1, n) \in Seq(Message)
  BY <1>1, <1>2, SubSeqProperties
<1>4. SubSeq(q.outbox, n + 1, Len(q.outbox)) \in Seq(Message)
  BY <1>1, <1>2, SubSeqProperties
<1>5. q.wire \o SubSeq(q.outbox, 1, n) \in Seq(Message)
  BY <1>1, <1>3, ConcatProperties
<1> DEFINE last == n > 0 /\ q.outbox[n].k = "Disconnect"
           box == IF last THEN <<>> ELSE SubSeq(q.outbox, n + 1, Len(q.outbox))
           wire == q.wire \o SubSeq(q.outbox, 1, n)
           close == q.closeWhenReady \/ last
<1>6. WriteData(q) = [q EXCEPT !.wire = wire, !.outbox = box,
                               !.closeWhenReady = close]
  BY DEF WriteData
<1>7. box \in Seq(Message)
  BY <1>4, EmptySeq
<1>8. wire \in Seq(Message)
  BY <1>5
<1>9. close \in BOOLEAN
  OBVIOUS
<1> HIDE DEF box, wire, close
<1> QED BY <1>6, <1>7, <1>8, <1>9 DEF QueueType

LEMMA SendType ==
  ASSUME NEW q \in QueueType, NEW msgs \in Seq(Message)
  PROVE  Send(q, msgs) \in QueueType
<1>1. q.outbox \o msgs \in Seq(Message)
  BY ConcatProperties DEF QueueType
<1>2. [q EXCEPT !.outbox = @ \o msgs] \in QueueType
  BY <1>1 DEF QueueType
<1> QED BY <1>2, WriteDataType DEF Send

LEMMA SendNowType ==
  ASSUME NEW q \in QueueType, NEW m \in Message
  PROVE  SendNow(q, m) \in QueueType
<1>1. <<m>> \o q.outbox \in Seq(Message)
  BY ConcatProperties DEF QueueType
<1>2. [q EXCEPT !.outbox = <<m>> \o @] \in QueueType
  BY <1>1 DEF QueueType
<1> QED BY <1>2, WriteDataType DEF SendNow

LEMMA SendDisconnectType ==
  ASSUME NEW q \in QueueType, NEW m \in Message
  PROVE  SendDisconnect(q, m) \in QueueType
<1>1. <<m>> \in Seq(Message)
  OBVIOUS
<1>2. Send(q, <<m>>) \in QueueType
  BY <1>1, SendType
<1> QED BY <1>2 DEF SendDisconnect, QueueType

LEMMA DataWrittenType ==
  ASSUME NEW q \in QueueType
  PROVE  DataWritten(q) \in QueueType
<1>1. <<>> \in Seq(Message)
  BY EmptySeq
<1>2. [q EXCEPT !.wire = <<>>] \in QueueType
  BY <1>1 DEF QueueType
<1> QED BY <1>2, WriteDataType DEF DataWritten

LEMMA NewQueueType == NewQueue \in QueueType
BY DEF NewQueue, QueueType

-----------------------------------------------------------------------------
(* What is queued: "sent" has been given to the socket, "box" waits, and    *)
(* "asked" is all that has been given to the queue.                         *)

\* A queue that is not closed holds, or has sent, all it was given, in order,
\* and has sent no Disconnect.
Waiting(sent, box, asked) ==
  /\ InOrder(sent \o box, asked)
  /\ \A i \in 1..Len(sent) : sent[i].k # "Disconnect"
  /\ \A n \in 1..Len(asked) : \E i \in Told(sent \o box) : (sent \o box)[i].n = n

\* A closed one has sent all up to the first Disconnect, and nothing more.
Ended(sent, asked) ==
  /\ InOrder(sent, asked)
  /\ \E d \in 1..Len(asked) :
       /\ asked[d].k = "Disconnect"
       /\ \A n \in 1..(d - 1) : asked[n].k # "Disconnect"
       /\ \A i \in Told(sent) : sent[i].n <= d
       /\ \A n \in 1..d : \E i \in Told(sent) : sent[i].n = n

Fifo(sent, box, closed, asked) ==
  /\ ~closed => Waiting(sent, box, asked)
  /\ closed => box = <<>> /\ Ended(sent, asked)

\* The elements of two sequences, one after the other
LEMMA ConcatIs ==
  ASSUME NEW s \in Seq(Message), NEW t \in Seq(Message)
  PROVE  /\ s \o t \in Seq(Message) /\ Len(s \o t) = Len(s) + Len(t)
         /\ Len(s) \in Nat /\ Len(t) \in Nat
         /\ \A i \in 1..Len(s) : (s \o t)[i] = s[i]
         /\ \A i \in 1..Len(t) : (s \o t)[Len(s) + i] = t[i]
         /\ \A i \in 1..(Len(s) + Len(t)) :
              i \in 1..Len(s) \/ (i - Len(s) \in 1..Len(t)
                                  /\ (s \o t)[i] = t[i - Len(s)])
BY ConcatProperties, LenProperties

LEMMA SubSeqIs ==
  ASSUME NEW s \in Seq(Message), NEW n \in 0..Len(s)
  PROVE  /\ SubSeq(s, 1, n) \in Seq(Message) /\ Len(SubSeq(s, 1, n)) = n
         /\ \A i \in 1..n : SubSeq(s, 1, n)[i] = s[i]
         /\ SubSeq(s, n + 1, Len(s)) \in Seq(Message)
         /\ Len(SubSeq(s, n + 1, Len(s))) = Len(s) - n
         /\ \A i \in 1..(Len(s) - n) : SubSeq(s, n + 1, Len(s))[i] = s[n + i]
<1>1. Len(s) \in Nat
  BY LenProperties
<1> QED BY <1>1, SubSeqProperties

LEMMA Regroup ==
  ASSUME NEW a \in Seq(Message), NEW b \in Seq(Message), NEW c \in Seq(Message)
  PROVE  a \o (b \o c) = (a \o b) \o c
BY ConcatAssociative

\* Writing a part of what waits changes nothing of the whole.
LEMMA WrittenIsWhole ==
  ASSUME NEW sent \in Seq(Message), NEW box \in Seq(Message),
         NEW n \in 0..Len(box)
  PROVE  (sent \o SubSeq(box, 1, n)) \o SubSeq(box, n + 1, Len(box)) = sent \o box
<1> DEFINE a == SubSeq(box, 1, n)
           b == SubSeq(box, n + 1, Len(box))
<1>1. /\ a \in Seq(Message) /\ b \in Seq(Message)
      /\ Len(a) = n /\ Len(b) = Len(box) - n /\ Len(box) \in Nat
      /\ \A i \in 1..n : a[i] = box[i]
      /\ \A i \in 1..(Len(box) - n) : b[i] = box[n + i]
  BY SubSeqIs, LenProperties
<1> HIDE DEF a, b
<1>2. a \o b \in Seq(Message) /\ Len(a \o b) = Len(box)
  BY <1>1, ConcatIs
<1>3. ASSUME NEW i \in 1..Len(box) PROVE (a \o b)[i] = box[i]
  <2>1. CASE i \in 1..n
    BY <1>1, <2>1, ConcatIs
  <2>2. CASE i \notin 1..n
    <3>1. i - n \in 1..Len(b) /\ n + (i - n) = i
      BY <1>1, <2>2
    <3>2. (a \o b)[Len(a) + (i - n)] = b[i - n]
      BY <1>1, <3>1, ConcatIs
    <3> QED BY <1>1, <3>1, <3>2
  <2> QED BY <2>1, <2>2
<1>4. a \o b = box
  BY <1>2, <1>3, SeqEqual
<1>5. (sent \o a) \o b = sent \o (a \o b)
  BY <1>1, Regroup
<1> QED BY <1>4, <1>5 DEF a, b

LEMMA WriteFifo ==
  ASSUME NEW sent \in Seq(Message), NEW box \in Seq(Message),
         NEW asked \in Seq(Message), Waiting(sent, box, asked)
  PROVE  LET n == Writable(box)
             last == n > 0 /\ box[n].k = "Disconnect"
         IN  Fifo(sent \o SubSeq(box, 1, n),
                  IF last THEN <<>> ELSE SubSeq(box, n + 1, Len(box)),
                  last, asked)
<1> DEFINE n == Writable(box)
           part == SubSeq(box, 1, n)
           rest == SubSeq(box, n + 1, Len(box))
           now == sent \o part
           all == sent \o box
<1>1. n \in 0..Len(box) /\ \A i \in 1..(n - 1) : box[i].k # "Disconnect"
  BY WritableExists
<1>2. /\ part \in Seq(Message) /\ Len(part) = n
      /\ \A i \in 1..n : part[i] = box[i]
  BY <1>1, SubSeqIs
<1>3. now \o rest = all
  BY <1>1, WrittenIsWhole
<1>4. Len(box) \in Nat /\ Len(sent) \in Nat /\ Len(asked) \in Nat
  BY LenProperties
<1> HIDE DEF n, part, rest
<1>5. /\ now \in Seq(Message) /\ Len(now) = Len(sent) + n
      /\ all \in Seq(Message) /\ Len(all) = Len(sent) + Len(box)
  BY <1>1, <1>2, ConcatIs
<1>6. \A i \in 1..Len(sent) : now[i] = sent[i] /\ all[i] = sent[i]
  BY <1>2, ConcatIs
<1>7. \A i \in 1..n : now[Len(sent) + i] = box[i] /\ all[Len(sent) + i] = box[i]
  BY <1>1, <1>2, <1>4, ConcatIs
<1>8. \A i \in 1..Len(now) : i \in 1..Len(sent)
        \/ (i - Len(sent) \in 1..n /\ i = Len(sent) + (i - Len(sent)))
  BY <1>1, <1>4, <1>5
<1>9. \A i \in 1..Len(now) : now[i] = all[i] /\ i \in 1..Len(all)
  BY <1>1, <1>4, <1>5, <1>6, <1>7, <1>8
<1>10. /\ InOrder(all, asked)
       /\ \A i \in 1..Len(sent) : sent[i].k # "Disconnect"
       /\ \A m \in 1..Len(asked) : \E i \in Told(all) : all[i].n = m
  BY DEF Waiting
<1> HIDE DEF now, all
<1>11. CASE n > 0 /\ box[n].k = "Disconnect"
  <2> DEFINE p == Len(sent) + n
             d == all[p].n
  <2>1. p \in 1..Len(now) /\ all[p] = box[n] /\ p \in Told(all) /\ Len(now) = p
    BY <1>1, <1>4, <1>5, <1>7, <1>11 DEF Told
  <2>2. d \in 1..Len(asked) /\ asked[d] = all[p] /\ asked[d].k = "Disconnect"
    BY <2>1, <1>10, <1>11 DEF InOrder
  <2>3. \A i \in Told(now) : i \in Told(all) /\ now[i] = all[i] /\ i <= p
    BY <1>9, <2>1 DEF Told
  <2> HIDE DEF d, p
  <2>4. InOrder(now, asked)
    BY <2>3, <1>10 DEF InOrder
  <2>5. ASSUME NEW i \in Told(now) PROVE now[i].n <= d
    <3>1. i \in Told(all) /\ now[i] = all[i] /\ i <= p /\ i \in Nat /\ p \in Nat
      BY <2>3, <2>1, <1>5, <1>4, <1>1 DEF Told
    <3>2. all[i].n \in 1..Len(asked)
      BY <3>1, <1>10 DEF InOrder
    <3>3. CASE i = p
      BY <3>1, <3>2, <3>3 DEF d
    <3>4. CASE i < p
      <4>1. all[i].n < all[p].n
        BY <3>1, <3>4, <2>1, <1>10 DEF InOrder
      <4> QED BY <4>1, <3>1, <3>2, <2>2 DEF d
    <3> QED BY <3>1, <3>3, <3>4
  <2>6. ASSUME NEW m \in 1..d PROVE \E i \in Told(now) :
           now[i].n = m /\ (m < d => i < p)
    <3>1. m \in 1..Len(asked)
      BY <2>2, <1>4
    <3>2. PICK i \in Told(all) : all[i].n = m
      BY <3>1, <1>10
    <3>3. i \in Nat /\ p \in Nat /\ i >= 1
      BY <2>1, <1>4, <1>5, <1>1 DEF Told
    <3>4. i <= p
      <4>1. SUFFICES ASSUME i > p PROVE FALSE
        BY <3>3
      <4>2. all[p].n < all[i].n
        BY <4>1, <2>1, <3>2, <1>10 DEF InOrder
      <4> QED BY <4>2, <3>2, <2>2, <1>4 DEF d
    <3>5. m < d => i # p
      BY <3>2, <2>2, <1>4 DEF d
    <3>6. i \in 1..Len(now)
      BY <3>3, <3>4, <2>1
    <3>7. i \in Told(now) /\ now[i] = all[i]
      BY <3>6, <3>2, <1>9 DEF Told
    <3> QED BY <3>7, <3>2, <3>3, <3>4, <3>5
  <2>7. ASSUME NEW m \in 1..(d - 1) PROVE asked[m].k # "Disconnect"
    <3>1. m \in 1..d /\ m < d
      BY <2>2, <1>4
    <3>2. PICK i \in Told(now) : now[i].n = m /\ i < p
      BY <3>1, <2>6
    <3>3. now[i] = asked[m] /\ i \in 1..Len(now)
      BY <3>2, <2>4 DEF InOrder, Told
    <3>4. now[i].k # "Disconnect"
      <4>1. CASE i \in 1..Len(sent)
        BY <4>1, <1>6, <1>10
      <4>2. CASE i - Len(sent) \in 1..n /\ i = Len(sent) + (i - Len(sent))
        <5>1. i - Len(sent) \in 1..(n - 1)
          BY <4>2, <3>2, <3>3, <1>1, <1>4 DEF p
        <5>2. now[i] = box[i - Len(sent)]
          BY <4>2, <1>7
        <5> QED BY <5>1, <5>2, <1>1
      <4> QED BY <4>1, <4>2, <3>3, <1>8
    <3> QED BY <3>3, <3>4
  <2>8. Ended(now, asked)
    BY <2>2, <2>4, <2>5, <2>6, <2>7 DEF Ended
  <2> QED BY <2>8, <1>11 DEF Fifo, n, now, part
<1>12. CASE ~(n > 0 /\ box[n].k = "Disconnect")
  <2>1. ASSUME NEW i \in 1..Len(now) PROVE now[i].k # "Disconnect"
    <3>1. CASE i \in 1..Len(sent)
      BY <3>1, <1>6, <1>10
    <3>2. CASE i - Len(sent) \in 1..n /\ i = Len(sent) + (i - Len(sent))
      <4>1. now[i] = box[i - Len(sent)]
        BY <3>2, <1>7
      <4>2. i - Len(sent) \in 1..(n - 1) \/ (i - Len(sent) = n /\ n > 0)
        BY <3>2, <1>1, <1>4
      <4> QED BY <4>1, <4>2, <1>1, <1>12
    <3> QED BY <3>1, <3>2, <1>8
  <2>2. Waiting(now, rest, asked)
    BY <2>1, <1>3, <1>10 DEF Waiting, all
  <2> QED BY <2>2, <1>12 DEF Fifo, n, now, part, rest
<1> QED BY <1>11, <1>12

LEMMA AppendFifo ==
  ASSUME NEW sent \in Seq(Message), NEW box \in Seq(Message),
         NEW asked \in Seq(Message), Waiting(sent, box, asked),
         NEW msgs \in Seq(Message),
         \A i \in 1..Len(msgs) : msgs[i].k # "Pong" /\ msgs[i].n = Len(asked) + i
  PROVE  Waiting(sent, box \o msgs, asked \o msgs)
<1> DEFINE all == sent \o box
           more == all \o msgs
           given == asked \o msgs
           L == Len(all)
           A == Len(asked)
           N == Len(msgs)
<1>1. all \in Seq(Message) /\ L \in Nat /\ A \in Nat /\ N \in Nat
  BY ConcatIs, LenProperties
<1>2. sent \o (box \o msgs) = more
  BY Regroup
<1>3. /\ InOrder(all, asked)
      /\ \A i \in 1..Len(sent) : sent[i].k # "Disconnect"
      /\ \A n \in 1..A : \E i \in Told(all) : all[i].n = n
  BY DEF Waiting
<1> HIDE DEF all
<1>4. /\ more \in Seq(Message) /\ Len(more) = L + N
      /\ \A i \in 1..L : more[i] = all[i]
      /\ \A i \in 1..N : more[L + i] = msgs[i]
  BY <1>1, ConcatIs
<1>5. /\ given \in Seq(Message) /\ Len(given) = A + N
      /\ \A i \in 1..A : given[i] = asked[i]
      /\ \A i \in 1..N : given[A + i] = msgs[i]
  BY <1>1, ConcatIs
<1> HIDE DEF more, given, L, A, N
<1>6. ASSUME NEW i \in Told(more)
      PROVE  \/ i \in Told(all) /\ more[i] = all[i] /\ i <= L
             \/ i - L \in 1..N /\ i > L /\ more[i] = msgs[i - L] /\ more[i].n = A + (i - L)
  <2>1. i \in 1..(L + N) /\ more[i].k # "Pong"
    BY <1>4 DEF Told
  <2>2. CASE i \in 1..L
    BY <1>1, <1>4, <2>1, <2>2 DEF Told, L
  <2>3. CASE i \notin 1..L
    <3>1. i - L \in 1..N /\ i > L /\ L + (i - L) = i
      BY <1>1, <2>1, <2>3
    <3>2. more[i] = msgs[i - L]
      BY <3>1, <1>4
    <3>3. msgs[i - L].n = A + (i - L)
      BY <3>1 DEF A, N
    <3> QED BY <3>1, <3>2, <3>3
  <2> QED BY <2>2, <2>3
<1>7. ASSUME NEW i \in Told(all) PROVE all[i].n \in 1..A /\ all[i] = asked[all[i].n]
  BY <1>3 DEF InOrder, A
<1>8. InOrder(more, given)
  <2>1. ASSUME NEW i \in Told(more)
        PROVE  more[i].n \in 1..Len(given) /\ more[i] = given[more[i].n]
    <3>1. CASE i \in Told(all) /\ more[i] = all[i] /\ i <= L
      <4>1. all[i].n \in 1..A /\ all[i] = asked[all[i].n]
        BY <3>1, <1>7
      <4>2. all[i].n \in 1..Len(given) /\ given[all[i].n] = asked[all[i].n]
        BY <4>1, <1>1, <1>5
      <4> QED BY <3>1, <4>1, <4>2
    <3>2. CASE i - L \in 1..N /\ i > L /\ more[i] = msgs[i - L] /\ more[i].n = A + (i - L)
      BY <3>2, <1>1, <1>5
    <3> QED BY <3>1, <3>2, <1>6
  <2>2. ASSUME NEW i \in Told(more), NEW j \in Told(more), i < j
        PROVE  more[i].n < more[j].n
    <3>0. i \in Nat /\ j \in Nat
      BY <1>1, <1>4 DEF Told
    <3>1. CASE j \in Told(all) /\ more[j] = all[j] /\ j <= L
      <4>1. i \in Told(all) /\ more[i] = all[i]
        BY <3>0, <3>1, <2>2, <1>1, <1>6
      <4> QED BY <4>1, <3>1, <2>2, <1>3 DEF InOrder
    <3>2. CASE j - L \in 1..N /\ j > L /\ more[j] = msgs[j - L] /\ more[j].n = A + (j - L)
      <4>1. CASE i \in Told(all) /\ more[i] = all[i] /\ i <= L
        <5>1. more[i].n \in 1..A
          BY <4>1, <1>7
        <5> QED BY <5>1, <3>2, <1>1
      <4>2. CASE i - L \in 1..N /\ more[i].n = A + (i - L)
        BY <4>2, <3>0, <3>2, <2>2, <1>1, SMTT(40)
      <4> QED BY <4>1, <4>2, <1>6
    <3> QED BY <3>1, <3>2, <1>6
  <2> QED BY <2>1, <2>2 DEF InOrder
<1>9. ASSUME NEW n \in 1..Len(given) PROVE \E i \in Told(more) : more[i].n = n
  <2>1. CASE n \in 1..A
    <3>1. PICK i \in Told(all) : all[i].n = n
      BY <2>1, <1>3
    <3>2. i \in Told(more) /\ more[i] = all[i]
      BY <1>1, <1>4 DEF Told, L
    <3> QED BY <3>1, <3>2
  <2>2. CASE n \notin 1..A
    <3> DEFINE i == L + (n - A)
    <3>1. n - A \in 1..N /\ n = A + (n - A)
      BY <2>2, <1>1, <1>5
    <3>2. i \in 1..Len(more) /\ more[i] = msgs[n - A]
      BY <3>1, <1>1, <1>4
    <3>3. msgs[n - A].k # "Pong" /\ msgs[n - A].n = n
      BY <3>1 DEF A, N
    <3>4. i \in Told(more) /\ more[i].n = n
      BY <3>2, <3>3 DEF Told
    <3> QED BY <3>4
  <2> QED BY <2>1, <2>2
<1>10. Waiting(sent, box \o msgs, given)
  BY <1>2, <1>3, <1>8, <1>9 DEF Waiting
<1> QED BY <1>10 DEF given

\* A pong that overtakes what waits is not told.
LEMMA PongFifo ==
  ASSUME NEW sent \in Seq(Message), NEW box \in Seq(Message),
         NEW asked \in Seq(Message), Waiting(sent, box, asked),
         NEW m \in Message, m.k = "Pong"
  PROVE  Waiting(sent, <<m>> \o box, asked)
<1> DEFINE all == sent \o box
           more == sent \o (<<m>> \o box)
           L == Len(sent)
           B == Len(box)
<1>1. L \in Nat /\ B \in Nat /\ <<m>> \in Seq(Message) /\ Len(<<m>>) = 1
      /\ <<m>>[1] = m
  BY LenProperties
<1>2. /\ <<m>> \o box \in Seq(Message) /\ Len(<<m>> \o box) = 1 + B
      /\ (<<m>> \o box)[1] = m
      /\ \A i \in 1..B : (<<m>> \o box)[1 + i] = box[i]
  BY <1>1, ConcatIs
<1>3. /\ Len(more) = L + (1 + B)
      /\ \A i \in 1..L : more[i] = sent[i]
      /\ \A i \in 1..(1 + B) : more[L + i] = (<<m>> \o box)[i]
  BY <1>1, <1>2, ConcatIs
<1>4. /\ Len(all) = L + B
      /\ \A i \in 1..L : all[i] = sent[i]
      /\ \A i \in 1..B : all[L + i] = box[i]
  BY <1>1, ConcatIs
<1>5. /\ InOrder(all, asked)
      /\ \A i \in 1..L : sent[i].k # "Disconnect"
      /\ \A n \in 1..Len(asked) : \E i \in Told(all) : all[i].n = n
  BY DEF Waiting
<1> HIDE DEF all, more, L, B
<1> DEFINE Was(i) == IF i <= L THEN i ELSE i - 1
<1>6. \A i \in 1..B : more[L + (1 + i)] = all[L + i]
  <2> SUFFICES ASSUME NEW i \in 1..B PROVE more[L + (1 + i)] = all[L + i]
    OBVIOUS
  <2>1. 1 + i \in 1..(1 + B)
    BY <1>1
  <2> QED BY <2>1, <1>2, <1>3, <1>4
<1>7. more[L + 1] = m
  BY <1>1, <1>2, <1>3
<1>8. ASSUME NEW i \in Told(more)
      PROVE  i \in Nat /\ i # L + 1 /\ Was(i) \in Told(all) /\ more[i] = all[Was(i)]
  <2>1. i \in 1..(L + (1 + B)) /\ more[i].k # "Pong"
    BY <1>3 DEF Told
  <2>2. i # L + 1
    BY <2>1, <1>7
  <2>3. CASE i <= L
    BY <2>1, <2>3, <1>1, <1>3, <1>4 DEF Told
  <2>4. CASE i > L
    <3>1. i - L - 1 \in 1..B /\ L + (1 + (i - L - 1)) = i /\ L + (i - L - 1) = i - 1
      BY <2>1, <2>2, <2>4, <1>1
    <3>2. more[i] = all[i - 1] /\ i - 1 \in 1..(L + B)
      BY <3>1, <1>1, <1>6
    <3>3. i - 1 \in Told(all)
      BY <3>2, <2>1, <1>4 DEF Told
    <3> QED BY <3>2, <3>3, <2>1, <2>2, <2>4, <1>1
  <2> QED BY <2>1, <2>3, <2>4, <1>1
<1>9. InOrder(more, asked)
  <2>1. ASSUME NEW i \in Told(more)
        PROVE  more[i].n \in 1..Len(asked) /\ more[i] = asked[more[i].n]
    BY <1>5, <1>8 DEF InOrder
  <2>2. ASSUME NEW i \in Told(more), NEW j \in Told(more), i < j
        PROVE  more[i].n < more[j].n
    <3>1. Was(i) < Was(j)
      BY <1>1, <1>8, <2>2
    <3> HIDE DEF Was
    <3> QED BY <3>1, <1>5, <1>8 DEF InOrder
  <2> QED BY <2>1, <2>2 DEF InOrder
<1>10. ASSUME NEW n \in 1..Len(asked) PROVE \E i \in Told(more) : more[i].n = n
  <2>1. PICK i \in Told(all) : all[i].n = n
    BY <1>5
  <2>2. i \in 1..(L + B) /\ all[i].k # "Pong"
    BY <1>4 DEF Told
  <2>3. CASE i \in 1..L
    <3>1. i \in Told(more) /\ more[i] = all[i]
      BY <2>2, <2>3, <1>1, <1>3, <1>4 DEF Told
    <3> QED BY <3>1, <2>1
  <2>4. CASE i \notin 1..L
    <3>1. i - L \in 1..B /\ L + (i - L) = i /\ L + (1 + (i - L)) = i + 1
      BY <2>2, <2>4, <1>1
    <3>2. more[i + 1] = all[i] /\ i + 1 \in 1..Len(more)
      BY <3>1, <1>1, <1>3, <1>6, SMTT(40)
    <3>3. i + 1 \in Told(more)
      BY <3>2, <2>2 DEF Told
    <3> QED BY <3>2, <3>3, <2>1
  <2> QED BY <2>3, <2>4
<1>11. Waiting(sent, <<m>> \o box, asked)
  BY <1>5, <1>9, <1>10 DEF Waiting, more, L
<1> QED BY <1>11

-----------------------------------------------------------------------------
(* Every operation of the queue keeps it one.                              *)

LEMMA WriteDataIs ==
  ASSUME NEW q \in QueueType
  PROVE  LET n == Writable(q.outbox)
             last == n > 0 /\ q.outbox[n].k = "Disconnect"
         IN  /\ WriteData(q).wire = q.wire \o SubSeq(q.outbox, 1, n)
             /\ WriteData(q).outbox = IF last THEN <<>>
                  ELSE SubSeq(q.outbox, n + 1, Len(q.outbox))
             /\ WriteData(q).closeWhenReady = (q.closeWhenReady \/ last)
<1> DEFINE n == Writable(q.outbox)
           last == n > 0 /\ q.outbox[n].k = "Disconnect"
           box == IF last THEN <<>> ELSE SubSeq(q.outbox, n + 1, Len(q.outbox))
           wire == q.wire \o SubSeq(q.outbox, 1, n)
           close == q.closeWhenReady \/ last
<1>1. WriteData(q) = [q EXCEPT !.wire = wire, !.outbox = box,
                               !.closeWhenReady = close]
  BY DEF WriteData
<1> HIDE DEF box, wire, close
<1>2. /\ WriteData(q).wire = wire /\ WriteData(q).outbox = box
      /\ WriteData(q).closeWhenReady = close
  BY <1>1 DEF QueueType
<1> QED BY <1>2 DEF box, wire, close

LEMMA WriteCarries ==
  ASSUME NEW q \in QueueType, NEW received \in Seq(Message),
         NEW asked \in Seq(Message), ~q.closeWhenReady,
         Waiting(received \o q.wire, q.outbox, asked)
  PROVE  Fifo(received \o WriteData(q).wire, WriteData(q).outbox,
              WriteData(q).closeWhenReady, asked)
<1> DEFINE n == Writable(q.outbox)
           last == n > 0 /\ q.outbox[n].k = "Disconnect"
           part == SubSeq(q.outbox, 1, n)
           rest == IF last THEN <<>> ELSE SubSeq(q.outbox, n + 1, Len(q.outbox))
<1>1. q.outbox \in Seq(Message) /\ q.wire \in Seq(Message)
  BY DEF QueueType
<1>2. part \in Seq(Message)
  BY <1>1, WritableExists, SubSeqIs
<1>3. received \o q.wire \in Seq(Message)
  BY <1>1, ConcatIs
<1>4. Fifo((received \o q.wire) \o part, rest, last, asked)
  BY <1>1, <1>3, WriteFifo
<1>5. /\ WriteData(q).wire = q.wire \o part /\ WriteData(q).outbox = rest
      /\ WriteData(q).closeWhenReady = last
  BY WriteDataIs
<1> HIDE DEF part, rest, last
<1>6. received \o (q.wire \o part) = (received \o q.wire) \o part
  <2>1. q.wire \in Seq(Message) /\ part \in Seq(Message)
    BY <1>1, <1>2
  <2> QED BY <2>1, Regroup, ZenonT(60)
<1> QED BY <1>4, <1>5, <1>6

\* The messages of "msgs" are the next ones of "asked".
Continues(msgs, asked) ==
  \A i \in 1..Len(msgs) : msgs[i].k # "Pong" /\ msgs[i].n = Len(asked) + i

LEMMA SendCarries ==
  ASSUME NEW q \in QueueType, NEW received \in Seq(Message),
         NEW asked \in Seq(Message), NEW msgs \in Seq(Message),
         Continues(msgs, asked),
         Fifo(received \o q.wire, q.outbox, q.closeWhenReady, asked)
  PROVE  Fifo(received \o Send(q, msgs).wire, Send(q, msgs).outbox,
              Send(q, msgs).closeWhenReady,
              IF q.closeWhenReady THEN asked ELSE asked \o msgs)
<1>1. CASE q.closeWhenReady
  BY <1>1 DEF Send
<1>2. CASE ~q.closeWhenReady
  <2> DEFINE box == q.outbox \o msgs
             p == [q EXCEPT !.outbox = box]
  <2>1. q.outbox \in Seq(Message) /\ q.wire \in Seq(Message)
    BY DEF QueueType
  <2>2. box \in Seq(Message) /\ asked \o msgs \in Seq(Message)
        /\ received \o q.wire \in Seq(Message)
    BY <2>1, ConcatIs
  <2>3. Waiting(received \o q.wire, box, asked \o msgs)
    BY <1>2, <2>1, <2>2, AppendFifo DEF Fifo, Continues
  <2>4. Send(q, msgs) = WriteData(p)
    BY <1>2 DEF Send
  <2> HIDE DEF box
  <2>5. /\ p \in QueueType /\ p.outbox = box /\ p.wire = q.wire
        /\ ~p.closeWhenReady
    BY <1>2, <2>2 DEF QueueType
  <2> HIDE DEF p
  <2>6. Fifo(received \o WriteData(p).wire, WriteData(p).outbox,
             WriteData(p).closeWhenReady, asked \o msgs)
    BY <2>2, <2>3, <2>5, WriteCarries
  <2> QED BY <1>2, <2>4, <2>6
<1> QED BY <1>1, <1>2

LEMMA SendNowCarries ==
  ASSUME NEW q \in QueueType, NEW received \in Seq(Message),
         NEW asked \in Seq(Message), NEW m \in Message, m.k = "Pong",
         Fifo(received \o q.wire, q.outbox, q.closeWhenReady, asked)
  PROVE  Fifo(received \o SendNow(q, m).wire, SendNow(q, m).outbox,
              SendNow(q, m).closeWhenReady, asked)
<1>1. CASE q.closeWhenReady
  BY <1>1 DEF SendNow
<1>2. CASE ~q.closeWhenReady
  <2> DEFINE box == <<m>> \o q.outbox
             p == [q EXCEPT !.outbox = box]
  <2>1. q.outbox \in Seq(Message) /\ q.wire \in Seq(Message)
        /\ <<m>> \in Seq(Message)
    BY DEF QueueType
  <2>2. box \in Seq(Message) /\ received \o q.wire \in Seq(Message)
    BY <2>1, ConcatIs
  <2>3. Waiting(received \o q.wire, box, asked)
    BY <1>2, <2>1, <2>2, PongFifo DEF Fifo
  <2>4. SendNow(q, m) = WriteData(p)
    BY <1>2 DEF SendNow
  <2> HIDE DEF box
  <2>5. /\ p \in QueueType /\ p.outbox = box /\ p.wire = q.wire
        /\ ~p.closeWhenReady
    BY <1>2, <2>2 DEF QueueType
  <2> HIDE DEF p
  <2> QED BY <2>2, <2>3, <2>4, <2>5, WriteCarries
<1> QED BY <1>1, <1>2

\* What has been written has been sent; the rest goes on.
LEMMA DataWrittenCarries ==
  ASSUME NEW q \in QueueType, NEW received \in Seq(Message),
         NEW asked \in Seq(Message), ~q.closeWhenReady,
         Fifo(received \o q.wire, q.outbox, q.closeWhenReady, asked)
  PROVE  Fifo((received \o q.wire) \o DataWritten(q).wire, DataWritten(q).outbox,
              DataWritten(q).closeWhenReady, asked)
<1> DEFINE p == [q EXCEPT !.wire = <<>>]
           sent == received \o q.wire
<1>1. q.wire \in Seq(Message)
  BY DEF QueueType
<1>2. sent \in Seq(Message)
  BY <1>1, ConcatIs
<1>3. p \in QueueType /\ p.wire = <<>> /\ p.outbox = q.outbox /\ ~p.closeWhenReady
  BY EmptySeq DEF QueueType
<1>4. DataWritten(q) = WriteData(p)
  BY DEF DataWritten
<1>5. Waiting(sent, q.outbox, asked)
  BY DEF Fifo
<1> HIDE DEF p, sent
<1>6. sent \o p.wire = sent
  BY <1>2, <1>3, ConcatEmptySeq
<1> QED BY <1>2, <1>3, <1>4, <1>5, <1>6, WriteCarries DEF sent

\* A connection carries what its client is to be sent as a queue does.
Carries(y) ==
  Fifo(y.received \o y.queue.wire, y.queue.outbox, y.queue.closeWhenReady, y.asked)
Keeps(y, w) == w.open = y.open /\ (Carries(y) => Carries(w))

-----------------------------------------------------------------------------
(* What is sent to a client changes neither its identity nor its queries,   *)
(* and is not lost.                                                        *)

Same(y, w) ==
  /\ w.state = y.state /\ w.name = y.name /\ w.auth = y.auth
  /\ w.hostPrivilege = y.hostPrivilege
  /\ w.nonce = y.nonce /\ w.queries = y.queries
  /\ Keeps(y, w)

\* All but the pongs are part of what a client is to be sent.
Replies == Kinds \ {"Pong"}

LEMMA NumberedType ==
  ASSUME NEW y \in ConnType, NEW ks \in Seq(Replies)
  PROVE  Numbered(y, ks) \in Seq(Message) /\ Continues(Numbered(y, ks), y.asked)
<1>1. Len(ks) \in Nat /\ Len(y.asked) \in Nat
  BY LenProperties DEF ConnType
<1>2. \A i \in 1..Len(ks) :
        ks[i] \in Kinds /\ ks[i] # "Pong" /\ Len(y.asked) + i \in Nat
  BY <1>1, ElementOfSeq DEF Replies
<1>3. \A i \in 1..Len(ks) : [k |-> ks[i], n |-> Len(y.asked) + i] \in Message
  BY <1>2 DEF Message
<1> DEFINE ms == [i \in 1..Len(ks) |-> [k |-> ks[i], n |-> Len(y.asked) + i]]
<1>4. ms \in Seq(Message)
  BY <1>1, <1>3, IsASeq
<1>5. Len(ms) = Len(ks)
  BY <1>1, <1>4, LenProperties
<1>6. Continues(ms, y.asked)
  BY <1>2, <1>5 DEF Continues
<1> QED BY <1>4, <1>6 DEF Numbered

LEMMA DeliverSame ==
  ASSUME NEW y \in ConnType, NEW ks \in Seq(Replies)
  PROVE  Deliver(y, ks) \in ConnType /\ Same(y, Deliver(y, ks))
<1> DEFINE ms == Numbered(y, ks)
           asked == IF y.queue.closeWhenReady THEN y.asked ELSE y.asked \o ms
           queue == Send(y.queue, ms)
<1>1. ms \in Seq(Message) /\ y.asked \in Seq(Message) /\ y.queue \in QueueType
      /\ y.received \in Seq(Message) /\ Continues(ms, y.asked)
  BY NumberedType DEF ConnType
<1>2. queue \in QueueType
  BY <1>1, SendType
<1>3. asked \in Seq(Message)
  BY <1>1, ConcatProperties
<1>4. Deliver(y, ks) = [y EXCEPT !.queue = queue, !.asked = asked]
  BY DEF Deliver
<1>5. Carries(y) => Fifo(y.received \o queue.wire, queue.outbox,
                         queue.closeWhenReady, asked)
  BY <1>1, SendCarries DEF Carries
<1> HIDE DEF ms, asked, queue
<1>6. /\ Deliver(y, ks) \in ConnType
      /\ Deliver(y, ks).queue = queue /\ Deliver(y, ks).asked = asked
      /\ Deliver(y, ks).received = y.received /\ Deliver(y, ks).open = y.open
  BY <1>2, <1>3, <1>4 DEF ConnType
<1>7. Keeps(y, Deliver(y, ks))
  BY <1>5, <1>6 DEF Keeps, Carries
<1> QED BY <1>4, <1>6, <1>7 DEF ConnType, Same

LEMMA ReplySame ==
  ASSUME NEW y \in ConnType, NEW k \in Replies
  PROVE  Reply(y, k) \in ConnType /\ Same(y, Reply(y, k))
<1>1. <<k>> \in Seq(Replies)
  OBVIOUS
<1>2. Deliver(y, <<k>>) \in ConnType /\ Same(y, Deliver(y, <<k>>))
  BY <1>1, DeliverSame
<1> QED BY <1>2 DEF Reply, Same, Keeps

LEMMA DisconnectSame ==
  ASSUME NEW y \in ConnType
  PROVE  DisconnectClient(y) \in ConnType /\ Same(y, DisconnectClient(y))
<1> DEFINE m == [k |-> "Disconnect", n |-> Len(y.asked) + 1]
           asked == IF y.queue.closeWhenReady THEN y.asked
                    ELSE Append(y.asked, m)
           queue == SendDisconnect(y.queue, m)
<1>1. y.asked \in Seq(Message) /\ y.queue \in QueueType
      /\ y.received \in Seq(Message)
  BY DEF ConnType
<1>2. m \in Message
  BY <1>1, LenProperties DEF Message, Kinds
<1>3. queue \in QueueType
  BY <1>1, <1>2, SendDisconnectType
<1>4. asked \in Seq(Message)
  BY <1>1, <1>2, AppendProperties
<1>5. DisconnectClient(y)
        = [y EXCEPT !.queue = queue, !.asked = asked, !.inSession = FALSE]
  BY DEF DisconnectClient
<1>6. Carries(y) => Fifo(y.received \o queue.wire, queue.outbox,
                         queue.closeWhenReady, asked)
  <2> DEFINE p == Send(y.queue, <<m>>)
  <2>1. <<m>> \in Seq(Message) /\ Len(<<m>>) = 1 /\ <<m>>[1] = m
    BY <1>2
  <2>2. Continues(<<m>>, y.asked)
    BY <2>1 DEF Continues
  <2>3. Append(y.asked, m) = y.asked \o <<m>>
    BY <1>1, <1>2, AppendIsConcat
  <2>4. Carries(y) => Fifo(y.received \o p.wire, p.outbox, p.closeWhenReady, asked)
    BY <1>1, <2>1, <2>2, <2>3, SendCarries DEF Carries
  <2>5. p \in QueueType /\ queue = [p EXCEPT !.ignoreIncoming = TRUE]
    BY <1>1, <2>1, SendType DEF SendDisconnect
  <2> HIDE DEF p, asked, m, queue
  <2>6. queue.wire = p.wire /\ queue.outbox = p.outbox
        /\ queue.closeWhenReady = p.closeWhenReady
    BY <2>5 DEF QueueType
  <2> QED BY <2>4, <2>6
<1> HIDE DEF m, asked, queue
<1> DEFINE w == DisconnectClient(y)
<1>7. w \in ConnType /\ w.queue = queue /\ w.asked = asked
      /\ w.received = y.received /\ w.open = y.open
  BY <1>3, <1>4, <1>5 DEF ConnType
<1>8. Keeps(y, w)
  BY <1>6, <1>7 DEF Keeps, Carries
<1> QED BY <1>5, <1>7, <1>8 DEF ConnType, Same

LEMMA SendErrorSame ==
  ASSUME NEW y \in ConnType
  PROVE  SendError(y) \in ConnType /\ Same(y, SendError(y))
<1>1. Reply(y, "Error") \in ConnType /\ Same(y, Reply(y, "Error"))
  BY ReplySame DEF Kinds, Replies
<1> QED BY <1>1, DisconnectSame DEF SendError, Same, Keeps

\* Who a client is is not sent to it.
LEMMA OtherFieldsKeep ==
  ASSUME NEW y, NEW w, w.received = y.received, w.queue = y.queue,
         w.asked = y.asked, w.open = y.open
  PROVE  Keeps(y, w)
BY DEF Keeps, Carries

-----------------------------------------------------------------------------
(* What a command or an answer may do to a connection.                     *)

\* The identity of a client that has logged in is final, and who logs in
\* without an account is a guest that the server admits.
Admits(y, w) ==
  /\ y.state = "WaitForLogin" =>
       /\ w.state = y.state /\ w.name = y.name /\ w.auth = y.auth
       /\ w.hostPrivilege = y.hostPrivilege
  /\ y.state # "WaitForLogin" /\ w.state = "WaitForLogin" =>
       \/ w.auth # "none"
       \/ "guests" \in config /\ w.name \notin Registered

\* The nonces there are and the queries that may lead to one: no more than the
\* commands received.
Asked(y) == y.nonce + Len(y.queries)

Step(y, w, n) ==
  w \in ConnType /\ Asked(w) <= Asked(y) + n /\ Admits(y, w) /\ Keeps(y, w)

LEMMA AskedIsNat ==
  ASSUME NEW y \in ConnType
  PROVE  Asked(y) \in Nat
BY LenProperties DEF ConnType, Asked

LEMMA SameStep ==
  ASSUME NEW y \in ConnType, NEW w \in ConnType, Same(y, w), NEW n \in Nat
  PROVE  Step(y, w, n)
BY AskedIsNat DEF Step, Same, Admits, Asked

LEMMA StepsCompose ==
  ASSUME NEW y \in ConnType, NEW w, NEW v, NEW m \in Nat, NEW n \in Nat,
         Step(y, w, m), Step(w, v, n)
  PROVE  Step(y, v, m + n)
<1>1. w \in ConnType /\ v \in ConnType
  BY DEF Step
<1>2. Asked(v) <= Asked(y) + (m + n)
  BY <1>1, AskedIsNat DEF Step
<1>3. Admits(y, v) /\ Keeps(y, v)
  BY DEF Step, Admits, Keeps
<1> QED BY <1>1, <1>2, <1>3 DEF Step

LEMMA GuestLoginStep ==
  ASSUME NEW y \in ConnType, NEW name \in Stranger, y.state # "WaitForLogin"
  PROVE  Step(y, GuestLogin(y, name), 0)
<1>1. CASE "guests" \notin config
  BY <1>1, SendErrorSame, SameStep DEF GuestLogin
<1>2. CASE "guests" \in config
  <2> DEFINE w == [y EXCEPT !.name = name, !.state = "WaitForLogin"]
             v == Reply(w, "IdentOk")
  <2>1. w \in ConnType /\ w.state = "WaitForLogin" /\ w.name = name
        /\ Asked(w) = Asked(y)
    BY DEF ConnType, Stranger, Asked
  <2>8. /\ w.received = y.received /\ w.queue = y.queue
        /\ w.asked = y.asked /\ w.open = y.open
    BY DEF ConnType
  <2>9. Keeps(y, w)
    BY <2>8, OtherFieldsKeep
  <2>2. v \in ConnType /\ Same(w, v)
    BY <2>1, ReplySame DEF Kinds, Replies
  <2>3. Reply(v, "Sessions") \in ConnType /\ Same(v, Reply(v, "Sessions"))
    BY <2>2, ReplySame DEF Kinds, Replies
  <2>4. GuestLogin(y, name) = Reply(v, "Sessions")
    BY <1>2 DEF GuestLogin
  <2>5. Step(y, w, 0)
    BY <2>1, <2>9, <1>2, AskedIsNat DEF Step, Admits, Stranger
  <2>6. Step(w, Reply(v, "Sessions"), 0)
    BY <2>1, <2>2, <2>3, SameStep DEF Same, Keeps
  <2> HIDE DEF w, v
  <2>7. Step(y, Reply(v, "Sessions"), 0 + 0)
    BY <2>5, <2>6, StepsCompose
  <2> QED BY <2>4, <2>7
<1> QED BY <1>1, <1>2

LEMMA AuthLoginOkStep ==
  ASSUME NEW y \in ConnType, NEW name \in Name \cup {NoName},
         NEW auth \in {"internal", "external"}, NEW allow \in BOOLEAN,
         y.state # "WaitForLogin"
  PROVE  Step(y, AuthLoginOk(y, name, auth, allow), 0)
<1> DEFINE may == name \in Hosts /\ allow
           w == [y EXCEPT !.name = name, !.auth = auth,
                          !.hostPrivilege = may, !.state = "WaitForLogin"]
           v == Reply(w, "IdentOk")
<1>1. may \in BOOLEAN
  OBVIOUS
<1>2. AuthLoginOk(y, name, auth, allow) = Reply(v, "Sessions")
  BY DEF AuthLoginOk
<1> HIDE DEF may
<1>3. w \in ConnType /\ w.state = "WaitForLogin" /\ w.auth = auth
      /\ Asked(w) = Asked(y)
  BY <1>1 DEF ConnType, Asked
<1>9. /\ w.received = y.received /\ w.queue = y.queue
      /\ w.asked = y.asked /\ w.open = y.open
  BY DEF ConnType
<1>10. Keeps(y, w)
  BY <1>9, OtherFieldsKeep
<1>4. v \in ConnType /\ Same(w, v)
  BY <1>3, ReplySame DEF Kinds, Replies
<1>5. Reply(v, "Sessions") \in ConnType /\ Same(v, Reply(v, "Sessions"))
  BY <1>4, ReplySame DEF Kinds, Replies
<1>6. Step(y, w, 0)
  BY <1>3, <1>10, AskedIsNat DEF Step, Admits
<1>7. Step(w, Reply(v, "Sessions"), 0)
  BY <1>3, <1>4, <1>5, SameStep DEF Same, Keeps
<1> HIDE DEF w, v
<1>8. Step(y, Reply(v, "Sessions"), 0 + 0)
  BY <1>6, <1>7, StepsCompose
<1> QED BY <1>2, <1>8

LEMMA RequestExtAuthStep ==
  ASSUME NEW y \in ConnType
  PROVE  Step(y, RequestExtAuth(y), 1)
<1> DEFINE w == [y EXCEPT !.nonce = @ + 1]
<1>0. y.nonce \in Nat /\ Len(y.queries) \in Nat
  BY LenProperties DEF ConnType
<1>1. w \in ConnType /\ Asked(w) = Asked(y) + 1
  <2> DEFINE n == y.nonce + 1
  <2>0. n \in Nat /\ w = [y EXCEPT !.nonce = n]
    BY <1>0
  <2> HIDE DEF n, w
  <2>1. w \in ConnType /\ w.nonce = n /\ w.queries = y.queries
    BY <2>0 DEF ConnType
  <2> QED BY <2>1, <1>0 DEF Asked, n
<1>2. Step(y, w, 1)
  <2>1. Keeps(y, w)
    BY OtherFieldsKeep DEF ConnType
  <2>2. Admits(y, w)
    BY DEF Admits, ConnType
  <2> HIDE DEF w
  <2> QED BY <1>1, <2>1, <2>2, AskedIsNat DEF Step
<1>3. Step(w, Reply(w, "NeedExtAuth"), 0)
  BY <1>1, ReplySame, SameStep DEF Kinds, Replies
<1>4. RequestExtAuth(y) = Reply(w, "NeedExtAuth")
  BY DEF RequestExtAuth
<1> HIDE DEF w
<1>5. Step(y, Reply(w, "NeedExtAuth"), 1 + 0)
  BY <1>2, <1>3, StepsCompose
<1> QED BY <1>4, <1>5

LEMMA StepGrows ==
  ASSUME NEW y \in ConnType, NEW w, Step(y, w, 0)
  PROVE  Step(y, w, 1)
<1>1. /\ w \in ConnType /\ Asked(w) <= Asked(y) + 0 /\ Admits(y, w)
      /\ Keeps(y, w)
  BY DEF Step
<1>2. Asked(w) \in Nat /\ Asked(y) \in Nat
  BY <1>1, AskedIsNat
<1>3. Asked(w) <= Asked(y) + 1
  BY <1>1, <1>2
<1> QED BY <1>1, <1>3 DEF Step

\* An unknown name is at most put to the authentication server, or the client
\* told to ask it: one query or one nonce.
LEMMA IdentUnknownStep ==
  ASSUME NEW y \in ConnType, NEW cmd \in CommandType,
         cmd.name \in Stranger, y.state # "WaitForLogin"
  PROVE  Step(y, IdentUnknown(y, cmd), 1)
<1>2. Step(y, SendError(y), 1)
  BY SendErrorSame, SameStep
<1>3. Step(y, Reply(y, "NeedPassword"), 1)
  BY ReplySame, SameStep DEF Kinds, Replies
<1>4. Step(y, RequestExtAuth(y), 1)
  BY RequestExtAuthStep
<1>5. Step(y, GuestLogin(y, cmd.name), 1)
  BY GuestLoginStep, StepGrows
<1>6. Step(y, AuthLoginOk(y, cmd.as, "external", "extAuthHost" \in config), 1)
  <2>1. cmd.as \in Name \cup {NoName}
    BY DEF CommandType
  <2>2. ("extAuthHost" \in config) \in BOOLEAN
    OBVIOUS
  <2> QED BY <2>1, <2>2, AuthLoginOkStep, StepGrows
<1>7. Step(y, [y EXCEPT !.queries = Append(@, cmd.name)], 1)
  <2> DEFINE s == Append(y.queries, cmd.name)
  <2>1. s \in Seq(Stranger) /\ Len(s) = Len(y.queries) + 1
    BY AppendProperties DEF ConnType
  <2> HIDE DEF s
  <2>2. [y EXCEPT !.queries = s] \in ConnType
    BY <2>1 DEF ConnType
  <2>3. Asked([y EXCEPT !.queries = s]) = Asked(y) + 1
    <3>1. /\ [y EXCEPT !.queries = s].nonce = y.nonce
          /\ [y EXCEPT !.queries = s].queries = s
      BY DEF ConnType
    <3>2. y.nonce \in Nat /\ Len(y.queries) \in Nat
      BY LenProperties DEF ConnType
    <3> QED BY <3>1, <3>2, <2>1 DEF Asked
  <2>4. /\ Admits(y, [y EXCEPT !.queries = s])
        /\ Keeps(y, [y EXCEPT !.queries = s])
    BY OtherFieldsKeep DEF Admits, ConnType
  <2>5. Step(y, [y EXCEPT !.queries = s], 1)
    BY <2>2, <2>3, <2>4, AskedIsNat DEF Step
  <2> QED BY <2>5 DEF s
<1>8. cmd.token \in Nat
  BY DEF CommandType
<1>9. CASE "extAuth" \in config /\ cmd.token > 0
  BY <1>9, <1>2, <1>6, <1>8 DEF IdentUnknown
<1>10. CASE "extAuth" \in config /\ cmd.token = 0
  BY <1>10, <1>4, <1>7 DEF IdentUnknown
<1>11. CASE "extAuth" \notin config /\ "guests" \in config
  BY <1>11, <1>5 DEF IdentUnknown
<1>12. CASE "extAuth" \notin config /\ "guests" \notin config
  BY <1>12, <1>2, <1>3 DEF IdentUnknown
<1> QED BY <1>8, <1>9, <1>10, <1>11, <1>12

LEMMA HandleIdentStep ==
  ASSUME NEW y \in ConnType, NEW cmd \in CommandType,
         cmd.name \in Name, y.state # "WaitForLogin"
  PROVE  Step(y, HandleIdent(y, cmd), 1)
<1>1. Step(y, SendError(y), 1)
  BY SendErrorSame, SameStep
<1>2. Step(y, Reply(y, "NeedPassword"), 1)
  BY ReplySame, SameStep DEF Kinds, Replies
<1>3. Step(y, AuthLoginOk(y, cmd.name, "internal", TRUE), 1)
  BY AuthLoginOkStep, StepGrows
<1>4. cmd.token \in Nat /\ cmd.password \in {"none", "good", "bad"}
  BY DEF CommandType
<1>5. CASE cmd.name \notin Registered
  <2>1. Step(y, IdentUnknown(y, cmd), 1)
    BY <1>5, IdentUnknownStep DEF Stranger
  <2>2. cmd.name \notin BannedNames
    BY <1>5, NameAssumption
  <2>3. HandleIdent(y, cmd) = IdentUnknown(y, cmd)
    BY <1>5, <2>2 DEF HandleIdent
  <2> QED BY <2>1, <2>3
<1>6. CASE cmd.name \in Registered
  <2>1. BannedNames \subseteq Registered
    BY NameAssumption
  <2>2. CASE cmd.token > 0
    <3>1. cmd.token # 0
      BY <2>2, <1>4
    <3> QED BY <2>2, <3>1, <1>6, <1>1 DEF HandleIdent
  <2>3. CASE cmd.token = 0
    <3>1. ~(cmd.token > 0)
      BY <2>3
    <3>2. CASE cmd.name \in BannedNames
      BY <2>3, <3>1, <3>2, <1>6, <1>1 DEF HandleIdent
    <3>3. CASE cmd.name \notin BannedNames
      BY <2>3, <3>1, <3>3, <1>1, <1>2, <1>3, <1>4, <1>6 DEF HandleIdent
    <3> QED BY <3>2, <3>3
  <2> QED BY <2>2, <2>3, <1>4
<1> QED BY <1>5, <1>6

LEMMA EnterSessionStep ==
  ASSUME NEW y \in ConnType, NEW cmd \in CommandType
  PROVE  Step(y, EnterSession(y, cmd), 1)
<1> DEFINE w == Reply(y, "Accepted")
           v == [w EXCEPT !.complete = TRUE, !.inSession = TRUE,
                          !.handler = "leaving"]
<1>1. Step(y, SendError(y), 1)
  BY SendErrorSame, SameStep
<1>2. w \in ConnType /\ Same(y, w)
  BY ReplySame DEF Kinds, Replies
<1> HIDE DEF w
<1>3. v \in ConnType /\ Same(y, v)
  <2>1. /\ v \in ConnType /\ v.state = w.state /\ v.name = w.name
        /\ v.auth = w.auth /\ v.hostPrivilege = w.hostPrivilege
        /\ v.nonce = w.nonce /\ v.queries = w.queries
    BY <1>2 DEF ConnType
  <2>2. /\ v.received = w.received /\ v.queue = w.queue
        /\ v.asked = w.asked /\ v.open = w.open
    BY <1>2 DEF ConnType
  <2> HIDE DEF v
  <2>3. Keeps(w, v)
    BY <2>2, OtherFieldsKeep
  <2> QED BY <1>2, <2>1, <2>3 DEF Same, Keeps
<1>4. Step(y, v, 1)
  BY <1>3, SameStep
<1>5. EnterSession(y, cmd) = SendError(y) \/ EnterSession(y, cmd) = v
  BY DEF EnterSession, w
<1> HIDE DEF v
<1> QED BY <1>1, <1>4, <1>5

\* What is in a command that identifies
IsCommand(cmd) == cmd \in CommandType /\ (cmd.c = "ident" => cmd.name \in Name)

LEMMA HandleMessageStep ==
  ASSUME NEW y \in ConnType, NEW cmd, IsCommand(cmd)
  PROVE  Step(y, HandleMessage(y, cmd), 1)
<1>1. cmd \in CommandType /\ (cmd.c = "ident" => cmd.name \in Name)
  BY DEF IsCommand
<1>2. Step(y, y, 1)
  BY SameStep DEF Same, Keeps
<1>3. Step(y, SendError(y), 1)
  BY SendErrorSame, SameStep
<1>4. Step(y, DisconnectClient(y), 1)
  BY DisconnectSame, SameStep
<1>5. Step(y, HandleLoginMessage(y, cmd), 1)
  <2>1. CASE y.state = "WaitForSecure"
    <3> DEFINE w == Reply(y, "TlsStart")
               v == [w EXCEPT !.state = "WaitForIdent"]
    <3>1. w \in ConnType /\ Same(y, w)
      BY ReplySame DEF Kinds, Replies
    <3> HIDE DEF w
    <3>2. v \in ConnType /\ v.state = "WaitForIdent" /\ Asked(v) = Asked(y)
      BY <3>1 DEF ConnType, Same, Asked
    <3>5. /\ v.received = w.received /\ v.queue = w.queue
          /\ v.asked = w.asked /\ v.open = w.open
      BY <3>1 DEF ConnType
    <3>6. HandleLoginMessage(y, cmd) \in {SendError(y), v}
      BY <2>1 DEF HandleLoginMessage, w
    <3> HIDE DEF v
    <3>4. Keeps(w, v)
      BY <3>5, OtherFieldsKeep
    <3>3. Step(y, v, 1)
      <4>1. Keeps(y, v)
        BY <3>1, <3>4 DEF Same, Keeps
      <4> QED BY <2>1, <3>2, <4>1, AskedIsNat DEF Step, Admits
    <3> QED BY <1>3, <3>3, <3>6
  <2>2. CASE y.state = "WaitForIdent"
    <3>1. CASE cmd.c = "ident"
      <4>1. Step(y, HandleIdent(y, cmd), 1)
        BY <1>1, <2>2, <3>1, HandleIdentStep
      <4> QED BY <4>1, <2>2, <3>1 DEF HandleLoginMessage
    <3>2. CASE cmd.c # "ident"
      BY <1>4, <2>2, <3>2 DEF HandleLoginMessage
    <3> QED BY <3>1, <3>2
  <2>3. CASE y.state = "WaitForLogin"
    <3>1. Step(y, EnterSession(y, cmd), 1)
      BY <1>1, EnterSessionStep
    <3>2. HandleLoginMessage(y, cmd)
            \in {EnterSession(y, cmd), y, DisconnectClient(y)}
      BY <2>3 DEF HandleLoginMessage
    <3> QED BY <3>1, <3>2, <1>2, <1>4
  <2> QED BY <2>1, <2>2, <2>3 DEF ConnType
<1> QED BY <1>2, <1>5 DEF HandleMessage

LEMMA CommandsAreCommands ==
  ASSUME z.nonce \in Nat, NEW cmd \in Commands
  PROVE  IsCommand(cmd)
<1> DEFINE A == {Plain(c, TRUE) : c \in {"startTls", "report", "other"}}
           B == {Plain(c, ok) : c \in {"host", "join"}, ok \in BOOLEAN}
           C == {Ident(name, password, 0, NoName) :
                   name \in Name, password \in {"none", "good", "bad"}}
           D == {Ident(name, "none", token, as) :
                   name \in Name, token \in 1..z.nonce, as \in Name}
<1>1. CASE cmd \in A
  <2>1. PICK c \in {"startTls", "report", "other"} : cmd = Plain(c, TRUE)
    BY <1>1
  <2> QED BY <2>1 DEF Plain, IsCommand, CommandType
<1>2. CASE cmd \in B
  <2>1. PICK c \in {"host", "join"}, ok \in BOOLEAN : cmd = Plain(c, ok)
    BY <1>2
  <2> QED BY <2>1 DEF Plain, IsCommand, CommandType
<1>3. CASE cmd \in C
  <2>1. PICK name \in Name, password \in {"none", "good", "bad"} :
          cmd = Ident(name, password, 0, NoName)
    BY <1>3
  <2> QED BY <2>1 DEF Ident, IsCommand, CommandType
<1>4. CASE cmd \in D
  <2>1. PICK name \in Name, token \in 1..z.nonce, as \in Name :
          cmd = Ident(name, "none", token, as)
    BY <1>4
  <2>2. token \in Nat
    OBVIOUS
  <2> QED BY <2>1, <2>2 DEF Ident, IsCommand, CommandType
<1>5. Commands = A \cup B \cup C \cup D
  BY DEF Commands
<1> HIDE DEF A, B, C, D
<1> QED BY <1>1, <1>2, <1>3, <1>4, <1>5

\* An answer uses up its query, and gives at most a nonce for it.
LEMMA QueryFinishedStep ==
  ASSUME z \in ConnType, NEW i, NEW answer, QueryFinished(i, answer)
  PROVE  Step(z, z', 0)
<1> DEFINE s == SubSeq(z.queries, 1, i - 1)
                \o SubSeq(z.queries, i + 1, Len(z.queries))
           y == [z EXCEPT !.queries = s]
           name == z.queries[i]
<1>1. z.queries \in Seq(Stranger) /\ Len(z.queries) \in Nat
      /\ i \in 1..Len(z.queries) /\ z.nonce \in Nat
  BY LenProperties DEF QueryFinished, ConnType
<1>2. name \in Stranger
  BY <1>1, ElementOfSeq
<1>3. s \in Seq(Stranger) /\ Len(s) = Len(z.queries) - 1
  <2> DEFINE before == SubSeq(z.queries, 1, i - 1)
             after == SubSeq(z.queries, i + 1, Len(z.queries))
  <2>1. before \in Seq(Stranger) /\ Len(before) = i - 1
    BY <1>1, SubSeqProperties
  <2>2. after \in Seq(Stranger) /\ Len(after) = Len(z.queries) - i
    BY <1>1, SubSeqProperties
  <2> HIDE DEF before, after
  <2>3. before \o after \in Seq(Stranger)
        /\ Len(before \o after) = Len(before) + Len(after)
    BY <2>1, <2>2, ConcatProperties
  <2>4. Len(before \o after) = Len(z.queries) - 1
    BY <1>1, <2>1, <2>2, <2>3
  <2> QED BY <2>3, <2>4 DEF before, after
<1>4. z' = AuthAnswer(y, name, answer)
  BY DEF QueryFinished
<1> HIDE DEF s, name
<1>5. y \in ConnType /\ y.nonce = z.nonce /\ y.queries = s
      /\ y.state = z.state /\ y.name = z.name /\ y.auth = z.auth
      /\ y.hostPrivilege = z.hostPrivilege
  BY <1>3 DEF ConnType
<1>11. Keeps(z, y)
  BY OtherFieldsKeep DEF ConnType
<1> HIDE DEF y
<1>6. Asked(y) = Asked(z) - 1
  BY <1>1, <1>3, <1>5, SMTT(40) DEF Asked
<1>7. Step(y, AuthAnswer(y, name, answer), 1)
  <2>1. Step(y, SendError(y), 1)
    BY <1>5, SendErrorSame, SameStep
  <2>2. Step(y, RequestExtAuth(y), 1)
    BY <1>5, RequestExtAuthStep
  <2>3. CASE y.state # "WaitForIdent"
    BY <2>1, <2>3 DEF AuthAnswer
  <2>4. CASE y.state = "WaitForIdent"
    <3>1. Step(y, GuestLogin(y, name), 1)
      BY <1>2, <1>5, <2>4, GuestLoginStep, StepGrows
    <3>2. AuthAnswer(y, name, answer)
            \in {GuestLogin(y, name), RequestExtAuth(y), SendError(y)}
      BY <2>4 DEF AuthAnswer
    <3> QED BY <2>1, <2>2, <3>1, <3>2
  <2> QED BY <2>3, <2>4
<1>8. z' \in ConnType /\ Asked(z') <= Asked(y) + 1 /\ Admits(y, z')
      /\ Keeps(y, z')
  BY <1>4, <1>7 DEF Step
<1>9. Admits(z, z') /\ Keeps(z, z')
  BY <1>5, <1>8, <1>11 DEF Admits, Keeps
<1>10. Asked(z') <= Asked(z) + 0
  BY <1>1, <1>5, <1>6, <1>8, AskedIsNat
<1> QED BY <1>8, <1>9, <1>10 DEF Step

-----------------------------------------------------------------------------
(* The invariant.                                                          *)

CountType == [commands : 0..MaxCommands, news : 0..MaxNews,
              changes : 0..MaxChanges]

\* There are never more nonces and open queries than commands received, and
\* every open query is about a name without an account: that is what a late
\* answer relies on.  While it is open, a connection carries all it was given.
Inv ==
  /\ z \in ConnType /\ config \subseteq Settings /\ count \in CountType
  /\ Asked(z) <= count.commands
  /\ z.open => Carries(z)

LEMMA InitInv == Init => Inv
<1> SUFFICES ASSUME Init PROVE Inv
  OBVIOUS
<1>1. PICK ssl \in BOOLEAN : z = Deliver(
       [state |-> IF ssl THEN "WaitForSecure" ELSE "WaitForIdent",
        nonce |-> 0, hostPrivilege |-> FALSE, complete |-> FALSE,
        handler |-> "live", name |-> NoName, auth |-> "none",
        inSession |-> FALSE, queries |-> <<>>, queue |-> NewQueue,
        open |-> TRUE, asked |-> <<>>, received |-> <<>>],
       <<"Greeting">>)
  BY DEF Init
<1> DEFINE y ==
       [state |-> IF ssl THEN "WaitForSecure" ELSE "WaitForIdent",
        nonce |-> 0, hostPrivilege |-> FALSE, complete |-> FALSE,
        handler |-> "live", name |-> NoName, auth |-> "none",
        inSession |-> FALSE, queries |-> <<>>, queue |-> NewQueue,
        open |-> TRUE, asked |-> <<>>, received |-> <<>>]
<1>2. y \in ConnType /\ Asked(y) = 0
  BY NewQueueType, EmptySeq DEF ConnType, Asked
<1>9. Carries(y)
  <2>1. /\ y.received = <<>> /\ y.asked = <<>> /\ y.queue.wire = <<>>
        /\ y.queue.outbox = <<>> /\ ~y.queue.closeWhenReady
    BY DEF NewQueue
  <2>2. Waiting(<<>> \o <<>>, <<>>, <<>>)
    <3>1. (<<>> \o <<>>) \o <<>> = <<>> /\ <<>> \o <<>> = <<>>
          /\ Len(<<>>) = 0 /\ 1..0 = {}
      OBVIOUS
    <3>2. Told(<<>>) = {}
      BY <3>1 DEF Told
    <3> QED BY <3>1, <3>2 DEF Waiting, InOrder
  <2> HIDE DEF y
  <2> QED BY <2>1, <2>2 DEF Carries, Fifo
<1>3. z = Deliver(y, <<"Greeting">>)
  BY <1>1
<1> HIDE DEF y
<1>4. <<"Greeting">> \in Seq(Replies)
  BY DEF Kinds, Replies
<1>5. z \in ConnType /\ Same(y, z)
  BY <1>2, <1>3, <1>4, DeliverSame
<1>6. Asked(z) = 0
  BY <1>2, <1>5 DEF Same, Asked
<1>7. count \in CountType /\ count.commands = 0
  BY NameAssumption DEF Init, CountType
<1>8. config \subseteq Settings
  BY NameAssumption DEF Init
<1>10. Carries(z)
  BY <1>5, <1>9 DEF Same, Keeps
<1> QED BY <1>5, <1>6, <1>7, <1>8, <1>10 DEF Inv

\* Each event adds no more nonces and queries than it counts commands, and
\* changes who a client is only by the rules of the moment.
Moves == z' \in ConnType /\ Admits(z, z') /\ config' \subseteq Settings
         /\ count' \in CountType /\ Asked(z') <= count'.commands
         /\ (z'.open => Carries(z'))

LEMMA StepMoves ==
  ASSUME Inv, NEW n \in Nat, Step(z, z', n),
         UNCHANGED config, count' \in CountType,
         count'.commands = count.commands + n
  PROVE  Moves
<1>1. Asked(z) \in Nat /\ Asked(z') \in Nat
  BY AskedIsNat DEF Inv, Step
<1>2. count.commands \in Nat
  BY NameAssumption DEF Inv, CountType
<1>3. Asked(z') <= count'.commands
  BY <1>1, <1>2 DEF Inv, Step
<1>4. z'.open => Carries(z')
  BY DEF Inv, Step, Keeps
<1> QED BY <1>3, <1>4 DEF Inv, Step, Moves

LEMMA ReadDataMoves ==
  ASSUME Inv, NEW c, IsCommand(c), NEW d, IsCommand(d),
         ReadData(<<c>>) \/ ReadData(<<c, d>>)
  PROVE  Moves
<1>1. z \in ConnType /\ count \in CountType
  BY DEF Inv
<1> DEFINE w == HandleMessage(z, c)
           v == HandleMessage(w, d)
<1>2. Step(z, w, 1)
  BY <1>1, HandleMessageStep
<1>3. Step(w, v, 1)
  <2>1. w \in ConnType
    BY <1>2 DEF Step
  <2> HIDE DEF w
  <2> QED BY <2>1, HandleMessageStep
<1>4. CASE ReadData(<<c>>)
  <2>1. Len(<<c>>) = 1 /\ <<c>>[1] = c
    OBVIOUS
  <2>2. z' = w /\ UNCHANGED config
        /\ count' = [count EXCEPT !.commands = @ + 1]
        /\ count.commands + 1 <= MaxCommands
    BY <1>4, <2>1 DEF ReadData
  <2>3. count' \in CountType /\ count'.commands = count.commands + 1
    BY <1>1, <2>2, NameAssumption DEF CountType
  <2> HIDE DEF w
  <2> QED BY <1>2, <2>2, <2>3, StepMoves
<1>5. CASE ReadData(<<c, d>>)
  <2>1. Len(<<c, d>>) = 2 /\ <<c, d>>[1] = c /\ <<c, d>>[2] = d
    OBVIOUS
  <2>2. z' = v /\ UNCHANGED config
        /\ count' = [count EXCEPT !.commands = @ + 2]
        /\ count.commands + 2 <= MaxCommands
    BY <1>5, <2>1 DEF ReadData
  <2>3. count' \in CountType /\ count'.commands = count.commands + 2
    BY <1>1, <2>2, NameAssumption DEF CountType
  <2> HIDE DEF w, v
  <2>4. Step(z, v, 1 + 1)
    BY <1>1, <1>2, <1>3, StepsCompose
  <2>5. Step(z, z', 2)
    BY <2>2, <2>4
  <2> QED BY <2>2, <2>3, <2>5, StepMoves
<1> QED BY <1>4, <1>5

\* What is sent, written or lost moves nobody's identity.
LEMMA SameMoves ==
  ASSUME Inv, z' \in ConnType, Same(z, z'), UNCHANGED config,
         count' \in CountType, count'.commands = count.commands
  PROVE  Moves
<1>1. Step(z, z', 0)
  BY SameStep DEF Inv
<1>2. count.commands + 0 = count.commands
  BY NameAssumption DEF Inv, CountType
<1> QED BY <1>1, <1>2, StepMoves

LEMMA NewsCounts ==
  ASSUME Inv, News
  PROVE  count' \in CountType /\ count'.commands = count.commands
BY NameAssumption DEF Inv, News, CountType

\* The handler, and with it its queries, may go at any time.
LEMMA DropMoves ==
  ASSUME Inv, z' \in ConnType, UNCHANGED <<config, count>>,
         z'.queries = <<>>, z'.nonce = z.nonce, z'.state = z.state,
         z'.name = z.name, z'.auth = z.auth,
         z'.hostPrivilege = z.hostPrivilege, z'.open => Carries(z')
  PROVE  Moves
<1>1. Asked(z') = z.nonce /\ z.nonce \in Nat /\ Len(z.queries) \in Nat
  BY LenProperties DEF Inv, ConnType, Asked
<1>2. Asked(z') <= Asked(z)
  BY <1>1 DEF Asked
<1>3. Asked(z') <= count'.commands
  BY <1>1, <1>2, NameAssumption, AskedIsNat DEF Inv, CountType
<1>4. Admits(z, z')
  BY DEF Admits
<1> QED BY <1>3, <1>4 DEF Inv, Moves

LEMMA NextMoves == Inv /\ Next => Moves
<1> SUFFICES ASSUME Inv, Next PROVE Moves
  OBVIOUS
<1>1. z \in ConnType /\ count \in CountType /\ z.nonce \in Nat
  BY DEF Inv, ConnType
<1>2. ASSUME NEW c \in Commands, ReadData(<<c>>) PROVE Moves
  <2>1. IsCommand(c)
    BY <1>1, CommandsAreCommands
  <2> QED BY <2>1, <1>2, ReadDataMoves
<1>3. ASSUME NEW c \in Commands, NEW d \in Commands, ReadData(<<c, d>>)
      PROVE  Moves
  <2>1. IsCommand(c) /\ IsCommand(d)
    BY <1>1, CommandsAreCommands
  <2> QED BY <2>1, <1>3, ReadDataMoves
<1>4. CASE ReadPing
  <2> DEFINE q == SendNow(z.queue, [k |-> "Pong", n |-> 0])
  <2>1. [k |-> "Pong", n |-> 0] \in Message
    BY DEF Message, Kinds
  <2>2. q \in QueueType
    BY <1>1, <2>1, SendNowType DEF ConnType
  <2>3. z' = [z EXCEPT !.queue = q] /\ UNCHANGED config /\ News
    BY <1>4 DEF ReadPing
  <2> HIDE DEF q
  <2>5. Keeps(z, z')
    <3>1. /\ z.queue \in QueueType /\ z.received \in Seq(Message)
          /\ z.asked \in Seq(Message)
      BY <1>1 DEF ConnType
    <3>2. Carries(z) => Fifo(z.received \o q.wire, q.outbox, q.closeWhenReady, z.asked)
      BY <3>1, <2>1, SendNowCarries DEF Carries, q
    <3>3. /\ z'.queue = q /\ z'.received = z.received /\ z'.asked = z.asked
          /\ z'.open = z.open
      BY <1>1, <2>3 DEF ConnType
    <3> QED BY <3>2, <3>3 DEF Keeps, Carries
  <2>4. z' \in ConnType /\ Same(z, z')
    BY <1>1, <2>2, <2>3, <2>5 DEF ConnType, Same
  <2> QED BY <2>3, <2>4, NewsCounts, SameMoves
<1>5. ASSUME NEW i, NEW answer, QueryFinished(i, answer) PROVE Moves
  <2>1. Step(z, z', 0)
    BY <1>1, <1>5, QueryFinishedStep
  <2>2. UNCHANGED <<config, count>> /\ count'.commands = count.commands + 0
    BY <1>1, <1>5, NameAssumption DEF QueryFinished, CountType
  <2> QED BY <1>1, <2>1, <2>2, StepMoves
<1>6. CASE DeleteHandler
  <2>1. /\ z' \in ConnType /\ z'.queries = <<>> /\ z'.nonce = z.nonce
        /\ z'.state = z.state /\ z'.name = z.name /\ z'.auth = z.auth
        /\ z'.hostPrivilege = z.hostPrivilege
    BY <1>1, <1>6, EmptySeq DEF DeleteHandler, ConnType
  <2>4. /\ z'.received = z.received /\ z'.queue = z.queue
        /\ z'.asked = z.asked /\ z'.open = z.open
    BY <1>1, <1>6 DEF DeleteHandler, ConnType
  <2>2. Keeps(z, z')
    BY <2>4, OtherFieldsKeep
  <2>3. z'.open => Carries(z')
    BY <2>2 DEF Keeps, Inv
  <2> QED BY <2>1, <2>3, <1>6, DropMoves DEF DeleteHandler
<1>7. CASE AnnounceSession
  <2>1. z' \in ConnType /\ Same(z, z')
    BY <1>1, <1>7, ReplySame DEF AnnounceSession, Kinds, Replies
  <2> QED BY <2>1, <1>7, NewsCounts, SameMoves DEF AnnounceSession
<1>8. CASE SendHistory
  <2>1. <<"History", "History">> \in Seq(Replies)
    BY DEF Kinds, Replies
  <2>2. z' \in ConnType /\ Same(z, z')
    BY <1>1, <1>8, <2>1, DeliverSame DEF SendHistory
  <2> QED BY <2>2, <1>8, NewsCounts, SameMoves DEF SendHistory
<1>9. CASE Kick
  <2>1. z' \in ConnType /\ Same(z, z')
    BY <1>1, <1>9, DisconnectSame DEF Kick
  <2> QED BY <1>1, <2>1, <1>9, SameMoves DEF Kick
<1>10. CASE SocketWrites
  <2> DEFINE closed == z.queue.closeWhenReady
             received == z.received \o z.queue.wire
             queue == DataWritten(z.queue)
             open == ~closed
             handler == IF closed THEN "deleted" ELSE z.handler
             queries == IF closed THEN <<>> ELSE z.queries
             inSession == z.inSession /\ ~closed
  <2>1. z' = [z EXCEPT !.received = received, !.queue = queue, !.open = open,
                       !.handler = handler, !.queries = queries,
                       !.inSession = inSession]
        /\ UNCHANGED <<config, count>>
    BY <1>10 DEF SocketWrites
  <2>2. received \in Seq(Message)
    BY <1>1, ConcatProperties DEF ConnType, QueueType
  <2>3. queue \in QueueType
    BY <1>1, DataWrittenType DEF ConnType
  <2>4. open \in BOOLEAN /\ inSession \in BOOLEAN
    OBVIOUS
  <2>5. handler \in {"live", "leaving", "deleted"} /\ queries \in Seq(Stranger)
    BY <1>1, EmptySeq DEF ConnType
  <2>6. (closed => queries = <<>> /\ ~open)
        /\ (~closed => queries = z.queries /\ open)
    OBVIOUS
  <2>10. ~closed /\ Carries(z) =>
           Fifo(received \o queue.wire, queue.outbox, queue.closeWhenReady, z.asked)
    <3>1. /\ z.queue \in QueueType /\ z.received \in Seq(Message)
          /\ z.asked \in Seq(Message)
      BY <1>1 DEF ConnType
    <3> QED BY <3>1, DataWrittenCarries DEF Carries
  <2>11. z.open = TRUE
    BY <1>1, <1>10 DEF SocketWrites, ConnType
  <2> HIDE DEF received, queue, open, handler, queries, inSession
  <2>7. /\ z' \in ConnType /\ z'.queries = queries /\ z'.nonce = z.nonce
        /\ z'.state = z.state /\ z'.name = z.name /\ z'.auth = z.auth
        /\ z'.hostPrivilege = z.hostPrivilege /\ z'.open = open
        /\ z'.received = received /\ z'.queue = queue /\ z'.asked = z.asked
    BY <1>1, <2>1, <2>2, <2>3, <2>4, <2>5 DEF ConnType
  <2>8. CASE closed
    BY <2>1, <2>6, <2>7, <2>8, DropMoves
  <2>9. CASE ~closed
    <3>1. Keeps(z, z')
      BY <2>4, <2>6, <2>7, <2>9, <2>10, <2>11 DEF Keeps, Carries
    <3>2. Same(z, z')
      BY <2>6, <2>7, <2>9, <3>1 DEF Same
    <3> QED BY <1>1, <2>1, <2>7, <3>2, SameMoves
  <2> QED BY <2>8, <2>9
<1>11. CASE Lose
  <2>1. /\ z' \in ConnType /\ z'.queries = <<>> /\ z'.nonce = z.nonce
        /\ z'.state = z.state /\ z'.name = z.name /\ z'.auth = z.auth
        /\ z'.hostPrivilege = z.hostPrivilege /\ ~z'.open
    BY <1>1, <1>11, EmptySeq, NewQueueType DEF Lose, ConnType
  <2> QED BY <2>1, <1>11, DropMoves DEF Lose
<1>12. ASSUME NEW setting \in Settings, Configure(setting) PROVE Moves
  <2>1. config' \subseteq Settings /\ UNCHANGED z
    BY <1>12 DEF Configure, Inv
  <2>2. count' \in CountType /\ count'.commands = count.commands
    BY <1>1, <1>12, NameAssumption DEF Configure, CountType
  <2>3. z' \in ConnType /\ Admits(z, z')
    BY <1>1, <2>1 DEF Admits
  <2>4. Asked(z') <= count'.commands
    BY <2>1, <2>2 DEF Inv, Asked
  <2>5. z'.open => Carries(z')
    BY <2>1 DEF Inv, Carries
  <2> QED BY <2>1, <2>2, <2>3, <2>4, <2>5 DEF Moves
<1> QED BY <1>2, <1>3, <1>4, <1>5, <1>6, <1>7, <1>8, <1>9, <1>10, <1>11,
           <1>12 DEF Next

LEMMA MovesInv == Moves => Inv'
BY DEF Moves, Inv, Asked, Carries

LEMMA StutterInv == Inv /\ UNCHANGED vars => Inv'
BY DEF Inv, vars, Asked, Carries

LEMMA AlwaysInv == Spec => []Inv
<1>1. Inv /\ [Next]_vars => Inv'
  BY NextMoves, MovesInv, StutterInv
<1> QED BY InitInv, <1>1, PTL DEF Spec

-----------------------------------------------------------------------------

\* The types of a connection: at all times its state, its queue and its open
\* queries are what LoginHandler and MessageQueue take them for, and there are
\* never more nonces than commands, whatever the authentication server answers.
THEOREM LoginTypeCorrect == Spec => []TypeOK
<1>1. Inv => TypeOK
  <2> SUFFICES ASSUME Inv PROVE TypeOK
    OBVIOUS
  <2>1. z \in ConnType /\ config \subseteq Settings /\ count \in CountType
    BY DEF Inv
  <2>2. count.commands \in 0..MaxCommands /\ MaxCommands \in Nat
    BY <2>1, NameAssumption DEF CountType
  <2>3. z.nonce \in Nat /\ Len(z.queries) \in Nat
    BY <2>1, LenProperties DEF ConnType
  <2>4. z.nonce \in 0..MaxCommands
    BY <2>2, <2>3 DEF Inv, Asked
  <2>5. z.queries \in Seq(Name)
    <3>1. z.queries \in Seq(Stranger) /\ Stranger \subseteq Name
      BY <2>1 DEF ConnType, Stranger
    <3>2. z.queries = [i \in 1..Len(z.queries) |-> z.queries[i]]
      BY <3>1, SeqDef
    <3>3. \A i \in 1..Len(z.queries) : z.queries[i] \in Name
      BY <3>1, ElementOfSeq
    <3> QED BY <2>3, <3>2, <3>3, IsASeq
  <2> QED BY <2>1, <2>4, <2>5 DEF ConnType, QueueType, CountType, TypeOK
<1> QED BY AlwaysInv, <1>1, PTL

\* Who a client is is decided once: no second command, late answer of the
\* authentication server or change of the settings alters the name, the
\* account or the right to host of a client that has logged in (the check of
\* m_state in extAuthGuestLogin's lambda, and handleLoginMessage).
THEOREM IdentityDecidedOnce == Spec => IdentityIsFinal
<1>1. Inv /\ [Next]_vars =>
        [z.state = "WaitForLogin" =>
           <<z'.state, z'.name, z'.auth, z'.hostPrivilege>>
             = <<z.state, z.name, z.auth, z.hostPrivilege>>]_vars
  BY NextMoves DEF Moves, Admits
<1> QED BY AlwaysInv, <1>1, PTL DEF Spec, IdentityIsFinal

\* A client logs in without an account only while the server admits guests,
\* and under no name that has an account here, however many settings have been
\* changed and queries answered since its name was checked (guestLogin): the
\* open queries are all about names without an account (the accounts of a
\* server are a constant here).
THEOREM OnlyGuestsAdmitted == Spec => GuestsAreAdmitted
<1>1. Inv /\ [Next]_vars =>
        [z.state # "WaitForLogin" /\ z'.state = "WaitForLogin" =>
           \/ z'.auth # "none"
           \/ "guests" \in config /\ z'.name \notin Registered]_vars
  BY NextMoves DEF Moves, Admits
<1> QED BY AlwaysInv, <1>1, PTL DEF Spec, GuestsAreAdmitted

-----------------------------------------------------------------------------
(* The connection is a queue.                                              *)

\* What is due ends with the first Disconnect, or with all that was asked.
LEMMA DueIs ==
  ASSUME NEW asked \in Seq(Message)
  PROVE  \E d \in 0..Len(asked) :
           /\ Len(Due(asked)) = d
           /\ \A n \in 1..d : Due(asked)[n] = asked[n]
           /\ \A n \in 1..(d - 1) : asked[n].k # "Disconnect"
           /\ d = Len(asked) \/ (d >= 1 /\ asked[d].k = "Disconnect")
<1> DEFINE at == {i \in 1..Len(asked) : asked[i].k = "Disconnect"}
<1>1. Len(asked) \in Nat
  BY LenProperties
<1>2. CASE at = {}
  <2>1. Due(asked) = asked
    BY <1>2 DEF Due
  <2>2. \A n \in 1..(Len(asked) - 1) : n \in 1..Len(asked)
    BY <1>1
  <2>3. Len(asked) \in 0..Len(asked)
    BY <1>1
  <2> QED BY <1>2, <2>1, <2>2, <2>3
<1>3. CASE at # {}
  <2> DEFINE R == OpToRel(<, Nat)
  <2>1. IsWellFoundedOn(R, Nat)
    BY NatLessThanWellFounded
  <2>2. at \subseteq Nat
    BY <1>1
  <2>3. PICK d \in at : \A i \in at : ~(<<i, d>> \in R)
    BY <1>3, <2>1, <2>2, WFMin
  <2>11. \A i \in at : ~(i < d)
    BY <2>2, <2>3 DEF OpToRel
  <2>4. \A i \in at : d <= i
    BY <2>2, <2>11
  <2> DEFINE e == CHOOSE i \in at : \A j \in at : i <= j
  <2>5. e \in at /\ \A j \in at : e <= j
    BY <2>3, <2>4
  <2>6. e \in 1..Len(asked) /\ asked[e].k = "Disconnect" /\ e \in 0..Len(asked)
    BY <2>5, <1>1
  <2>7. Due(asked) = SubSeq(asked, 1, e)
    BY <1>3 DEF Due
  <2> HIDE DEF e
  <2>8. Len(Due(asked)) = e /\ \A n \in 1..e : Due(asked)[n] = asked[n]
    BY <2>6, <2>7, SubSeqIs
  <2>9. ASSUME NEW n \in 1..(e - 1) PROVE asked[n].k # "Disconnect"
    <3>1. n \in 1..Len(asked) /\ ~(e <= n)
      BY <2>6, <1>1
    <3> QED BY <3>1, <2>5
  <2>10. e >= 1
    BY <2>6, <1>1
  <2> QED BY <2>6, <2>8, <2>9, <2>10
<1> QED BY <1>2, <1>3

\* What a connection has been given reaches its client in that order and
\* without a gap, and nothing that was given after a Disconnect does, whatever
\* is sent, answered or written in between and wherever the batches end
\* (writeData, send, sendNow, sendDisconnect, dataWritten).
THEOREM ConnectionIsFifo == Spec => []QueueIsFifo
<1>1. Inv => QueueIsFifo
  <2> SUFFICES ASSUME Inv, z.open PROVE QueueIsFifo
    BY DEF QueueIsFifo
  <2> DEFINE sent == z.received \o z.queue.wire
             all == sent \o z.queue.outbox
             asked == z.asked
             due == Due(asked)
  <2>1. /\ z.received \in Seq(Message) /\ z.queue.wire \in Seq(Message)
        /\ z.queue.outbox \in Seq(Message) /\ asked \in Seq(Message)
        /\ z.queue.closeWhenReady \in BOOLEAN
    BY DEF Inv, ConnType, QueueType
  <2>2. sent \in Seq(Message) /\ Len(asked) \in Nat
    BY <2>1, ConcatIs
  <2>3. Fifo(sent, z.queue.outbox, z.queue.closeWhenReady, asked)
    BY DEF Inv, Carries
  <2>4. PICK d \in 0..Len(asked) :
           /\ Len(due) = d
           /\ \A n \in 1..d : due[n] = asked[n]
           /\ \A n \in 1..(d - 1) : asked[n].k # "Disconnect"
           /\ d = Len(asked) \/ (d >= 1 /\ asked[d].k = "Disconnect")
    BY <2>1, DueIs
  <2>5. ASSUME InOrder(all, asked), \A i \in Told(sent) : sent[i].n <= d,
               \A n \in 1..d : \E i \in Told(all) : all[i].n = n
        PROVE  QueueIsFifo
    <3>1. ASSUME NEW n \in 1..d PROVE \E i \in Told(all) : all[i] = due[n]
      <4>1. PICK i \in Told(all) : all[i].n = n
        BY <2>5
      <4>2. all[i] = due[n]
        BY <4>1, <2>4, <2>5 DEF InOrder
      <4> QED BY <4>2
    <3> HIDE DEF sent, all, due, asked
    <3>2. \A n \in 1..Len(due) : \E i \in Told(all) : all[i] = due[n]
      BY <3>1, <2>4
    <3>3. \A i \in Told(sent) : sent[i].n <= Len(due)
      BY <2>4, <2>5
    <3> QED BY <2>5, <3>2, <3>3 DEF QueueIsFifo, sent, all, due, asked
  <2>6. CASE z.queue.closeWhenReady
    <3>1. z.queue.outbox = <<>> /\ Ended(sent, asked)
      BY <2>3, <2>6 DEF Fifo
    <3>2. all = sent
      BY <2>2, <3>1, ConcatEmptySeq
    <3> HIDE DEF sent, all, due, asked
    <3>3. PICK e \in 1..Len(asked) :
            /\ asked[e].k = "Disconnect"
            /\ \A n \in 1..(e - 1) : asked[n].k # "Disconnect"
            /\ \A i \in Told(sent) : sent[i].n <= e
            /\ \A n \in 1..e : \E i \in Told(sent) : sent[i].n = n
      BY <3>1 DEF Ended
    <3>4. e \notin 1..(d - 1) /\ (d >= 1 /\ asked[d].k = "Disconnect" => d \notin 1..(e - 1))
      BY <2>4, <3>3
    <3>5. e = d
      BY <2>2, <2>4, <3>3, <3>4
    <3> QED BY <2>5, <3>1, <3>2, <3>3, <3>5 DEF Ended
  <2>7. CASE ~z.queue.closeWhenReady
    <3>1. Waiting(sent, z.queue.outbox, asked)
      BY <2>3, <2>7 DEF Fifo
    <3>2. /\ InOrder(all, asked)
          /\ \A i \in 1..Len(sent) : sent[i].k # "Disconnect"
          /\ \A n \in 1..Len(asked) : \E i \in Told(all) : all[i].n = n
      BY <3>1 DEF Waiting
    <3>3. /\ Len(all) = Len(sent) + Len(z.queue.outbox)
          /\ Len(sent) \in Nat /\ Len(z.queue.outbox) \in Nat
          /\ \A i \in 1..Len(sent) : all[i] = sent[i]
      BY <2>1, <2>2, ConcatIs, ZenonT(60)
    <3> HIDE DEF sent, all, due, asked
    <3>4. ASSUME NEW i \in Told(sent) PROVE sent[i].n <= d
      <4>1. i \in Told(all) /\ all[i] = sent[i] /\ i \in 1..Len(sent)
        BY <3>3 DEF Told
      <4>2. sent[i].n \in 1..Len(asked)
        BY <4>1, <3>2 DEF InOrder
      <4>3. SUFFICES ASSUME sent[i].n > d PROVE FALSE
        BY <2>2, <4>2
      <4>4. d >= 1 /\ asked[d].k = "Disconnect" /\ d \in 1..Len(asked)
        BY <2>2, <2>4, <4>2, <4>3
      <4>5. PICK j \in Told(all) : all[j].n = d
        BY <3>2, <4>4
      <4>6. j \in Nat /\ j >= 1 /\ i \in Nat
        BY <3>3, <4>1 DEF Told
      <4>7. j < i
        <5>1. SUFFICES ASSUME i <= j PROVE FALSE
          BY <4>6
        <5>2. i # j
          BY <4>1, <4>3, <4>5, <2>2
        <5>3. all[i].n < all[j].n
          BY <3>2, <4>1, <4>5, <4>6, <5>1, <5>2 DEF InOrder
        <5> QED BY <5>3, <4>1, <4>2, <4>3, <4>5, <2>2
      <4>8. j \in 1..Len(sent)
        BY <4>1, <4>6, <4>7, <3>3
      <4>9. sent[j] = asked[d]
        BY <4>5, <4>8, <3>2, <3>3 DEF InOrder
      <4> QED BY <3>2, <4>4, <4>8, <4>9
    <3>5. \A n \in 1..d : n \in 1..Len(asked)
      BY <2>2
    <3> QED BY <2>5, <3>2, <3>4, <3>5
  <2> QED BY <2>1, <2>6, <2>7
<1> QED BY AlwaysInv, <1>1, PTL

=============================================================================
