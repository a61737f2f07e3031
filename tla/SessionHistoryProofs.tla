------------------------ MODULE SessionHistoryProofs ------------------------
(* What the members of a session read, for every set of users and every     *)
(* bound: the history they are sent is one log, and its indices only grow.   *)
(* SessionProofs has a lemma per operator that says what it does to the      *)
(* state of the session; here is one per operator for the history.          *)
EXTENDS SessionProofs, SessionLog

-----------------------------------------------------------------------------
(* The invariant.                                                          *)

\* Nobody is in m_clients twice.
Unique(z) ==
  \A i, j \in 1..Len(z.clients) : z.clients[i] = z.clients[j] => i = j

\* While a session is initialized, everyone but its host is held back.
HostAlone(z) ==
  z.state = "Initialization" /\ z.initUser # NoUser =>
    \A u \in Members(z) : u = z.initUser \/ u \in z.locked

\* a is a beginning of b
Pre(a, b) == Len(a) <= Len(b) /\ \A i \in 1..Len(a) : a[i] = b[i]

\* How many messages of the history a client at position p has passed
Passed(z, p) == IF p - z.first + 1 > 0 THEN p - z.first + 1 ELSE 0

\* Who reads the history (IsReader of SessionLog, of any session z)
Reads(z, u) == u \in Members(z) /\ ~(u = z.initUser /\ u \in z.locked)

\* The position of a member is no larger than that of the last message, and
\* what a reader has been sent is the history up to its position.  Who is not
\* a member is at the start.
Sent(z) ==
  /\ \A u \in Members(z) : z.pos[u] <= LastIndex(z)
  /\ \A u \in Members(z) : Reads(z, u) =>
       Pre(z.seen[u], z.hist) /\ Len(z.seen[u]) = Passed(z, z.pos[u])
  /\ \A u \in User \ Members(z) : z.pos[u] = -1 /\ z.seen[u] = <<>>

\* The host who initializes the session has everything that was added.
HostCurrent(z) ==
  z.state = "Initialization" /\ z.initUser \in Members(z)
    /\ z.initUser \notin z.locked
  => z.pos[z.initUser] = LastIndex(z)

\* The operators have been asked for a reset of a history that is too long (as
\* AutoResetQueried), and never of one that is empty.
Asked(z) ==
  /\ ~IsOutOfSpace(z) /\ IsTooLong(z) => z.autoreset # "NotSent"
  /\ Len(z.hist) = 0 => z.autoreset = "NotSent"

\* The next message asks them, if need be.
MayAsk(z) ==
  /\ z.state # "Shutdown"
  /\ Len(z.hist) = 0 => z.autoreset = "NotSent"

\* The inductive invariant: of the log, and of the query
LInv(z) ==
  /\ z \in SessionType /\ Control(z) /\ Unique(z)
  /\ HostAlone(z) /\ Sent(z) /\ HostCurrent(z)

HInv(z) == LInv(z) /\ Asked(z)

-----------------------------------------------------------------------------
(* What a step does to the history.                                        *)

\* The operators have just been asked.
Fresh(y) == y.autoreset = "Queried" /\ IsTooLong(y)

\* The threshold stays, and so does the question if it has been asked.
Quiet(z, y) ==
  /\ y.base = z.base /\ y.conf.threshold = z.conf.threshold
  /\ \/ y.autoreset = z.autoreset
     \/ z.autoreset = "NotSent" /\ Fresh(y)

\* The history grows at its end and nobody's position goes back.
Ext(z, y) ==
  /\ y.first = z.first /\ Pre(z.hist, y.hist)
  /\ Members(y) \subseteq Members(z)
  /\ \A u \in Members(y) : z.pos[u] <= y.pos[u]
  /\ Quiet(z, y)

\* The history is replaced by one with higher indices.
Rep(z, y) ==
  /\ y.first >= z.first + Len(z.hist)
  /\ y.autoreset = "NotSent" \/ Fresh(y)

Forward(z, y) == Ext(z, y) \/ Rep(z, y)

\* What the operators have been asked changes as AskedOnce says.
Turn(z, y) ==
  IF z.autoreset = "NotSent" \/ y.first # z.first
  THEN y.autoreset = "NotSent" \/ Fresh(y)
  ELSE y.autoreset \in {z.autoreset, "Requested"}

\* Steps of the session as its members see them: they read on, or from the
\* beginning of a new history.
LogStep(z, y) ==
  /\ \/ /\ y.first = z.first /\ Pre(z.hist, y.hist)
        /\ \A u \in Members(z) \cap Members(y) : z.pos[u] <= y.pos[u]
     \/ Rep(z, y)
  /\ Turn(z, y)

\* The types of the fields that the log is made of
LEMMA LogTypes ==
  ASSUME NEW z \in SessionType
  PROVE  /\ z.hist \in Seq(Msg) /\ Len(z.hist) \in Nat /\ z.first \in Nat
         /\ z.base \in Nat
         /\ z.pos \in [User -> Int] /\ z.seen \in [User -> Seq(Msg)]
         /\ \A u \in User : z.pos[u] \in Int /\ z.seen[u] \in Seq(Msg)
                            /\ Len(z.seen[u]) \in Nat
         /\ LastIndex(z) = (z.first + Len(z.hist)) - 1
         /\ z.clients \in Seq(User) /\ Len(z.clients) \in Nat
         /\ Members(z) \subseteq User
<1>1. /\ z.hist \in Seq(Msg) /\ z.first \in Nat /\ z.base \in Nat
      /\ z.pos \in [User -> Int] /\ z.seen \in [User -> Seq(Msg)]
      /\ z.clients \in Seq(User)
  BY DEF SessionType
<1>2. Len(z.hist) \in Nat /\ Len(z.clients) \in Nat
  BY <1>1
<1>3. \A u \in User : z.pos[u] \in Int /\ z.seen[u] \in Seq(Msg)
  BY <1>1
<1>4. ASSUME NEW u \in User PROVE Len(z.seen[u]) \in Nat
  <2>1. z.seen[u] \in Seq(Msg)
    BY <1>3
  <2> QED BY <2>1, LenProperties
<1>5. LastIndex(z) = (z.first + Len(z.hist)) - 1
  BY <1>1, <1>2 DEF LastIndex
<1> QED BY <1>1, <1>2, <1>3, <1>4, <1>5, MembersType

\* A beginning of a beginning is a beginning.
LEMMA PreTrans ==
  ASSUME NEW a \in Seq(Msg), NEW b \in Seq(Msg), NEW c \in Seq(Msg),
         Pre(a, b), Pre(b, c)
  PROVE  Pre(a, c)
<1>1. Len(a) \in Nat /\ Len(b) \in Nat /\ Len(c) \in Nat
  OBVIOUS
<1>2. Len(a) <= Len(c)
  BY <1>1 DEF Pre
<1>3. ASSUME NEW i \in 1..Len(a) PROVE a[i] = c[i]
  <2>1. i \in 1..Len(b)
    BY <1>1 DEF Pre
  <2> QED BY <2>1 DEF Pre
<1> QED BY <1>2, <1>3 DEF Pre

\* A sequence is a beginning of itself.
LEMMA PreSelf ==
  ASSUME NEW a \in Seq(Msg)
  PROVE  Pre(a, a)
BY DEF Pre

\* A sequence is a beginning of itself with a message appended.
LEMMA PreAppend ==
  ASSUME NEW a \in Seq(Msg), NEW m \in Msg
  PROVE  Pre(a, Append(a, m))
<1>1. /\ Len(a) \in Nat /\ Len(Append(a, m)) = Len(a) + 1
      /\ \A i \in 1..Len(a) : Append(a, m)[i] = a[i]
  BY AppendProperties
<1> QED BY <1>1 DEF Pre

\* The effective threshold is a natural number.
LEMMA ThresholdType ==
  ASSUME NEW z \in SessionType
  PROVE  EffectiveThreshold(z) \in Nat
<1>1. z.conf.threshold \in Nat /\ z.base \in Nat
  BY DEF SessionType, Conf
<1> QED BY <1>1, WithinLimitType DEF EffectiveThreshold

\* A history that is too long is too long when it has grown.
LEMMA StaysTooLong ==
  ASSUME NEW z \in SessionType, NEW y \in SessionType, Pre(z.hist, y.hist),
         y.base = z.base, y.conf.threshold = z.conf.threshold, IsTooLong(z)
  PROVE  IsTooLong(y)
<1>1. EffectiveThreshold(y) = EffectiveThreshold(z)
  BY DEF EffectiveThreshold
<1>2. /\ EffectiveThreshold(z) \in Nat /\ Len(z.hist) \in Nat
      /\ Len(y.hist) \in Nat /\ Len(z.hist) <= Len(y.hist)
  BY ThresholdType, LogTypes DEF Pre
<1> QED BY <1>1, <1>2 DEF IsTooLong

\* Steps that extend the history compose.
LEMMA ExtTrans ==
  ASSUME NEW x \in SessionType, NEW y \in SessionType, NEW z \in SessionType,
         Ext(x, y), Ext(y, z)
  PROVE  Ext(x, z)
<1>1. Pre(x.hist, z.hist)
  BY LogTypes, PreTrans DEF Ext
<1>2. ASSUME NEW u \in Members(z) PROVE x.pos[u] <= z.pos[u]
  <2>1. u \in Members(y) /\ u \in User
    BY LogTypes DEF Ext
  <2>2. x.pos[u] \in Int /\ y.pos[u] \in Int /\ z.pos[u] \in Int
    BY <2>1, LogTypes
  <2>3. x.pos[u] <= y.pos[u] /\ y.pos[u] <= z.pos[u]
    BY <2>1 DEF Ext
  <2> QED BY <2>2, <2>3
<1>3. Quiet(x, z)
  <2>1. Fresh(y) /\ y.autoreset = z.autoreset => Fresh(z)
    BY StaysTooLong DEF Ext, Quiet, Fresh
  <2>2. Quiet(x, y) /\ Quiet(y, z)
    BY DEF Ext
  <2> QED BY <2>1, <2>2 DEF Quiet, Fresh
<1> QED BY <1>1, <1>2, <1>3 DEF Ext

\* So do steps that extend or replace it.
LEMMA ForwardTrans ==
  ASSUME NEW x \in SessionType, NEW y \in SessionType, NEW z \in SessionType,
         Forward(x, y), Forward(y, z)
  PROVE  Forward(x, z)
<1>1. /\ x.first \in Nat /\ y.first \in Nat /\ z.first \in Nat
      /\ Len(x.hist) \in Nat /\ Len(y.hist) \in Nat /\ Len(z.hist) \in Nat
  BY LogTypes
<1>2. CASE Ext(x, y) /\ Ext(y, z)
  BY <1>2, ExtTrans DEF Forward
<1>3. CASE Ext(x, y) /\ Rep(y, z)
  BY <1>1, <1>3 DEF Forward, Ext, Rep, Pre
<1>4. CASE Rep(x, y) /\ Ext(y, z)
  <2>1. Fresh(y) /\ y.autoreset = z.autoreset => Fresh(z)
    BY <1>4, StaysTooLong DEF Ext, Quiet, Fresh
  <2>2. z.autoreset = "NotSent" \/ Fresh(z)
    BY <1>4, <2>1 DEF Ext, Quiet, Rep, Fresh
  <2> QED BY <1>1, <1>4, <2>2 DEF Forward, Ext, Rep
<1>5. CASE Rep(x, y) /\ Rep(y, z)
  BY <1>1, <1>5 DEF Forward, Rep
<1> QED BY <1>2, <1>3, <1>4, <1>5 DEF Forward

\* They are such steps as the members see them: a history in which the
\* operators have been asked is not empty, so that the next one begins later.
LEMMA ForwardIsLogStep ==
  ASSUME NEW z \in SessionType, NEW y \in SessionType, Asked(z), Forward(z, y)
  PROVE  LogStep(z, y)
<1>1. /\ z.first \in Nat /\ y.first \in Nat /\ Len(z.hist) \in Nat
  BY LogTypes
<1>2. CASE Ext(z, y)
  BY <1>2 DEF Ext, Quiet, LogStep, Turn
<1>3. CASE Rep(z, y)
  BY <1>1, <1>3 DEF Rep, LogStep, Turn, Asked
<1> QED BY <1>2, <1>3 DEF Forward

\* y is z in everything that the invariant reads.
SameLog(z, y) ==
  /\ y.state = z.state /\ y.initUser = z.initUser /\ y.clients = z.clients
  /\ y.resetstream = z.resetstream /\ y.releasing = z.releasing
  /\ y.locked = z.locked /\ y.held = z.held
  /\ y.hist = z.hist /\ y.first = z.first /\ y.base = z.base
  /\ y.conf.threshold = z.conf.threshold
  /\ y.autoreset = z.autoreset /\ y.pos = z.pos /\ y.seen = z.seen

\* A step that changes none of it keeps the invariant.
LEMMA SameLogKeeps ==
  ASSUME NEW z \in SessionType, NEW y \in SessionType, SameLog(z, y)
  PROVE  /\ LInv(z) => LInv(y)
         /\ HInv(z) => HInv(y)
         /\ Ext(z, y)
         /\ Members(y) = Members(z) /\ LastIndex(y) = LastIndex(z)
<1>1. Members(y) = Members(z) /\ LastIndex(y) = LastIndex(z)
  BY DEF SameLog, Members, LastIndex
<1>2. Control(z) => Control(y)
  BY <1>1 DEF SameLog, Control
<1>3. Unique(z) => Unique(y)
  BY DEF SameLog, Unique
<1>4. HostAlone(z) => HostAlone(y)
  BY <1>1 DEF SameLog, HostAlone
<1>5. Sent(z) => Sent(y)
  BY <1>1 DEF SameLog, Sent, Reads, Passed
<1>6. HostCurrent(z) => HostCurrent(y)
  BY <1>1 DEF SameLog, HostCurrent
<1>7. Asked(z) => Asked(y)
  BY DEF SameLog, Asked, IsOutOfSpace, IsTooLong, EffectiveThreshold
<1>8. Ext(z, y)
  <2>1. Pre(z.hist, y.hist)
    BY LogTypes, PreSelf DEF SameLog
  <2>2. \A u \in Members(y) : z.pos[u] <= y.pos[u]
    <3>1. \A u \in Members(y) : z.pos[u] \in Int /\ y.pos[u] = z.pos[u]
      BY <1>1, LogTypes DEF SameLog
    <3> QED BY <3>1
  <2> QED BY <1>1, <2>1, <2>2 DEF Ext, Quiet, SameLog
<1> QED BY <1>1, <1>2, <1>3, <1>4, <1>5, <1>6, <1>7, <1>8 DEF LInv, HInv

\* Two such steps in a row are such a step.
LEMMA SameLogTrans ==
  ASSUME NEW x, NEW y, NEW z, SameLog(x, y), SameLog(y, z)
  PROVE  SameLog(x, z)
BY DEF SameLog

-----------------------------------------------------------------------------
(* A message is added.                                                     *)

\* Telling clients something outside the history changes nothing of the log.
LEMMA DirectToLog ==
  ASSUME NEW z \in SessionType, NEW U
  PROVE  SameLog(z, DirectTo(z, U))
BY DEF DirectTo, SameLog, SessionType

\* Nor does telling every client.
LEMMA DirectToAllLog ==
  ASSUME NEW z \in SessionType
  PROVE  SameLog(z, DirectToAll(z))
BY DirectToLog DEF DirectToAll

\* What is new in the history is not sent yet, and is sent to nobody by being
\* stored.
LEMMA AppendSent ==
  ASSUME NEW z \in SessionType, Sent(z), NEW m \in Msg,
         NEW x \in SessionType, x = [z EXCEPT !.hist = Append(@, m)]
  PROVE  /\ Sent(x) /\ Ext(z, x)
         /\ x.hist = Append(z.hist, m) /\ Len(x.hist) = Len(z.hist) + 1
         /\ LastIndex(x) = LastIndex(z) + 1
         /\ x.first = z.first /\ x.base = z.base
         /\ x.conf.threshold = z.conf.threshold
         /\ x.autoreset = z.autoreset /\ x.pos = z.pos /\ x.seen = z.seen
         /\ SameControl(z, x)
<1>1. /\ x.hist = Append(z.hist, m) /\ x.first = z.first /\ x.base = z.base
      /\ x.conf.threshold = z.conf.threshold
      /\ x.autoreset = z.autoreset /\ x.pos = z.pos /\ x.seen = z.seen
      /\ SameControl(z, x)
  BY DEF SameControl, SessionType
<1>2. Members(x) = Members(z)
  BY <1>1 DEF SameControl, Members
<1>3. Len(x.hist) = Len(z.hist) + 1 /\ Pre(z.hist, x.hist)
  BY <1>1, LogTypes, AppendProperties, PreAppend
<1>4. LastIndex(x) = LastIndex(z) + 1
  <2>1. /\ LastIndex(x) = (x.first + Len(x.hist)) - 1
        /\ LastIndex(z) = (z.first + Len(z.hist)) - 1
        /\ z.first \in Nat /\ Len(z.hist) \in Nat
    BY LogTypes
  <2> QED BY <1>1, <1>3, <2>1
<1>5. ASSUME NEW u \in Members(x)
      PROVE  x.pos[u] <= LastIndex(x) /\ z.pos[u] <= x.pos[u]
  <2>1. z.pos[u] \in Int /\ LastIndex(z) \in Int
    BY <1>2, <1>5, LogTypes, LastIndexType
  <2>2. z.pos[u] <= LastIndex(z)
    BY <1>2, <1>5 DEF Sent
  <2> QED BY <1>1, <1>4, <2>1, <2>2
<1>6. ASSUME NEW u \in Members(x), Reads(x, u)
      PROVE  Pre(x.seen[u], x.hist) /\ Len(x.seen[u]) = Passed(x, x.pos[u])
  <2>1. Reads(z, u) /\ u \in User
    BY <1>1, <1>2, <1>6, LogTypes DEF Reads, SameControl
  <2>2. Pre(z.seen[u], z.hist) /\ Len(z.seen[u]) = Passed(z, z.pos[u])
    BY <1>2, <2>1 DEF Sent
  <2>3. Pre(z.seen[u], x.hist)
    BY <1>3, <2>1, <2>2, LogTypes, PreTrans
  <2> QED BY <1>1, <2>2, <2>3 DEF Passed
<1>7. \A u \in User \ Members(x) : x.pos[u] = -1 /\ x.seen[u] = <<>>
  BY <1>1, <1>2 DEF Sent
<1>8. Sent(x)
  BY <1>5, <1>6, <1>7 DEF Sent
<1>9. Ext(z, x)
  BY <1>1, <1>2, <1>3, <1>5 DEF Ext, Quiet
<1> QED BY <1>1, <1>3, <1>4, <1>8, <1>9

\* The batch after a position is the rest of the history.
LEMMA GetBatchIs ==
  ASSUME NEW z \in SessionType, NEW p \in Int, p <= LastIndex(z)
  PROVE  /\ Passed(z, p) \in Nat /\ Passed(z, p) <= Len(z.hist)
         /\ GetBatch(z, p) \in Seq(Msg)
         /\ Len(GetBatch(z, p)) = Len(z.hist) - Passed(z, p)
         /\ \A i \in 1..Len(GetBatch(z, p)) :
              GetBatch(z, p)[i] = z.hist[Passed(z, p) + i]
<1> DEFINE o == Passed(z, p)
           n == Len(z.hist)
           b == SubSeq(z.hist, o + 1, n)
<1>1. /\ z.hist \in Seq(Msg) /\ n \in Nat /\ z.first \in Nat
      /\ LastIndex(z) = (z.first + n) - 1
  BY LogTypes
<1>2. o \in Nat /\ o <= n
  BY <1>1 DEF Passed
<1>3. GetBatch(z, p) = IF p >= LastIndex(z) THEN <<>> ELSE b
  BY DEF GetBatch, Passed
<1>4. p >= LastIndex(z) => o = n
  BY <1>1 DEF Passed
<1> HIDE DEF o
<1>5. CASE p >= LastIndex(z)
  <2>1. GetBatch(z, p) = <<>> /\ o = n
    BY <1>3, <1>4, <1>5
  <2> QED BY <2>1, <1>1, <1>2 DEF o
<1>6. CASE ~(p >= LastIndex(z))
  <2>1. GetBatch(z, p) = b
    BY <1>3, <1>6
  <2>2. \A i \in (o + 1)..n : z.hist[i] \in Msg
    BY <1>1, <1>2
  <2>3. /\ b \in Seq(Msg)
        /\ Len(b) = IF o + 1 <= n THEN (n - (o + 1)) + 1 ELSE 0
        /\ \A i \in 1..((n - (o + 1)) + 1) : b[i] = z.hist[((o + 1) + i) - 1]
    <3>1. o + 1 \in Int /\ n \in Int
      BY <1>1, <1>2
    <3> HIDE DEF n
    <3>2. /\ SubSeq(z.hist, o + 1, n) \in Seq(Msg)
          /\ Len(SubSeq(z.hist, o + 1, n))
               = IF o + 1 <= n THEN n - (o + 1) + 1 ELSE 0
          /\ \A i \in 1..(n - (o + 1) + 1) :
               SubSeq(z.hist, o + 1, n)[i] = z.hist[o + 1 + i - 1]
      BY <2>2, <3>1, SubSeqProperties
    <3>3. \A i \in Int : o + 1 + i - 1 = ((o + 1) + i) - 1
      BY <3>1
    <3> QED BY <3>1, <3>2, <3>3
  <2> HIDE DEF b
  <2>4. Len(b) = n - o
    BY <1>1, <1>2, <2>3
  <2>5. ASSUME NEW i \in 1..Len(b) PROVE b[i] = z.hist[o + i]
    <3>1. i \in 1..((n - (o + 1)) + 1) /\ ((o + 1) + i) - 1 = o + i
      BY <1>1, <1>2, <2>4
    <3> QED BY <3>1, <2>3
  <2> QED BY <1>2, <2>1, <2>3, <2>4, <2>5 DEF o
<1> QED BY <1>5, <1>6

\* The fields that sendNextHistoryBatch leaves, and those it changes
LEMMA SendNextIs ==
  ASSUME NEW z \in SessionType, NEW U, NEW y, y = SendNextHistoryBatch(z, U)
  PROVE  /\ y \in SessionType
         /\ SameControl(z, y) /\ y.hist = z.hist /\ y.first = z.first
         /\ y.base = z.base
         /\ y.conf.threshold = z.conf.threshold /\ y.autoreset = z.autoreset
         /\ Members(y) = Members(z) /\ LastIndex(y) = LastIndex(z)
         /\ \A u \in User :
              /\ y.pos[u] = IF u \in Ready(z, U) THEN LastIndex(z)
                                                 ELSE z.pos[u]
              /\ y.seen[u] = IF u \in Ready(z, U)
                             THEN z.seen[u] \o GetBatch(z, z.pos[u])
                             ELSE z.seen[u]
<1>1. y \in SessionType /\ SameControl(z, y)
  BY SendNextHistoryBatchType, SendNextHistoryBatchSame
<1>2. /\ y.hist = z.hist /\ y.first = z.first /\ y.base = z.base
      /\ y.conf.threshold = z.conf.threshold
      /\ y.autoreset = z.autoreset
      /\ y.pos = [u \in User |-> IF u \in Ready(z, U) THEN LastIndex(z)
                                                      ELSE z.pos[u]]
      /\ y.seen = [u \in User |-> IF u \in Ready(z, U)
                                  THEN z.seen[u] \o GetBatch(z, z.pos[u])
                                  ELSE z.seen[u]]
  BY DEF SendNextHistoryBatch, SessionType
<1>3. Members(y) = Members(z) /\ LastIndex(y) = LastIndex(z)
  BY <1>1, <1>2 DEF SameControl, Members, LastIndex
<1> QED BY <1>1, <1>2, <1>3

\* sendNextHistoryBatch brings those it serves up to date: in the running
\* state every member reads, and its batch begins where its log ends.
LEMMA SendNextSent ==
  ASSUME NEW z \in SessionType, Control(z), Sent(z), NEW U,
         NEW y, y = SendNextHistoryBatch(z, U)
  PROVE  Sent(y) /\ Ext(z, y)
<1>1. /\ y \in SessionType
      /\ SameControl(z, y) /\ y.hist = z.hist /\ y.first = z.first
      /\ y.base = z.base /\ y.conf.threshold = z.conf.threshold
      /\ y.autoreset = z.autoreset
      /\ Members(y) = Members(z) /\ LastIndex(y) = LastIndex(z)
      /\ \A u \in User :
              /\ y.pos[u] = IF u \in Ready(z, U) THEN LastIndex(z)
                                                 ELSE z.pos[u]
              /\ y.seen[u] = IF u \in Ready(z, U)
                             THEN z.seen[u] \o GetBatch(z, z.pos[u])
                             ELSE z.seen[u]
  BY SendNextIs
<1>2. Ready(z, U) \subseteq Members(z)
  BY DEF Ready
<1>3. LastIndex(z) \in Int /\ Members(z) \subseteq User
  BY LastIndexType, LogTypes
<1>4. ASSUME NEW u \in Members(y)
      PROVE  y.pos[u] <= LastIndex(y) /\ z.pos[u] <= y.pos[u]
  <2>1. u \in User /\ z.pos[u] \in Int /\ z.pos[u] <= LastIndex(z)
    BY <1>1, <1>3, LogTypes DEF Sent
  <2> QED BY <1>1, <1>3, <2>1
<1>5. \A u \in User \ Members(y) : y.pos[u] = -1 /\ y.seen[u] = <<>>
  BY <1>1, <1>2 DEF Sent
<1>6. ASSUME NEW u \in Members(y), Reads(y, u)
      PROVE  Pre(y.seen[u], y.hist) /\ Len(y.seen[u]) = Passed(y, y.pos[u])
  <2>1. u \in User /\ u \in Members(z) /\ Reads(z, u)
    BY <1>1, <1>3, <1>6 DEF Reads, SameControl
  <2>2. /\ Pre(z.seen[u], z.hist) /\ Len(z.seen[u]) = Passed(z, z.pos[u])
        /\ z.pos[u] \in Int /\ z.pos[u] <= LastIndex(z)
    BY <2>1, LogTypes DEF Sent
  <2>3. CASE u \notin Ready(z, U)
    BY <1>1, <2>1, <2>2, <2>3 DEF Passed
  <2>4. CASE u \in Ready(z, U)
    <3> DEFINE a == z.seen[u]
               b == GetBatch(z, z.pos[u])
               n == Len(z.hist)
    <3>1. /\ Len(a) \in Nat /\ Len(a) <= n
          /\ b \in Seq(Msg) /\ Len(b) = n - Len(a)
          /\ \A i \in 1..Len(b) : b[i] = z.hist[Len(a) + i]
      BY <2>2, GetBatchIs
    <3>2. a \in Seq(Msg) /\ n \in Nat /\ z.first \in Nat
          /\ LastIndex(z) = (z.first + n) - 1
      BY <2>1, LogTypes
    <3>3. y.seen[u] = a \o b /\ y.pos[u] = LastIndex(z)
      BY <1>1, <2>1, <2>4
    <3>4. \A i \in 1..Len(a) : a[i] = z.hist[i]
      BY <2>2 DEF Pre
    <3>5. Passed(y, y.pos[u]) = n
      BY <1>1, <3>2, <3>3 DEF Passed
    <3> HIDE DEF a, b, n
    <3>6. /\ Len(a \o b) = Len(a) + Len(b)
          /\ \A i \in 1..(Len(a) + Len(b)) :
               (a \o b)[i] = IF i <= Len(a) THEN a[i] ELSE b[i - Len(a)]
      BY <3>1, <3>2, ConcatProperties
    <3>7. Len(a \o b) = n
      BY <3>1, <3>2, <3>6
    <3>8. ASSUME NEW i \in 1..n PROVE (a \o b)[i] = z.hist[i]
      <4>1. (a \o b)[i] = IF i <= Len(a) THEN a[i] ELSE b[i - Len(a)]
        BY <3>1, <3>2, <3>6
      <4>2. CASE i <= Len(a)
        <5>1. i \in 1..Len(a)
          BY <3>1, <3>2, <4>2
        <5> QED BY <4>1, <4>2, <5>1, <3>4
      <4>3. CASE ~(i <= Len(a))
        <5>1. i - Len(a) \in 1..Len(b) /\ Len(a) + (i - Len(a)) = i
          BY <3>1, <3>2, <4>3
        <5> QED BY <4>1, <4>3, <5>1, <3>1
      <4> QED BY <4>2, <4>3
    <3>9. Pre(a \o b, z.hist)
      BY <3>2, <3>7, <3>8 DEF Pre, n
    <3> QED BY <1>1, <3>3, <3>5, <3>7, <3>9
  <2> QED BY <2>3, <2>4
<1>7. Sent(y)
  BY <1>4, <1>5, <1>6 DEF Sent
<1>8. Pre(z.hist, y.hist)
  BY <1>1, LogTypes, PreSelf
<1> QED BY <1>1, <1>4, <1>7, <1>8 DEF Ext, Quiet


\* A Draw is added to a session that is being initialized by its host only:
\* everyone else is held back (or there is no host to be brought up to date).
FromHost(z, m) ==
  /\ m.t = "Draw" /\ z.state = "Initialization"
  /\ z.initUser \in Members(z) /\ z.initUser \notin z.locked
  => m.by = z.initUser

\* The host had all of the history but the message m, which it is sent, or
\* which is its own.
LEMMA AdvanceHostSent ==
  ASSUME NEW z \in SessionType, Sent(z), HostCurrent(z), NEW m \in Msg,
         FromHost(z, m), z.state = "Initialization",
         NEW w \in SessionType, SameControl(z, w), w.first = z.first,
         w.hist = Append(z.hist, m), Sent(w),
         \A u \in User : w.pos[u] = z.pos[u] /\ w.seen[u] = z.seen[u],
         NEW y \in SessionType, y = AdvanceHost(w, m)
  PROVE  Sent(y) /\ HostCurrent(y) /\ Ext(w, y)
<1> DEFINE h == z.initUser
<1>1. /\ w.state = "Initialization" /\ w.initUser = h
      /\ w.clients = z.clients /\ w.locked = z.locked
  BY DEF SameControl
<1>2. Members(w) = Members(z) /\ Members(z) \subseteq User
  BY <1>1, LogTypes DEF Members
<1>3. /\ SameControl(w, y) /\ y.first = w.first /\ y.hist = w.hist
      /\ y.base = w.base /\ y.conf.threshold = w.conf.threshold
      /\ y.autoreset = w.autoreset
  BY DEF AdvanceHost, SameControl, SessionType
<1>4. Members(y) = Members(w) /\ LastIndex(y) = LastIndex(w)
  BY <1>3 DEF Members, LastIndex, SameControl
<1>5. Pre(w.hist, y.hist)
  BY <1>3, LogTypes, PreSelf
<1>6. CASE h \notin Members(z)
  <2>1. y.pos = w.pos /\ y.seen = w.seen
    BY <1>1, <1>2, <1>6 DEF AdvanceHost, SessionType
  <2>2. Sent(y)
    BY <1>3, <1>4, <2>1 DEF Sent, Reads, Passed, SameControl
  <2>3. HostCurrent(y)
    BY <1>1, <1>2, <1>3, <1>4, <1>6 DEF HostCurrent, SameControl
  <2>4. ASSUME NEW u \in Members(y) PROVE w.pos[u] <= y.pos[u]
    <3>1. w.pos[u] \in Int
      BY <1>2, <1>4, LogTypes
    <3>2. y.pos[u] = w.pos[u]
      BY <2>1
    <3> QED BY <3>1, <3>2
  <2> QED BY <1>3, <1>4, <1>5, <2>2, <2>3, <2>4 DEF Ext, Quiet
<1>7. CASE h \in Members(z)
  <2>1. h \in User /\ w.pos \in [User -> Int] /\ w.seen \in [User -> Seq(Msg)]
        /\ LastIndex(w) \in Int
    BY <1>2, <1>7, LogTypes, LastIndexType
  <2>2. /\ y.pos = [w.pos EXCEPT ![h] = LastIndex(w)]
        /\ y.seen = [w.seen EXCEPT ![h] =
                       IF m.t # "Draw" \/ m.by = h THEN Append(w.seen[h], m)
                       ELSE w.seen[h]]
    <3>1. y = [w EXCEPT
                 !.pos[w.initUser] = LastIndex(w),
                 !.seen[w.initUser] =
                    IF m.t # "Draw" \/ m.by = w.initUser THEN Append(@, m)
                    ELSE @,
                 !.uploading = @ \cup (IF m.t # "Draw" THEN {w.initUser}
                                       ELSE {})]
      BY <1>1, <1>2, <1>7 DEF AdvanceHost
    <3> DEFINE P == [w.pos EXCEPT ![h] = LastIndex(w)]
               S == [w.seen EXCEPT ![h] =
                       IF m.t # "Draw" \/ m.by = h THEN Append(w.seen[h], m)
                       ELSE w.seen[h]]
               U == w.uploading \cup (IF m.t # "Draw" THEN {h} ELSE {})
    <3>2. y = [w EXCEPT !.pos = P, !.seen = S, !.uploading = U]
      BY <1>1, <3>1
    <3> HIDE DEF P, S, U
    <3>3. y.pos = P /\ y.seen = S
      BY <1>1, <3>2 DEF SessionType
    <3> QED BY <3>3 DEF P, S
  <2>3. /\ y.pos[h] = LastIndex(w)
        /\ y.seen[h] = IF m.t # "Draw" \/ m.by = h THEN Append(z.seen[h], m)
                       ELSE z.seen[h]
        /\ \A u \in User \ {h} : y.pos[u] = w.pos[u] /\ y.seen[u] = w.seen[u]
    BY <2>1, <2>2
  <2>4. ASSUME NEW u \in Members(y)
        PROVE  y.pos[u] <= LastIndex(y) /\ w.pos[u] <= y.pos[u]
    <3>1. u \in User /\ w.pos[u] \in Int /\ w.pos[u] <= LastIndex(w)
      BY <1>2, <1>4, LogTypes DEF Sent
    <3> QED BY <1>4, <2>1, <2>3, <3>1
  <2>5. \A u \in User \ Members(y) : y.pos[u] = -1 /\ y.seen[u] = <<>>
    BY <1>2, <1>4, <1>7, <2>3, ZenonT(60) DEF Sent
  <2>6. ASSUME NEW u \in Members(y), Reads(y, u)
        PROVE  Pre(y.seen[u], y.hist) /\ Len(y.seen[u]) = Passed(y, y.pos[u])
    <3>1. u \in User /\ u \in Members(w) /\ Reads(w, u) /\ Reads(z, u)
      BY <1>1, <1>2, <1>3, <1>4, <2>6 DEF Reads, SameControl
    <3>2. CASE u # h
      <4>1. y.pos[u] = w.pos[u] /\ y.seen[u] = w.seen[u]
        BY <2>3, <3>1, <3>2
      <4>2. Pre(w.seen[u], w.hist) /\ Len(w.seen[u]) = Passed(w, w.pos[u])
        BY <3>1 DEF Sent
      <4> QED BY <1>3, <4>1, <4>2 DEF Passed
    <3>3. CASE u = h
      <4> DEFINE a == z.seen[h]
                 n == Len(z.hist)
      <4>1. h \notin z.locked
        BY <3>1, <3>3 DEF Reads
      <4>2. z.pos[h] = LastIndex(z)
        BY <4>1, <1>7 DEF HostCurrent
      <4>3. Pre(a, z.hist) /\ Len(a) = Passed(z, LastIndex(z))
        BY <1>7, <3>1, <3>3, <4>2 DEF Sent
      <4>4. a \in Seq(Msg) /\ z.hist \in Seq(Msg) /\ n \in Nat
            /\ z.first \in Nat /\ LastIndex(z) = (z.first + n) - 1
        BY <2>1, LogTypes
      <4>5. Len(a) = n
        BY <4>3, <4>4 DEF Passed
      <4>6. m.t # "Draw" \/ m.by = h
        BY <4>1, <1>7 DEF FromHost
      <4>7. y.seen[h] = Append(a, m)
        BY <2>3, <4>6
      <4> DEFINE c == Append(a, m)
                 e == Append(z.hist, m)
      <4>8. /\ c \in Seq(Msg) /\ Len(c) = n + 1 /\ c[n + 1] = m
            /\ \A i \in 1..n : c[i] = a[i]
        BY <4>4, <4>5, AppendProperties, SMTT(40)
      <4>9. /\ e \in Seq(Msg) /\ Len(e) = n + 1 /\ e[n + 1] = m
            /\ \A i \in 1..n : e[i] = z.hist[i]
        BY <4>4, AppendProperties
      <4>10. \A i \in 1..n : a[i] = z.hist[i]
        BY <4>3, <4>5 DEF Pre
      <4> HIDE DEF c, e, a, n
      <4>11. Pre(c, e)
        <5>1. ASSUME NEW i \in 1..(n + 1) PROVE c[i] = e[i]
          <6>1. i \in 1..n \/ i = n + 1
            BY <4>4
          <6> QED BY <6>1, <4>8, <4>9, <4>10
        <5> QED BY <5>1, <4>4, <4>8, <4>9 DEF Pre
      <4>12. LastIndex(w) = (z.first + (n + 1)) - 1
        <5>1. LastIndex(w) = (w.first + Len(w.hist)) - 1
          BY LogTypes
        <5> QED BY <5>1, <4>9 DEF e
      <4>13. Passed(y, y.pos[h]) = n + 1
        BY <1>3, <2>3, <4>4, <4>12 DEF Passed
      <4> QED BY <1>3, <3>3, <4>7, <4>8, <4>11, <4>13 DEF c, e, a
    <3> QED BY <3>2, <3>3
  <2>7. Sent(y)
    BY <2>4, <2>5, <2>6 DEF Sent
  <2>8. HostCurrent(y)
    BY <1>1, <1>3, <1>4, <2>3 DEF HostCurrent, SameControl
  <2> QED BY <1>3, <1>4, <1>5, <2>4, <2>7, <2>8 DEF Ext, Quiet
<1> QED BY <1>6, <1>7

\* The query goes out when the new message makes the history too long and it
\* has not gone out before.
LEMMA QueryAutoResetAsked ==
  ASSUME NEW y \in SessionType, Len(y.hist) > 0,
         NEW x, x = QueryAutoReset(y)
  PROVE  Asked(x) /\ Quiet(y, x)
<1> DEFINE q == [y EXCEPT !.autoreset = "Queried"]
           d == DirectToAll(q)
<1>1. q \in SessionType
  BY DEF SessionType
<1>2. /\ d.autoreset = "Queried" /\ d.hist = y.hist /\ d.base = y.base
      /\ d.conf.threshold = y.conf.threshold
  <2>1. /\ q.autoreset = "Queried" /\ q.hist = y.hist /\ q.base = y.base
        /\ q.conf.threshold = y.conf.threshold
    BY DEF SessionType
  <2> HIDE DEF q
  <2> QED BY <1>1, <2>1, DirectToAllLog DEF SameLog
<1>3. IsTooLong(d) <=> IsTooLong(y)
  BY <1>2 DEF IsTooLong, EffectiveThreshold
<1>4. x = IF y.autoreset = "NotSent" /\ IsTooLong(y) THEN d ELSE y
  BY DEF QueryAutoReset
<1>5. Len(y.hist) \in Nat
  BY LogTypes
<1> HIDE DEF q, d
<1>6. CASE y.autoreset = "NotSent" /\ IsTooLong(y)
  BY <1>2, <1>3, <1>4, <1>5, <1>6 DEF Asked, Quiet, Fresh
<1>7. CASE ~(y.autoreset = "NotSent" /\ IsTooLong(y))
  BY <1>4, <1>5, <1>7 DEF Asked, Quiet
<1> QED BY <1>6, <1>7

\* addToHistory keeps the invariant, and establishes that the operators have
\* been asked, also right after a reset has taken the question back.
LEMMA AddToHistoryLog ==
  ASSUME NEW z, LInv(z), NEW m \in Msg, FromHost(z, m),
         Asked(z) \/ MayAsk(z),
         NEW y, y = AddToHistory(z, m)
  PROVE  HInv(y) /\ Ext(z, y) /\ y.first = z.first
<1>1. /\ z \in SessionType /\ Control(z) /\ Unique(z) /\ HostAlone(z)
      /\ Sent(z) /\ HostCurrent(z)
  BY DEF LInv
<1>2. y \in SessionType /\ SameControl(z, y)
  BY <1>1, AddToHistoryType, AddToHistorySame
<1>3. Control(y) /\ Unique(y) /\ HostAlone(y)
  <2>1. Members(y) = Members(z)
    BY <1>2 DEF SameControl, Members
  <2> QED BY <1>1, <1>2, <2>1, SameControlKeeps
          DEF SameControl, Unique, HostAlone
<1>4. CASE z.state = "Shutdown"
  <2>1. y = z
    BY <1>4 DEF AddToHistory
  <2>2. SameLog(z, z)
    BY DEF SameLog
  <2> QED BY <1>1, <1>4, <2>1, <2>2, SameLogKeeps DEF HInv, SameLog, MayAsk
<1>5. CASE z.state # "Shutdown" /\ IsOutOfSpace(z)
  <2>1. y = DirectToAll(z)
    BY <1>5 DEF AddToHistory
  <2>2. SameLog(z, y)
    BY <1>1, <2>1, DirectToAllLog
  <2>3. LInv(y) /\ Ext(z, y) /\ y.first = z.first
    BY <1>1, <1>2, <2>2, SameLogKeeps DEF SameLog
  <2>4. Asked(y)
    BY <1>5, <2>2 DEF Asked, MayAsk, SameLog, IsOutOfSpace
  <2> QED BY <2>3, <2>4 DEF HInv
<1>6. CASE z.state # "Shutdown" /\ ~IsOutOfSpace(z)
  <2> DEFINE x == [z EXCEPT !.hist = Append(@, m)]
             w == SendNextHistoryBatch(x, Members(z))
             v == AdvanceHost(w, m)
  <2>1. y = QueryAutoReset(v)
    BY <1>6 DEF AddToHistory, AddMessage
  <2>2. x \in SessionType
    <3>1. Append(z.hist, m) \in Seq(Msg)
      BY <1>1, LogTypes, AppendProperties
    <3> QED BY <1>1, <3>1 DEF SessionType
  <2>3. /\ Sent(x) /\ Ext(z, x)
        /\ x.hist = Append(z.hist, m) /\ Len(x.hist) = Len(z.hist) + 1
        /\ x.first = z.first /\ x.base = z.base
        /\ x.conf.threshold = z.conf.threshold
        /\ x.autoreset = z.autoreset /\ x.pos = z.pos /\ x.seen = z.seen
        /\ SameControl(z, x)
    BY <1>1, <2>2, AppendSent
  <2> HIDE DEF x
  <2>4. Control(x)
    BY <1>1, <2>3, SameControlKeeps
  <2>5. /\ w \in SessionType /\ SameControl(x, w) /\ Sent(w) /\ Ext(x, w)
        /\ w.hist = x.hist /\ w.first = x.first /\ w.base = x.base
        /\ w.conf.threshold = x.conf.threshold
        /\ w.autoreset = x.autoreset
        /\ \A u \in User : u \notin Ready(x, Members(z)) =>
              w.pos[u] = x.pos[u] /\ w.seen[u] = x.seen[u]
    BY <2>2, <2>3, <2>4, SendNextIs, SendNextSent
  <2> HIDE DEF w
  <2>6. SameControl(z, w) /\ Ext(z, w)
    BY <1>1, <2>2, <2>3, <2>5, SameControlTrans, ExtTrans
  <2>7. v \in SessionType
    BY <2>5, AdvanceHostType
  <2>8. Sent(v) /\ HostCurrent(v) /\ Ext(w, v)
    <3>1. CASE z.state = "Initialization"
      <4>1. Ready(x, Members(z)) = {}
        BY <2>3, <3>1 DEF Ready, SameControl
      <4>2. \A u \in User : w.pos[u] = z.pos[u] /\ w.seen[u] = z.seen[u]
        BY <2>3, <2>5, <4>1
      <4>3. w.first = z.first /\ w.hist = Append(z.hist, m)
        BY <2>3, <2>5
      <4> QED BY <1>1, <2>5, <2>6, <2>7, <3>1, <4>2, <4>3, AdvanceHostSent
    <3>2. CASE z.state # "Initialization"
      <4>1. w.state # "Initialization"
        BY <2>6, <3>2 DEF SameControl
      <4>2. v = w
        BY <4>1 DEF AdvanceHost
      <4>3. SameLog(w, w)
        BY DEF SameLog
      <4>4. Ext(w, w)
        BY <2>5, <4>3, SameLogKeeps
      <4> QED BY <2>5, <4>1, <4>2, <4>4 DEF HostCurrent
    <3> QED BY <3>1, <3>2
  <2>9. /\ v.hist = w.hist /\ v.first = w.first /\ v.base = w.base
        /\ v.conf.threshold = w.conf.threshold
        /\ v.autoreset = w.autoreset
    BY <2>5 DEF AdvanceHost, SessionType
  <2> HIDE DEF v
  <2>10. Asked(y) /\ Quiet(v, y)
    <3>1. Len(v.hist) = Len(z.hist) + 1 /\ Len(z.hist) \in Nat
      BY <1>1, <2>3, <2>5, <2>9, LogTypes
    <3>2. Len(v.hist) > 0
      BY <3>1
    <3> QED BY <2>1, <2>7, <3>2, QueryAutoResetAsked
  <2>11. /\ y.hist = v.hist /\ y.first = v.first /\ y.pos = v.pos
         /\ y.seen = v.seen /\ SameControl(v, y)
    <3> DEFINE q == [v EXCEPT !.autoreset = "Queried"]
    <3>1. q \in SessionType
      BY <2>7 DEF SessionType
    <3>2. /\ q.hist = v.hist /\ q.first = v.first /\ q.pos = v.pos
          /\ q.seen = v.seen /\ SameControl(v, q) /\ SameControl(v, v)
      BY <2>7 DEF SessionType, SameControl
    <3>3. y = v \/ y = DirectToAll(q)
      BY <2>1 DEF QueryAutoReset
    <3> HIDE DEF q
    <3>4. SameLog(q, DirectToAll(q)) /\ SameControl(v, DirectToAll(q))
      BY <3>1, <3>2, DirectToAllLog, DirectToAllSame, SameControlTrans
    <3> QED BY <3>2, <3>3, <3>4 DEF SameLog
  <2>12. Members(y) = Members(v) /\ LastIndex(y) = LastIndex(v)
    BY <2>11 DEF SameControl, Members, LastIndex
  <2>13. Sent(y) /\ HostCurrent(y)
    BY <2>8, <2>11, <2>12
       DEF Sent, HostCurrent, Reads, Passed, SameControl
  <2>14. Ext(v, y)
    <3>1. \A u \in Members(y) : v.pos[u] <= y.pos[u]
      <4>1. \A u \in Members(y) : v.pos[u] \in Int
        BY <2>7, <2>12, LogTypes
      <4> QED BY <2>11, <4>1
    <3>2. Pre(v.hist, y.hist)
      BY <2>7, <2>11, LogTypes, PreSelf
    <3> QED BY <2>10, <2>11, <2>12, <3>1, <3>2 DEF Ext
  <2>15. Ext(z, y)
    BY <1>1, <1>2, <2>5, <2>6, <2>7, <2>8, <2>14, ExtTrans
  <2> QED BY <1>2, <1>3, <2>10, <2>13, <2>15 DEF HInv, LInv, Ext
<1> QED BY <1>4, <1>5, <1>6


-----------------------------------------------------------------------------
(* The operators that store a message.                                     *)

\* A message that is not a Draw concerns the host, whoever it is from.
LEMMA NotDraw ==
  ASSUME NEW z, NEW t, t # "Draw", NEW by, NEW ids, NEW conf
  PROVE  FromHost(z, M(t, by, ids, conf))
BY DEF FromHost, M

\* addToHistory in a session in order
LEMMA AddKeeps ==
  ASSUME NEW z, HInv(z), NEW m \in Msg, FromHost(z, m)
  PROVE  /\ HInv(AddToHistory(z, m)) /\ Ext(z, AddToHistory(z, m))
BY AddToHistoryLog DEF HInv

\* Setting the operator flags changes nothing of the log.
LEMMA SetOperatorsLog ==
  ASSUME NEW z \in SessionType, NEW ids \in SUBSET User
  PROVE  SameLog(z, SetOperators(z, ids))
<1> DEFINE changed == {u \in Members(z) \ Mods : (u \in ids) # (u \in z.op)}
           O == (z.op \ changed) \cup (changed \cap ids)
           A == (z.authOps \ (changed \cap Auth))
                  \cup (changed \cap ids \cap Auth)
           y == [z EXCEPT !.op = O, !.authOps = A]
<1>1. O \in SUBSET User /\ A \in SUBSET User
  BY MembersType DEF SessionType
<1>2. SetOperators(z, ids) = IF changed = {} THEN z ELSE DirectToAll(y)
  BY DEF SetOperators, SessionType
<1> HIDE DEF changed, O, A
<1>3. y \in SessionType /\ SameLog(z, y) /\ SameLog(z, z)
  BY <1>1 DEF SessionType, SameLog
<1> HIDE DEF y
<1>4. SameLog(z, DirectToAll(y))
  BY <1>3, DirectToAllLog, SameLogTrans
<1> QED BY <1>2, <1>3, <1>4

\* Nor does setting the trusted flags.
LEMMA SetTrustedLog ==
  ASSUME NEW z \in SessionType, NEW ids \in SUBSET User
  PROVE  SameLog(z, SetTrusted(z, ids))
<1> DEFINE changed == {u \in Members(z) : (u \in ids) # (u \in z.trusted)}
           O == (z.trusted \ changed) \cup (changed \cap ids)
           A == (z.authTrusted \ (changed \cap Auth))
                  \cup (changed \cap ids \cap Auth)
           y == [z EXCEPT !.trusted = O, !.authTrusted = A]
<1>1. O \in SUBSET User /\ A \in SUBSET User
  BY MembersType DEF SessionType
<1>2. SetTrusted(z, ids) = IF changed = {} THEN z ELSE DirectToAll(y)
  BY DEF SetTrusted, SessionType
<1> HIDE DEF changed, O, A
<1>3. y \in SessionType /\ SameLog(z, y) /\ SameLog(z, z)
  BY <1>1 DEF SessionType, SameLog
<1> HIDE DEF y
<1>4. SameLog(z, DirectToAll(y))
  BY <1>3, DirectToAllLog, SameLogTrans
<1> QED BY <1>2, <1>3, <1>4

\* changeOpStatus(u, true) adds one list to the history.
LEMMA GrantOpLog ==
  ASSUME NEW z, HInv(z), NEW u \in User
  PROVE  HInv(GrantOp(z, u)) /\ Ext(z, GrantOp(z, u))
<1>1. z \in SessionType
  BY DEF HInv, LInv
<1> DEFINE ids == Ops(z) \cup {u}
           y == SetOperators(z, ids)
           m == M("Owner", NoUser, Ops(y), NoConf)
           x == AddToHistory(y, m)
<1>2. ids \in SUBSET User
  BY <1>1, OpsType
<1>3. GrantOp(z, u) = x
  BY DEF GrantOp
<1>4. y \in SessionType /\ SameLog(z, y)
  BY <1>1, <1>2, SetOperatorsType, SetOperatorsLog
<1> HIDE DEF y
<1>5. HInv(y) /\ Ext(z, y)
  BY <1>1, <1>4, SameLogKeeps
<1>6. m \in Msg /\ FromHost(y, m)
  BY <1>4, OpsType, MType, NoConfType, NotDraw DEF MsgTypes, Stored
<1> HIDE DEF m
<1>7. HInv(x) /\ Ext(y, x)
  BY <1>5, <1>6, AddKeeps
<1>8. x \in SessionType
  BY <1>7 DEF HInv, LInv
<1> HIDE DEF x
<1>9. Ext(z, x)
  BY <1>1, <1>4, <1>5, <1>7, <1>8, ExtTrans
<1> QED BY <1>3, <1>7, <1>9

\* So does changeTrustedStatus.
LEMMA ChangeTrustedStatusLog ==
  ASSUME NEW z, HInv(z), NEW u \in User, NEW t \in BOOLEAN
  PROVE  /\ HInv(ChangeTrustedStatus(z, u, t))
         /\ Ext(z, ChangeTrustedStatus(z, u, t))
<1>1. z \in SessionType
  BY DEF HInv, LInv
<1> DEFINE ids == IF t THEN Trusteds(z) \cup {u} ELSE Trusteds(z) \ {u}
           y == SetTrusted(z, ids)
           m == M("Trusted", NoUser, Trusteds(y), NoConf)
           x == AddToHistory(y, m)
<1>2. ids \in SUBSET User
  BY <1>1, OpsType
<1>3. ChangeTrustedStatus(z, u, t) = x
  BY DEF ChangeTrustedStatus
<1>4. y \in SessionType /\ SameLog(z, y)
  BY <1>1, <1>2, SetTrustedType, SetTrustedLog
<1> HIDE DEF y
<1>5. HInv(y) /\ Ext(z, y)
  BY <1>1, <1>4, SameLogKeeps
<1>6. m \in Msg /\ FromHost(y, m)
  BY <1>4, OpsType, MType, NoConfType, NotDraw DEF MsgTypes, Stored
<1> HIDE DEF m
<1>7. HInv(x) /\ Ext(y, x)
  BY <1>5, <1>6, AddKeeps
<1>8. x \in SessionType
  BY <1>7 DEF HInv, LInv
<1> HIDE DEF x
<1>9. Ext(z, x)
  BY <1>1, <1>4, <1>5, <1>7, <1>8, ExtTrans
<1> QED BY <1>3, <1>7, <1>9

\* A session extends itself.
LEMMA ExtSelf ==
  ASSUME NEW z \in SessionType
  PROVE  Ext(z, z)
<1>1. SameLog(z, z)
  BY DEF SameLog
<1> QED BY <1>1, SameLogKeeps

\* ensureOperatorExists
LEMMA EnsureOperatorExistsLog ==
  ASSUME NEW z, HInv(z)
  PROVE  HInv(EnsureOperatorExists(z)) /\ Ext(z, EnsureOperatorExists(z))
<1>1. z \in SessionType
  BY DEF HInv, LInv
<1>2. z.clients # <<>> => Head(z.clients) \in User
  BY <1>1, HeadTailProperties DEF SessionType
<1> QED BY <1>1, <1>2, GrantOpLog, ExtSelf DEF EnsureOperatorExists

\* killSession: nobody reads any more.
LEMMA KillSessionLog ==
  ASSUME NEW z, HInv(z)
  PROVE  HInv(KillSession(z)) /\ Ext(z, KillSession(z))
<1>1. z \in SessionType
  BY DEF HInv, LInv
<1>2. CASE z.state = "Shutdown"
  BY <1>1, <1>2, ExtSelf DEF KillSession
<1>3. CASE z.state # "Shutdown"
  <2> DEFINE y == KillSession(z)
  <2>1. y \in SessionType /\ Control(y)
    BY <1>1, <1>3, KillSessionType, KillSessionCInv DEF CInv
  <2>2. /\ y.state = "Shutdown" /\ y.clients = <<>> /\ y.hist = z.hist
        /\ y.first = z.first /\ y.base = z.base
        /\ y.conf.threshold = z.conf.threshold /\ y.autoreset = z.autoreset
        /\ y.pos = [u \in User |-> -1] /\ y.seen = [u \in User |-> <<>>]
    BY <1>1, <1>3 DEF KillSession, NoClients, SessionType
  <2> HIDE DEF y
  <2>3. Len(y.clients) = 0
    BY <2>2
  <2>4. Members(y) = {}
    BY <2>3 DEF Members
  <2>5. Unique(y)
    BY <2>3 DEF Unique
  <2>6. HostAlone(y) /\ HostCurrent(y)
    BY <2>2 DEF HostAlone, HostCurrent
  <2>7. Sent(y)
    BY <2>2, <2>4 DEF Sent
  <2>8. Asked(y)
    BY <2>2 DEF HInv, Asked, IsOutOfSpace, IsTooLong, EffectiveThreshold
  <2>9. Ext(z, y)
    BY <1>1, <2>2, <2>4, LogTypes, PreSelf DEF Ext, Quiet
  <2> QED BY <2>1, <2>5, <2>6, <2>7, <2>8, <2>9 DEF HInv, LInv, y
<1> QED BY <1>2, <1>3

\* onSessionAttributeChanged
LEMMA AttributeChangedLog ==
  ASSUME NEW z, HInv(z)
  PROVE  HInv(AttributeChanged(z)) /\ Ext(z, AttributeChanged(z))
BY KillSessionLog, ExtSelf DEF AttributeChanged, HInv, LInv

\* sendUpdatedSessionProperties, also right after a reset
LEMMA SendUpdatedSessionPropertiesLog ==
  ASSUME NEW z, LInv(z),
         Asked(z) \/ MayAsk(z)
  PROVE  /\ HInv(SendUpdatedSessionProperties(z))
         /\ Ext(z, SendUpdatedSessionProperties(z))
<1>1. z \in SessionType
  BY DEF LInv
<1> DEFINE m == M("Conf", NoUser, {}, z.conf)
           y == AddToHistory(z, m)
           x == AttributeChanged(y)
<1>2. m \in Msg /\ FromHost(z, m)
  <2>1. z.conf \in Conf
    BY <1>1 DEF SessionType
  <2> QED BY <2>1, MType, NotDraw DEF MsgTypes
<1>3. SendUpdatedSessionProperties(z) = x
  BY DEF SendUpdatedSessionProperties
<1> HIDE DEF m
<1>4. HInv(y) /\ Ext(z, y)
  BY <1>2, AddToHistoryLog
<1> HIDE DEF y
<1>5. HInv(x) /\ Ext(y, x)
  BY <1>4, AttributeChangedLog
<1>6. x \in SessionType /\ y \in SessionType
  BY <1>4, <1>5 DEF HInv, LInv
<1> HIDE DEF x
<1> QED BY <1>1, <1>3, <1>4, <1>5, <1>6, ExtTrans

\* setClosed(false)
LEMMA ReopenLog ==
  ASSUME NEW z, HInv(z)
  PROVE  HInv(Reopen(z)) /\ Ext(z, Reopen(z))
<1>1. z \in SessionType
  BY DEF HInv, LInv
<1> DEFINE y == [z EXCEPT !.conf.flags = @ \ {"closed"}]
           x == SendUpdatedSessionProperties(y)
<1>2. y \in SessionType /\ SameLog(z, y)
  BY <1>1 DEF SessionType, SameLog, Conf
<1>3. Reopen(z) = x \/ Reopen(z) = z
  BY DEF Reopen
<1> HIDE DEF y
<1>4. HInv(y) /\ Ext(z, y)
  BY <1>1, <1>2, SameLogKeeps
<1>5. HInv(x) /\ Ext(y, x)
  BY <1>4, SendUpdatedSessionPropertiesLog DEF HInv
<1>6. x \in SessionType
  BY <1>5 DEF HInv, LInv
<1> HIDE DEF x
<1>7. Ext(z, x) /\ Ext(z, z)
  BY <1>1, <1>2, <1>4, <1>5, <1>6, ExtTrans, ExtSelf
<1> QED BY <1>3, <1>5, <1>7


-----------------------------------------------------------------------------
(* Resets.                                                                 *)

\* What is sent of a log of which nothing is sent.
LEMMA PreEmpty ==
  ASSUME NEW b \in Seq(Msg)
  PROVE  Pre(<<>>, b) /\ Len(<<>>) = 0
<1>1. Len(<<>>) = 0 /\ Len(b) \in Nat
  OBVIOUS
<1> QED BY <1>1 DEF Pre

\* The history is replaced by one that begins after it, and the members, whose
\* positions are before it, are told to drop what they have.
LEMMA NewHistory ==
  ASSUME NEW z, HInv(z), z.state = "Reset", NEW image \in Seq(Msg),
         NEW a, a = AnnounceReset(HistoryReset(z, image))
  PROVE  /\ LInv(a) /\ Rep(z, a) /\ a.autoreset = "NotSent"
         /\ a.state = "Reset"
<1> DEFINE r == [z EXCEPT !.first = LastIndex(z) + 1, !.hist = image,
                          !.base = Len(image)]
           h == SendNextHistoryBatch(r, Members(z))
           S == [u \in User |-> IF u \in Members(h) THEN <<>> ELSE h.seen[u]]
           x == [h EXCEPT !.seen = S, !.autoreset = "NotSent"]
<1>1. /\ z \in SessionType /\ Control(z) /\ Unique(z) /\ HostAlone(z)
      /\ Sent(z)
  BY DEF HInv, LInv
<1>2. /\ r \in SessionType /\ SameControl(z, r) /\ r.hist = image
      /\ r.first = LastIndex(z) + 1 /\ r.pos = z.pos /\ r.seen = z.seen
  <2>1. Len(image) \in Nat
    OBVIOUS
  <2> QED BY <1>1, <2>1, LastIndexType DEF SessionType, SameControl
<1> HIDE DEF r
<1>3. Ready(r, Members(z)) = {}
  BY <1>2 DEF Ready, SameControl
<1>4. /\ h \in SessionType /\ SameControl(r, h) /\ h.hist = r.hist
      /\ h.first = r.first
      /\ \A u \in User : h.pos[u] = r.pos[u] /\ h.seen[u] = r.seen[u]
  BY <1>2, <1>3, SendNextIs
<1>5. HistoryReset(z, image) = h
  BY DEF HistoryReset, r
<1> HIDE DEF h
<1>6. S \in [User -> Seq(Msg)]
  BY <1>4, EmptyType, LogTypes
<1>7. a = DirectToAll(x)
  BY <1>4, <1>5 DEF AnnounceReset, SessionType
<1>8. \A u \in User : S[u] = IF u \in Members(h) THEN <<>> ELSE h.seen[u]
  OBVIOUS
<1> HIDE DEF S
<1>9. /\ x \in SessionType /\ SameControl(h, x) /\ x.hist = h.hist
      /\ x.first = h.first /\ x.pos = h.pos /\ x.seen = S
      /\ x.autoreset = "NotSent"
  BY <1>4, <1>6 DEF SessionType, SameControl
<1> HIDE DEF x
<1>10. SameControl(z, x)
  BY <1>2, <1>4, <1>9, SameControlTrans
<1>11. Members(x) = Members(z) /\ Members(h) = Members(z)
       /\ Members(z) \subseteq User
  BY <1>1, <1>2, <1>4, <1>10, LogTypes DEF SameControl, Members
<1>12. Control(x) /\ Unique(x) /\ HostAlone(x)
  BY <1>1, <1>10, <1>11, SameControlKeeps DEF SameControl, Unique, HostAlone
<1>13. \A u \in User : x.pos[u] = z.pos[u]
  BY <1>2, <1>4, <1>9
<1>14. x.first = LastIndex(z) + 1 /\ LastIndex(z) \in Int
       /\ LastIndex(x) = (x.first + Len(x.hist)) - 1 /\ Len(x.hist) \in Nat
       /\ x.hist \in Seq(Msg)
  BY <1>1, <1>2, <1>4, <1>9, LastIndexType, LogTypes
<1>15. Sent(x)
  <2>1. ASSUME NEW u \in Members(x)
        PROVE  x.pos[u] <= LastIndex(x) /\ Passed(x, x.pos[u]) = 0
    <3>1. u \in User /\ z.pos[u] \in Int /\ z.pos[u] <= LastIndex(z)
      BY <1>1, <1>11, LogTypes DEF Sent
    <3>2. x.pos[u] = z.pos[u]
      BY <1>13, <3>1
    <3> QED BY <1>14, <3>1, <3>2 DEF Passed
  <2>2. ASSUME NEW u \in Members(x)
        PROVE  Pre(x.seen[u], x.hist) /\ Len(x.seen[u]) = 0
    <3>1. x.seen[u] = <<>>
      BY <1>8, <1>9, <1>11
    <3> QED BY <1>14, <3>1, PreEmpty
  <2>3. ASSUME NEW u \in User \ Members(x)
        PROVE  x.pos[u] = -1 /\ x.seen[u] = <<>>
    <3>1. z.pos[u] = -1 /\ z.seen[u] = <<>>
      BY <1>1, <1>11 DEF Sent
    <3> QED BY <1>2, <1>4, <1>8, <1>9, <1>11, <1>13, <3>1
  <2> QED BY <2>1, <2>2, <2>3 DEF Sent
<1>16. x.state = "Reset"
  BY <1>10 DEF SameControl
<1>17. LInv(x)
  BY <1>9, <1>12, <1>15, <1>16 DEF LInv, HostCurrent
<1>18. Rep(z, x)
  <2>1. LastIndex(z) = (z.first + Len(z.hist)) - 1 /\ z.first \in Nat
        /\ Len(z.hist) \in Nat
    BY <1>1, LogTypes
  <2> QED BY <1>9, <1>14, <2>1 DEF Rep
<1>19. a \in SessionType /\ SameLog(x, a)
  BY <1>7, <1>9, DirectToAllType, DirectToAllLog
<1> QED BY <1>9, <1>16, <1>17, <1>18, <1>19, SameLogKeeps
        DEF SameLog, Rep, Fresh

\* A reset that is uploaded replaces the history, or is refused.
LEMMA PerformResetLog ==
  ASSUME NEW z, HInv(z), z.state = "Reset"
  PROVE  HInv(PerformReset(z)) /\ Forward(z, PerformReset(z))
<1>1. z \in SessionType
  BY DEF HInv, LInv
<1> DEFINE image == ServerSideStateMessages(z) \o z.resetstream
           a == AnnounceReset(HistoryReset(z, image))
           c == SendUpdatedSessionProperties(a)
<1>2. image \in Seq(Msg)
  BY <1>1, ServerSideStateMessagesType, ConcatProperties DEF SessionType
<1>3. PerformReset(z) = c \/ PerformReset(z) = DirectToAll(z)
  BY DEF PerformReset
<1> HIDE DEF image
<1>4. LInv(a) /\ Rep(z, a) /\ a.autoreset = "NotSent" /\ a.state = "Reset"
  BY <1>2, NewHistory
<1> HIDE DEF a
<1>5. HInv(c) /\ Ext(a, c)
  BY <1>4, SendUpdatedSessionPropertiesLog DEF MayAsk
<1>6. a \in SessionType /\ c \in SessionType
  BY <1>4, <1>5 DEF HInv, LInv
<1> HIDE DEF c
<1>7. Forward(z, c)
  BY <1>1, <1>4, <1>5, <1>6, ForwardTrans DEF Forward
<1>8. HInv(DirectToAll(z)) /\ Forward(z, DirectToAll(z))
  BY <1>1, DirectToAllType, DirectToAllLog, SameLogKeeps DEF Forward
<1> QED BY <1>3, <1>5, <1>7, <1>8

\* A session in order whose host or resetter is dismissed: nobody reads who
\* did not read before.
LEMMA Dismissed ==
  ASSUME NEW z, HInv(z), ~z.releasing, z.initUser \notin z.locked,
         NEW y, y = [z EXCEPT !.initUser = NoUser]
  PROVE  HInv(y) /\ Ext(z, y)
<1>1. /\ z \in SessionType /\ Control(z) /\ Unique(z) /\ HostAlone(z)
      /\ Sent(z) /\ HostCurrent(z) /\ Asked(z)
  BY DEF HInv, LInv
<1>2. /\ y \in SessionType /\ y.initUser = NoUser
      /\ y.state = z.state /\ y.clients = z.clients
      /\ y.resetstream = z.resetstream /\ y.releasing = z.releasing
      /\ y.locked = z.locked /\ y.held = z.held
      /\ y.hist = z.hist /\ y.first = z.first /\ y.base = z.base
      /\ y.conf.threshold = z.conf.threshold
      /\ y.autoreset = z.autoreset /\ y.pos = z.pos /\ y.seen = z.seen
  BY <1>1 DEF SessionType
<1>3. Members(y) = Members(z) /\ LastIndex(y) = LastIndex(z)
      /\ NoUser \notin Members(z)
  BY <1>1, <1>2, UserAssumption, LogTypes DEF Members, LastIndex
<1>4. Control(y)
  BY <1>1, <1>2, <1>3 DEF Control
<1>5. Unique(y) /\ HostAlone(y) /\ HostCurrent(y)
  BY <1>1, <1>2, <1>3 DEF Unique, HostAlone, HostCurrent
<1>6. Sent(y)
  <2>1. \A u \in Members(y) : Reads(y, u) => Reads(z, u)
    BY <1>2, <1>3 DEF Reads
  <2> QED BY <1>1, <1>2, <1>3, <2>1 DEF Sent, Passed
<1>7. Asked(y)
  BY <1>1, <1>2 DEF Asked, IsOutOfSpace, IsTooLong, EffectiveThreshold
<1>8. Ext(z, y)
  <2>1. \A u \in Members(y) : z.pos[u] \in Int /\ z.pos[u] = y.pos[u]
    BY <1>1, <1>2, <1>3, LogTypes
  <2>2. Pre(z.hist, y.hist)
    BY <1>1, <1>2, LogTypes, PreSelf
  <2> QED BY <1>2, <1>3, <2>1, <2>2 DEF Ext, Quiet
<1> QED BY <1>2, <1>4, <1>5, <1>6, <1>7, <1>8 DEF HInv, LInv

\* switchState(Running)
LEMMA SwitchToRunningLog ==
  ASSUME NEW z, HInv(z), ~z.releasing, z.initUser \notin z.locked,
         z.state \in {"Initialization", "Reset"},
         z.state = "Reset" /\ z.resetstream # <<>> => z.clients # <<>>
  PROVE  HInv(SwitchToRunning(z)) /\ Forward(z, SwitchToRunning(z))
<1> DEFINE y == [z EXCEPT !.initUser = NoUser]
           w == IF z.state = "Reset" /\ z.resetstream # <<>>
                THEN PerformReset(y) ELSE y
           v == [w EXCEPT !.resetstream = <<>>]
           x == SwitchToRunning(z)
<1>1. z \in SessionType /\ Control(z)
  BY DEF HInv, LInv
<1>2. HInv(y) /\ Ext(z, y) /\ y \in SessionType
  BY Dismissed DEF HInv, LInv
<1>3. y.initUser = NoUser /\ y.state = z.state /\ y.clients = z.clients
  BY <1>1 DEF SessionType
<1>4. CInv(x)
  BY <1>1, SwitchToRunningCInv
<1>5. x = Unlock(v)
  BY DEF SwitchToRunning
<1> HIDE DEF y, x
<1>6. HInv(w) /\ Forward(z, w) /\ w.initUser = NoUser /\ w \in SessionType
  <2>1. CASE z.state = "Reset" /\ z.resetstream # <<>>
    <3>1. HInv(PerformReset(y)) /\ Forward(y, PerformReset(y))
      BY <1>2, <1>3, <2>1, PerformResetLog
    <3>2. SameControl(y, PerformReset(y))
      BY <1>2, <1>3, <2>1, PerformResetSame
    <3>3. PerformReset(y) \in SessionType
      BY <3>1 DEF HInv, LInv
    <3>4. Forward(z, PerformReset(y))
      BY <1>1, <1>2, <3>1, <3>3, ForwardTrans DEF Forward
    <3> QED BY <1>3, <2>1, <3>1, <3>2, <3>3, <3>4 DEF SameControl
  <2>2. CASE ~(z.state = "Reset" /\ z.resetstream # <<>>)
    BY <1>2, <1>3, <2>2 DEF Forward
  <2> QED BY <2>1, <2>2
<1> HIDE DEF w
<1>7. /\ v.initUser = NoUser /\ v.clients = w.clients /\ v.locked = w.locked
      /\ v.hist = w.hist /\ v.first = w.first /\ v.base = w.base
      /\ v.conf.threshold = w.conf.threshold
      /\ v.autoreset = w.autoreset /\ v.pos = w.pos /\ v.seen = w.seen
      /\ v \in SessionType
  BY <1>6, EmptyStream, ZenonT(60) DEF SessionType
<1> HIDE DEF v
<1>8. /\ x.initUser = NoUser /\ x.clients = w.clients /\ x.locked = w.locked
      /\ x.hist = w.hist /\ x.first = w.first /\ x.base = w.base
      /\ x.conf.threshold = w.conf.threshold
      /\ x.autoreset = w.autoreset /\ x.pos = w.pos /\ x.seen = w.seen
  BY <1>5, <1>7 DEF Unlock, SessionType
<1>9. Members(x) = Members(w) /\ LastIndex(x) = LastIndex(w)
      /\ NoUser \notin Members(w)
  BY <1>6, <1>8, UserAssumption, LogTypes DEF Members, LastIndex
<1>10. Unique(x) /\ HostAlone(x) /\ HostCurrent(x) /\ Sent(x) /\ Asked(x)
  <2>1. Unique(w) /\ Sent(w) /\ Asked(w)
    BY <1>6 DEF HInv, LInv
  <2>2. \A u \in Members(x) : Reads(x, u) => Reads(w, u)
    BY <1>6, <1>8, <1>9 DEF Reads
  <2>3. Unique(x) /\ HostAlone(x) /\ HostCurrent(x)
    BY <2>1, <1>8, <1>9 DEF Unique, HostAlone, HostCurrent
  <2>4. Sent(x)
    BY <2>1, <2>2, <1>8, <1>9 DEF Sent, Passed
  <2>5. Asked(x)
    BY <2>1, <1>8 DEF Asked, IsOutOfSpace, IsTooLong, EffectiveThreshold
  <2> QED BY <2>3, <2>4, <2>5
<1>11. HInv(x) /\ x \in SessionType
  BY <1>4, <1>10 DEF HInv, LInv, CInv
<1>12. Ext(w, x)
  <2>1. \A u \in Members(x) : w.pos[u] \in Int /\ w.pos[u] = x.pos[u]
    BY <1>6, <1>8, <1>9, LogTypes
  <2>2. Pre(w.hist, x.hist)
    BY <1>6, <1>8, LogTypes, PreSelf
  <2> QED BY <1>8, <1>9, <2>1, <2>2 DEF Ext, Quiet
<1>13. Forward(z, x)
  BY <1>1, <1>6, <1>11, <1>12, ForwardTrans DEF Forward
<1> QED BY <1>11, <1>13 DEF x

\* What has been uploaded of a reset is no part of the log.
LEMMA StreamLog ==
  ASSUME NEW z, HInv(z), NEW e \in Seq(Msg),
         e = <<>> \/ z.state \notin {"Initialization", "Running"},
         NEW y, y = [z EXCEPT !.resetstream = e]
  PROVE  /\ HInv(y) /\ Ext(z, y) /\ y \in SessionType
         /\ y.state = z.state /\ y.initUser = z.initUser
         /\ y.clients = z.clients /\ y.releasing = z.releasing
         /\ y.locked = z.locked /\ y.resetstream = e
<1>1. /\ z \in SessionType /\ Control(z) /\ Unique(z) /\ HostAlone(z)
      /\ Sent(z) /\ HostCurrent(z) /\ Asked(z)
  BY DEF HInv, LInv
<1>2. /\ y \in SessionType /\ y.initUser = z.initUser
      /\ y.state = z.state /\ y.clients = z.clients
      /\ y.resetstream = e /\ y.releasing = z.releasing
      /\ y.locked = z.locked /\ y.held = z.held
      /\ y.hist = z.hist /\ y.first = z.first /\ y.base = z.base
      /\ y.conf.threshold = z.conf.threshold
      /\ y.autoreset = z.autoreset /\ y.pos = z.pos /\ y.seen = z.seen
  BY <1>1 DEF SessionType
<1>3. Members(y) = Members(z) /\ LastIndex(y) = LastIndex(z)
  BY <1>2 DEF Members, LastIndex
<1>4. Control(y)
  BY <1>1, <1>2, <1>3 DEF Control
<1>5. Unique(y) /\ HostAlone(y) /\ HostCurrent(y)
  BY <1>1, <1>2, <1>3 DEF Unique, HostAlone, HostCurrent
<1>6. Sent(y)
  BY <1>1, <1>2, <1>3 DEF Sent, Passed, Reads
<1>7. Asked(y)
  BY <1>1, <1>2 DEF Asked, IsOutOfSpace, IsTooLong, EffectiveThreshold
<1>8. Ext(z, y)
  <2>1. \A u \in Members(y) : z.pos[u] \in Int /\ z.pos[u] = y.pos[u]
    BY <1>1, <1>2, <1>3, LogTypes
  <2>2. Pre(z.hist, y.hist)
    BY <1>1, <1>2, LogTypes, PreSelf
  <2> QED BY <1>2, <1>3, <2>1, <2>2 DEF Ext, Quiet
<1> QED BY <1>2, <1>4, <1>5, <1>6, <1>7, <1>8 DEF HInv, LInv

\* init-begin, and the end of a reset: nothing has been uploaded.
LEMMA DropStream ==
  ASSUME NEW z, HInv(z), NEW y, y = [z EXCEPT !.resetstream = <<>>]
  PROVE  /\ HInv(y) /\ Ext(z, y) /\ y \in SessionType
         /\ y.state = z.state /\ y.initUser = z.initUser
         /\ y.clients = z.clients /\ y.releasing = z.releasing
         /\ y.locked = z.locked /\ y.resetstream = <<>>
<1>1. PICK e \in Seq(Msg) : e = <<>>
  BY EmptyType
<1>2. y = [z EXCEPT !.resetstream = e]
  BY <1>1
<1>3. e = <<>> \/ z.state \notin {"Initialization", "Running"}
  BY <1>1
<1>4. /\ HInv(y) /\ Ext(z, y) /\ y \in SessionType
      /\ y.state = z.state /\ y.initUser = z.initUser
      /\ y.clients = z.clients /\ y.releasing = z.releasing
      /\ y.locked = z.locked /\ y.resetstream = e
  BY <1>2, <1>3, StreamLog, ZenonT(60)
<1> QED BY <1>1, <1>4

\* abortReset
LEMMA AbortResetLog ==
  ASSUME NEW z, HInv(z), ~z.releasing, z.initUser \notin z.locked,
         z.state \in {"Initialization", "Reset"}
  PROVE  HInv(AbortReset(z)) /\ Forward(z, AbortReset(z))
<1> DEFINE y == [z EXCEPT !.resetstream = <<>>]
           x == SwitchToRunning(y)
           d == DirectToAll(x)
<1>2. AbortReset(z) = d
  BY DEF AbortReset
<1>3. /\ HInv(y) /\ Ext(z, y) /\ y \in SessionType
      /\ y.state = z.state /\ y.initUser = z.initUser
      /\ y.releasing = z.releasing /\ y.locked = z.locked
      /\ y.resetstream = <<>>
  BY DropStream
<1> HIDE DEF y
<1>4. HInv(x) /\ Forward(y, x)
  BY <1>3, SwitchToRunningLog
<1>5. x \in SessionType /\ z \in SessionType
  BY <1>4 DEF HInv, LInv
<1> HIDE DEF x
<1>6. d \in SessionType /\ HInv(d) /\ Ext(x, d)
  BY <1>4, <1>5, DirectToAllType, DirectToAllLog, SameLogKeeps
<1> HIDE DEF d
<1>7. Forward(z, x)
  BY <1>3, <1>4, <1>5, ForwardTrans DEF Forward
<1>8. Forward(z, d)
  BY <1>5, <1>6, <1>7, ForwardTrans DEF Forward
<1> QED BY <1>2, <1>6, <1>8


-----------------------------------------------------------------------------
(* Users leave.                                                            *)

\* A list without one of its clients, who was in it once, names the others.
LEMMA WithoutUnique ==
  ASSUME NEW c \in Seq(User), NEW i \in 1..Len(c),
         \A j, k \in 1..Len(c) : c[j] = c[k] => j = k
  PROVE  /\ \A j, k \in 1..Len(Without(c, i)) :
              Without(c, i)[j] = Without(c, i)[k] => j = k
         /\ \A j \in 1..Len(Without(c, i)) :
              Without(c, i)[j] # c[i]
              /\ \E k \in 1..Len(c) : Without(c, i)[j] = c[k]
<1>1. Len(c) \in Nat /\ Len(c) - 1 \in Nat
  OBVIOUS
<1>2. Without(c, i) \in Seq(User) /\ Len(Without(c, i)) = Len(c) - 1
  BY <1>1, WithoutType DEF Without
<1> DEFINE at(j) == IF j < i THEN j ELSE j + 1
<1>3. ASSUME NEW j \in 1..(Len(c) - 1)
      PROVE  /\ Without(c, i)[j] = c[at(j)] /\ at(j) \in 1..Len(c)
             /\ at(j) # i
  BY <1>1 DEF Without
<1>4. ASSUME NEW j \in 1..(Len(c) - 1), NEW k \in 1..(Len(c) - 1),
             at(j) = at(k)
      PROVE  j = k
  BY <1>1, <1>4
<1> HIDE DEF at
<1>5. ASSUME NEW j \in 1..(Len(c) - 1), NEW k \in 1..(Len(c) - 1),
             Without(c, i)[j] = Without(c, i)[k]
      PROVE  j = k
  BY <1>3, <1>4, <1>5
<1> QED BY <1>2, <1>3, <1>5

\* Who is removed is no member any more, and everyone else still is.
LEMMA RemoveClientMembers ==
  ASSUME NEW z \in SessionType, Unique(z), NEW u \in Members(z)
  PROVE  /\ Unique(RemoveClient(z, u))
         /\ Members(RemoveClient(z, u)) = Members(z) \ {u}
<1> DEFINE y == RemoveClient(z, u)
           i == CHOOSE k \in 1..Len(z.clients) : z.clients[k] = u
<1>1. y.clients = Without(z.clients, i)
  BY DEF RemoveClient, Without, SessionType
<1>2. z.clients \in Seq(User) /\ i \in 1..Len(z.clients) /\ z.clients[i] = u
  BY DEF Members, SessionType
<1> HIDE DEF y, i
<1>3. Unique(y) /\ \A j \in 1..Len(y.clients) :
        y.clients[j] # u /\ \E k \in 1..Len(z.clients) :
                               y.clients[j] = z.clients[k]
  BY <1>1, <1>2, WithoutUnique DEF Unique
<1>4. Members(y) \subseteq Members(z) \ {u}
  BY <1>3 DEF Members
<1>5. ASSUME NEW v \in Members(z) \ {u} PROVE v \in Members(y)
  <2>1. PICK k \in 1..Len(z.clients) : z.clients[k] = v
    BY DEF Members
  <2>2. k # i
    BY <2>1, <1>2
  <2>3. \E j \in 1..Len(y.clients) : y.clients[j] = v
    BY <2>1, <2>2, <1>1, <1>2, WithoutMembers
  <2> QED BY <2>3 DEF Members
<1> QED BY <1>3, <1>4, <1>5 DEF y

\* The client that is taken off m_clients forgets its position.
LEMMA RemoveClientLog ==
  ASSUME NEW z, HInv(z), ~z.releasing, NEW u \in Members(z),
         NEW y, y = RemoveClient(z, u)
  PROVE  /\ HInv(y) /\ Ext(z, y) /\ ~y.releasing
         /\ y.state = z.state /\ y.initUser = z.initUser
<1>1. /\ z \in SessionType /\ Control(z) /\ Unique(z) /\ HostAlone(z)
      /\ Sent(z) /\ HostCurrent(z) /\ Asked(z)
  BY DEF HInv, LInv
<1>2. /\ y \in SessionType /\ Control(y) /\ ~y.releasing
      /\ y.state = z.state /\ y.initUser = z.initUser
  BY <1>1, RemoveClientType, RemoveClientControl
<1>3. Unique(y) /\ Members(y) = Members(z) \ {u}
  BY <1>1, RemoveClientMembers
<1>4. /\ y.locked = z.locked \ {u} /\ y.hist = z.hist /\ y.first = z.first
      /\ y.base = z.base
      /\ y.conf.threshold = z.conf.threshold /\ y.autoreset = z.autoreset
      /\ y.pos = [z.pos EXCEPT ![u] = -1]
      /\ y.seen = [z.seen EXCEPT ![u] = <<>>]
  BY <1>1 DEF RemoveClient, SessionType
<1>5. /\ u \in User /\ z.pos \in [User -> Int]
      /\ z.seen \in [User -> Seq(Msg)] /\ LastIndex(y) = LastIndex(z)
      /\ Members(z) \subseteq User
  BY <1>1, <1>4, LogTypes DEF LastIndex
<1>6. /\ y.pos[u] = -1 /\ y.seen[u] = <<>>
      /\ \A v \in User \ {u} : y.pos[v] = z.pos[v] /\ y.seen[v] = z.seen[v]
  BY <1>4, <1>5
<1>7. HostAlone(y) /\ HostCurrent(y)
  BY <1>1, <1>2, <1>3, <1>4, <1>5, <1>6 DEF HostAlone, HostCurrent
<1>8. Sent(y)
  <2>1. \A v \in Members(y) : /\ v \in Members(z) /\ v \in User \ {u}
                              /\ Reads(y, v) => Reads(z, v)
    BY <1>2, <1>3, <1>4, <1>5 DEF Reads
  <2>2. \A v \in Members(y) : y.pos[v] <= LastIndex(y)
    BY <1>1, <1>5, <1>6, <2>1 DEF Sent
  <2>3. \A v \in Members(y) : Reads(y, v) =>
          Pre(y.seen[v], y.hist) /\ Len(y.seen[v]) = Passed(y, y.pos[v])
    BY <1>1, <1>4, <1>6, <2>1 DEF Sent, Passed
  <2>4. \A v \in User \ Members(y) : y.pos[v] = -1 /\ y.seen[v] = <<>>
    BY <1>1, <1>3, <1>6 DEF Sent
  <2> QED BY <2>2, <2>3, <2>4 DEF Sent
<1>9. Asked(y)
  BY <1>1, <1>4 DEF Asked, IsOutOfSpace, IsTooLong, EffectiveThreshold
<1>10. Ext(z, y)
  <2>1. \A v \in Members(y) : z.pos[v] \in Int /\ z.pos[v] = y.pos[v]
    BY <1>1, <1>3, <1>5, <1>6, LogTypes
  <2>2. Pre(z.hist, y.hist)
    BY <1>1, <1>4, LogTypes, PreSelf
  <2> QED BY <1>3, <1>4, <2>1, <2>2 DEF Ext, Quiet
<1> QED BY <1>2, <1>3, <1>7, <1>8, <1>9, <1>10 DEF HInv, LInv

\* removeUser: whatever the leaving ends, and whoever it makes operator, the
\* others go on reading where they were.
LEMMA RemoveUserLog ==
  ASSUME NEW z, HInv(z), ~z.releasing, NEW u
  PROVE  HInv(RemoveUser(z, u)) /\ Forward(z, RemoveUser(z, u))
<1>1. z \in SessionType
  BY DEF HInv, LInv
<1>2. CASE u \notin Members(z)
  BY <1>1, <1>2, ExtSelf DEF RemoveUser, Forward
<1>3. CASE u \in Members(z)
  <2> DEFINE gone == RemoveClient(z, u)
             resumed == IF u = z.initUser /\ z.state = "Reset"
                        THEN AbortReset(gone) ELSE gone
             m == M("Leave", u, {}, NoConf)
             said == AddToHistory(resumed, m)
             logged == EnsureOperatorExists(said)
             opened == IF logged.clients = <<>> THEN Reopen(logged) ELSE logged
             last == AttributeChanged(opened)
  <2>1. RemoveUser(z, u) = last
    BY <1>3 DEF RemoveUser
  <2>2. /\ HInv(gone) /\ Ext(z, gone) /\ ~gone.releasing
        /\ gone.state = z.state /\ gone.initUser = z.initUser
    BY <1>3, RemoveClientLog
  <2>3. gone \in SessionType /\ Control(gone)
    BY <2>2 DEF HInv, LInv
  <2> HIDE DEF gone
  <2>4. z.state = "Reset" => gone.initUser \notin gone.locked
    BY <2>2, <2>3 DEF Control, SessionType
  <2>5. HInv(resumed) /\ Forward(z, resumed) /\ resumed \in SessionType
    <3>1. CASE u = z.initUser /\ z.state = "Reset"
      <4>1. HInv(AbortReset(gone)) /\ Forward(gone, AbortReset(gone))
        BY <2>2, <2>4, <3>1, AbortResetLog
      <4>2. AbortReset(gone) \in SessionType
        BY <4>1 DEF HInv, LInv
      <4>3. Forward(z, AbortReset(gone))
        BY <1>1, <2>2, <2>3, <4>1, <4>2, ForwardTrans DEF Forward
      <4> QED BY <3>1, <4>1, <4>2, <4>3
    <3>2. CASE ~(u = z.initUser /\ z.state = "Reset")
      BY <2>2, <2>3, <3>2 DEF Forward
    <3> QED BY <3>1, <3>2
  <2> HIDE DEF resumed
  <2>6. m \in Msg /\ FromHost(resumed, m)
    BY <1>1, <1>3, MembersType, MType, NoConfType, NotDraw DEF MsgTypes
  <2> HIDE DEF m
  <2>7. HInv(said) /\ Ext(resumed, said)
    BY <2>5, <2>6, AddKeeps
  <2> HIDE DEF said
  <2>8. HInv(logged) /\ Ext(said, logged)
    BY <2>7, EnsureOperatorExistsLog
  <2> HIDE DEF logged
  <2>9. said \in SessionType /\ logged \in SessionType
    BY <2>7, <2>8 DEF HInv, LInv
  <2>10. HInv(opened) /\ Ext(logged, opened)
    BY <2>8, <2>9, ReopenLog, ExtSelf
  <2> HIDE DEF opened
  <2>11. HInv(last) /\ Ext(opened, last)
    BY <2>10, AttributeChangedLog
  <2> HIDE DEF last
  <2>12. opened \in SessionType /\ last \in SessionType
    BY <2>10, <2>11 DEF HInv, LInv
  <2>13. Ext(resumed, logged)
    BY <2>5, <2>7, <2>8, <2>9, ExtTrans
  <2>14. Ext(logged, last)
    BY <2>9, <2>10, <2>11, <2>12, ExtTrans
  <2>15. Ext(resumed, last)
    BY <2>5, <2>9, <2>12, <2>13, <2>14, ExtTrans
  <2>16. Forward(z, last)
    BY <1>1, <2>5, <2>12, <2>15, ForwardTrans DEF Forward
  <2> QED BY <2>1, <2>11, <2>16
<1> QED BY <1>2, <1>3

\* updateOwnership, with the kick of a resetter that lost its status
LEMMA KickResetterLog ==
  ASSUME NEW z, HInv(z), NEW ids \in SUBSET User
  PROVE  /\ HInv(KickResetter(z, SetOperators(z, ids)))
         /\ Forward(z, KickResetter(z, SetOperators(z, ids)))
<1> DEFINE y == SetOperators(z, ids)
           k == RemoveUser(y, z.initUser)
<1>1. z \in SessionType /\ Control(z)
  BY DEF HInv, LInv
<1>2. y \in SessionType /\ SameLog(z, y)
  BY <1>1, SetOperatorsType, SetOperatorsLog
<1> HIDE DEF y
<1>3. HInv(y) /\ Ext(z, y)
  BY <1>1, <1>2, SameLogKeeps
<1>4. ASSUME z.state = "Reset" PROVE HInv(k) /\ Forward(z, k)
  <2>1. ~y.releasing
    BY <1>1, <1>2, <1>4 DEF Control, SameLog
  <2>2. HInv(k) /\ Forward(y, k)
    BY <1>3, <2>1, RemoveUserLog
  <2>3. k \in SessionType
    BY <2>2 DEF HInv, LInv
  <2> HIDE DEF k
  <2> QED BY <1>1, <1>2, <1>3, <2>2, <2>3, ForwardTrans DEF Forward
<1>5. \/ KickResetter(z, y) = y
      \/ z.state = "Reset" /\ KickResetter(z, y) = k
  BY DEF KickResetter
<1> HIDE DEF k
<1> QED BY <1>3, <1>4, <1>5 DEF Forward, y

\* changeOpStatus(u, false)
LEMMA RevokeOpLog ==
  ASSUME NEW z, HInv(z), NEW u \in User
  PROVE  HInv(RevokeOp(z, u)) /\ Forward(z, RevokeOp(z, u))
<1> DEFINE ids == Ops(z) \ {u}
           y == SetOperators(z, ids)
           k == KickResetter(z, y)
           m == M("Owner", NoUser, Ops(y), NoConf)
           x == AddToHistory(k, m)
<1>1. z \in SessionType /\ ids \in SUBSET User
  BY OpsType DEF HInv, LInv
<1>2. RevokeOp(z, u) = x
  BY DEF RevokeOp
<1> HIDE DEF ids
<1>3. HInv(k) /\ Forward(z, k)
  BY <1>1, KickResetterLog
<1>4. m \in Msg /\ FromHost(k, m)
  BY <1>1, SetOperatorsType, OpsType, MType, NoConfType, NotDraw
     DEF MsgTypes, Stored
<1> HIDE DEF k, m
<1>5. HInv(x) /\ Ext(k, x)
  BY <1>3, <1>4, AddKeeps
<1>6. k \in SessionType /\ x \in SessionType
  BY <1>3, <1>5 DEF HInv, LInv
<1> HIDE DEF x
<1>7. Forward(z, x)
  BY <1>1, <1>3, <1>5, <1>6, ForwardTrans DEF Forward
<1> QED BY <1>2, <1>5, <1>7


-----------------------------------------------------------------------------
(* Messages of the clients.                                                *)

\* The end of handleClientMessage
LEMMA StoreLog ==
  ASSUME NEW z, HInv(z), NEW m \in Msg, FromHost(z, m)
  PROVE  HInv(Store(z, m)) /\ Forward(z, Store(z, m))
<1>1. z \in SessionType /\ Control(z) /\ z.state \in States
  BY DEF HInv, LInv, SessionType
<1>2. HInv(AddToHistory(z, m)) /\ Forward(z, AddToHistory(z, m))
  BY AddKeeps DEF Forward
<1> DEFINE e == Append(z.resetstream, m)
           y == [z EXCEPT !.resetstream = e]
           k == RemoveUser(y, z.initUser)
<1>3. ASSUME z.state = "Reset"
      PROVE  /\ HInv(y) /\ Forward(z, y)
             /\ HInv(k) /\ Forward(z, k)
  <2>1. e \in Seq(Msg)
    BY <1>1, AppendProperties DEF SessionType
  <2>2. z.state \notin {"Initialization", "Running"}
    BY <1>3
  <2> HIDE DEF e
  <2>3. /\ HInv(y) /\ Ext(z, y) /\ y \in SessionType
        /\ y.releasing = z.releasing
    BY <2>1, <2>2, StreamLog
  <2>4. ~y.releasing
    BY <1>1, <1>3, <2>3 DEF Control
  <2> HIDE DEF y
  <2>5. HInv(k) /\ Forward(y, k)
    BY <2>3, <2>4, RemoveUserLog
  <2>6. k \in SessionType
    BY <2>5 DEF HInv, LInv
  <2> HIDE DEF k
  <2> QED BY <1>1, <2>3, <2>5, <2>6, ForwardTrans DEF Forward
<1>4. HInv(z) /\ Forward(z, z)
  BY <1>1, ExtSelf DEF Forward
<1>5. y = [z EXCEPT !.resetstream = Append(@, m)]
  BY <1>1 DEF SessionType
<1>6. \/ AddToInitStream(z, m) = AddToHistory(z, m)
      \/ AddToInitStream(z, m) = z
      \/ z.state = "Reset" /\ AddToInitStream(z, m) = k
      \/ z.state = "Reset" /\ AddToInitStream(z, m) = y
  <2> HIDE DEF y
  <2> QED BY <1>5 DEF AddToInitStream
<1> HIDE DEF y, k
<1>7. HInv(AddToInitStream(z, m)) /\ Forward(z, AddToInitStream(z, m))
  BY <1>2, <1>3, <1>4, <1>6
<1> QED BY <1>2, <1>7 DEF Store

\* Telling everyone, or one client, keeps the invariant.
LEMMA DirectKeeps ==
  ASSUME NEW z, HInv(z)
  PROVE  /\ HInv(DirectToAll(z)) /\ Forward(z, DirectToAll(z))
         /\ \A U : HInv(DirectTo(z, U)) /\ Forward(z, DirectTo(z, U))
<1>1. z \in SessionType
  BY DEF HInv, LInv
<1>2. HInv(DirectToAll(z)) /\ Forward(z, DirectToAll(z))
  BY <1>1, DirectToAllType, DirectToAllLog, SameLogKeeps DEF Forward
<1>3. ASSUME NEW U PROVE HInv(DirectTo(z, U)) /\ Forward(z, DirectTo(z, U))
  BY <1>1, DirectToType, DirectToLog, SameLogKeeps DEF Forward
<1> QED BY <1>2, <1>3

\* MSG_SESSION_OWNER
LEMMA HandleOwnerLog ==
  ASSUME NEW z, HInv(z), NEW in \in Input
  PROVE  HInv(HandleOwner(z, in)) /\ Forward(z, HandleOwner(z, in))
<1> DEFINE ids == in.ids \cup {in.by}
           y == SetOperators(z, ids)
           k == KickResetter(z, y)
           m == M("Owner", in.by, Ops(y), NoConf)
           x == Store(k, m)
<1>1. z \in SessionType /\ in.by \in User /\ ids \in SUBSET User
  BY DEF HInv, LInv, Input
<1>2. HandleOwner(z, in) = x \/ HandleOwner(z, in) = DirectToAll(z)
  BY DEF HandleOwner
<1> HIDE DEF ids
<1>3. HInv(k) /\ Forward(z, k)
  BY <1>1, KickResetterLog
<1>4. m \in Msg /\ FromHost(k, m)
  BY <1>1, SetOperatorsType, OpsType, MType, NoConfType, NotDraw
     DEF MsgTypes, Stored
<1> HIDE DEF k, m
<1>5. HInv(x) /\ Forward(k, x)
  BY <1>3, <1>4, StoreLog
<1>6. k \in SessionType /\ x \in SessionType
  BY <1>3, <1>5 DEF HInv, LInv
<1> HIDE DEF x
<1>7. Forward(z, x)
  BY <1>1, <1>3, <1>5, <1>6, ForwardTrans
<1> QED BY <1>2, <1>5, <1>7, DirectKeeps

\* MSG_TRUSTED_USERS
LEMMA HandleTrustedLog ==
  ASSUME NEW z, HInv(z), NEW in \in Input
  PROVE  HInv(HandleTrusted(z, in)) /\ Forward(z, HandleTrusted(z, in))
<1> DEFINE y == SetTrusted(z, in.ids)
           m == M("Trusted", in.by, Trusteds(y), NoConf)
           x == Store(y, m)
<1>1. z \in SessionType /\ in.by \in User /\ in.ids \in SUBSET User
  BY DEF HInv, LInv, Input
<1>2. HandleTrusted(z, in) = x \/ HandleTrusted(z, in) = DirectToAll(z)
  BY DEF HandleTrusted
<1>3. y \in SessionType /\ SameLog(z, y)
  BY <1>1, SetTrustedType, SetTrustedLog
<1> HIDE DEF y
<1>4. HInv(y) /\ Ext(z, y)
  BY <1>1, <1>3, SameLogKeeps
<1>5. m \in Msg /\ FromHost(y, m)
  BY <1>1, <1>3, OpsType, MType, NoConfType, NotDraw DEF MsgTypes, Stored
<1> HIDE DEF m
<1>6. HInv(x) /\ Forward(y, x)
  BY <1>4, <1>5, StoreLog
<1>7. x \in SessionType
  BY <1>6 DEF HInv, LInv
<1> HIDE DEF x
<1>8. Forward(z, x)
  BY <1>1, <1>3, <1>4, <1>6, <1>7, ForwardTrans DEF Forward
<1> QED BY <1>2, <1>6, <1>8, DirectKeeps

\* setSessionConfig
LEMMA SetSessionConfigLog ==
  ASSUME NEW z, HInv(z), z.state # "Shutdown", NEW conf \in Conf, NEW setter
  PROVE  /\ HInv(SetSessionConfig(z, conf, setter))
         /\ LogStep(z, SetSessionConfig(z, conf, setter))
<1> DEFINE new == Granted(z, conf, setter)
           y == [z EXCEPT !.conf = new]
           x == SendUpdatedSessionProperties(y)
           d == DirectToAll(x)
<1>1. /\ z \in SessionType /\ Control(z) /\ Unique(z) /\ HostAlone(z)
      /\ Sent(z) /\ HostCurrent(z) /\ Asked(z)
  BY DEF HInv, LInv
<1>2. new \in Conf
  BY <1>1, GrantedType
<1>3. SetSessionConfig(z, conf, setter) = d
  BY DEF SetSessionConfig
<1> HIDE DEF new
<1>4. /\ y \in SessionType /\ SameControl(z, y)
      /\ y.hist = z.hist /\ y.first = z.first /\ y.base = z.base
      /\ y.autoreset = z.autoreset /\ y.pos = z.pos /\ y.seen = z.seen
  BY <1>1, <1>2 DEF SessionType, SameControl
<1> HIDE DEF y
<1>5. Members(y) = Members(z) /\ LastIndex(y) = LastIndex(z)
  BY <1>4 DEF SameControl, Members, LastIndex
<1>6. Control(y) /\ Unique(y) /\ HostAlone(y) /\ HostCurrent(y)
  BY <1>1, <1>4, <1>5, SameControlKeeps
     DEF SameControl, Unique, HostAlone, HostCurrent
<1>7. Sent(y)
  BY <1>1, <1>4, <1>5 DEF Sent, Passed, Reads, SameControl
<1>8. LInv(y) /\ MayAsk(y)
  BY <1>1, <1>4, <1>6, <1>7 DEF LInv, MayAsk, Asked, SameControl
<1>9. HInv(x) /\ Ext(y, x)
  BY <1>8, SendUpdatedSessionPropertiesLog
<1>10. x \in SessionType
  BY <1>9 DEF HInv, LInv
<1> HIDE DEF x
<1>11. d \in SessionType /\ HInv(d) /\ Ext(x, d)
  BY <1>9, <1>10, DirectToAllType, DirectToAllLog, SameLogKeeps
<1> HIDE DEF d
<1>12. Ext(y, d)
  BY <1>4, <1>9, <1>10, <1>11, ExtTrans
<1>13. LogStep(z, d)
  BY <1>4, <1>5, <1>12 DEF Ext, Quiet, LogStep, Turn
<1> QED BY <1>3, <1>11, <1>13

\* kickUser
LEMMA KickUserLog ==
  ASSUME NEW z, HInv(z), ~z.releasing, NEW in \in Input
  PROVE  HInv(KickUser(z, in)) /\ Forward(z, KickUser(z, in))
<1> DEFINE target == Target(in)
           b == [z EXCEPT !.banned = @ \cup {target}]
           x == IF in.t = "ban-user" THEN b ELSE z
           y == DirectToAll(x)
           k == RemoveUser(y, target)
<1>1. z \in SessionType
  BY DEF HInv, LInv
<1>2. HInv(DirectTo(z, {in.by})) /\ Forward(z, DirectTo(z, {in.by}))
  BY DirectKeeps
<1>3. CASE target \in User
  <2>1. b \in SessionType /\ SameLog(z, b) /\ SameLog(z, z)
    BY <1>1, <1>3 DEF SessionType, SameLog
  <2> HIDE DEF b
  <2>2. x \in SessionType /\ SameLog(z, x)
    BY <2>1, <1>1
  <2> HIDE DEF x
  <2>3. y \in SessionType /\ SameLog(z, y)
    BY <2>2, DirectToAllType, DirectToAllLog, SameLogTrans
  <2>4. \/ KickUser(z, in) = DirectTo(z, {in.by})
        \/ KickUser(z, in) = y
        \/ KickUser(z, in) = k
    BY DEF KickUser, x, b
  <2> HIDE DEF y
  <2>5. HInv(y) /\ Forward(z, y) /\ ~y.releasing
    BY <1>1, <2>3, SameLogKeeps DEF Forward, SameLog
  <2>6. HInv(k) /\ Forward(y, k)
    BY <2>5, RemoveUserLog
  <2>7. k \in SessionType
    BY <2>6 DEF HInv, LInv
  <2> HIDE DEF k
  <2>8. Forward(z, k)
    BY <1>1, <2>3, <2>5, <2>6, <2>7, ForwardTrans
  <2> QED BY <1>2, <2>4, <2>5, <2>6, <2>8
<1>4. CASE target \notin User
  <2>1. target \notin z.past /\ target \notin Members(z)
    BY <1>1, <1>4, MembersType DEF SessionType
  <2> QED BY <2>1, <1>2 DEF KickUser
<1> QED BY <1>3, <1>4

\* removeBan and setMute do not touch the log; readyToAutoReset answers a
\* question that has been asked.
LEMMA SmallCommandsLog ==
  ASSUME NEW z, HInv(z), NEW in \in Input
  PROVE  /\ HInv(ReadyToAutoReset(z)) /\ LogStep(z, ReadyToAutoReset(z))
         /\ HInv(RemoveBan(z, Target(in)))
         /\ Forward(z, RemoveBan(z, Target(in)))
         /\ HInv(SetMute(z, in)) /\ Forward(z, SetMute(z, in))
<1>1. /\ z \in SessionType /\ Control(z) /\ Unique(z) /\ HostAlone(z)
      /\ Sent(z) /\ HostCurrent(z) /\ Asked(z)
  BY DEF HInv, LInv
<1>2. /\ RemoveBan(z, Target(in)) \in SessionType
      /\ SetMute(z, in) \in SessionType
  BY <1>1, SmallCommandsType
<1>3. SameLog(z, RemoveBan(z, Target(in)))
  BY <1>1 DEF RemoveBan, DirectToAll, DirectTo, SameLog, SessionType
<1>4. SameLog(z, SetMute(z, in))
  BY <1>1 DEF SetMute, DirectToAll, DirectTo, SameLog, SessionType
<1>5. HInv(ReadyToAutoReset(z)) /\ LogStep(z, ReadyToAutoReset(z))
  <2> DEFINE y == [z EXCEPT !.autoreset = "Requested"]
             d == DirectToAll(y)
  <2>1. CASE z.autoreset # "Queried"
    BY <1>1, <2>1, ExtSelf, ForwardIsLogStep DEF ReadyToAutoReset, Forward
  <2>2. CASE z.autoreset = "Queried"
    <3>1. /\ y \in SessionType /\ SameControl(z, y)
          /\ y.hist = z.hist /\ y.first = z.first /\ y.base = z.base
          /\ y.conf.threshold = z.conf.threshold
          /\ y.autoreset = "Requested" /\ y.pos = z.pos /\ y.seen = z.seen
      BY <1>1 DEF SessionType, SameControl
    <3>2. ReadyToAutoReset(z) = d
      BY <2>2 DEF ReadyToAutoReset
    <3> HIDE DEF y
    <3>3. Members(y) = Members(z) /\ LastIndex(y) = LastIndex(z)
      BY <3>1 DEF SameControl, Members, LastIndex
    <3>4. Control(y) /\ Unique(y) /\ HostAlone(y) /\ HostCurrent(y)
      BY <1>1, <3>1, <3>3, SameControlKeeps
         DEF SameControl, Unique, HostAlone, HostCurrent
    <3>5. Sent(y)
      BY <1>1, <3>1, <3>3 DEF Sent, Passed, Reads, SameControl
    <3>6. Asked(y)
      BY <1>1, <2>2, <3>1
         DEF Asked, IsOutOfSpace, IsTooLong, EffectiveThreshold
    <3>7. HInv(y)
      BY <3>1, <3>4, <3>5, <3>6 DEF HInv, LInv
    <3>8. SameLog(y, d) /\ d \in SessionType
      BY <3>1, DirectToAllLog, DirectToAllType
    <3> HIDE DEF d
    <3>9. HInv(d) /\ Members(d) = Members(z)
      BY <3>1, <3>3, <3>7, <3>8, SameLogKeeps
    <3>10. LogStep(z, d)
      <4>1. /\ d.hist = z.hist /\ d.first = z.first /\ d.pos = z.pos
            /\ d.autoreset = "Requested"
        BY <3>1, <3>8 DEF SameLog
      <4>2. \A u \in Members(z) : z.pos[u] \in Int /\ z.pos[u] = d.pos[u]
        BY <1>1, <4>1, LogTypes
      <4>3. Pre(z.hist, d.hist)
        BY <1>1, <4>1, LogTypes, PreSelf
      <4> QED BY <2>2, <4>1, <4>2, <4>3 DEF LogStep, Turn
    <3> QED BY <3>2, <3>9, <3>10
  <2> QED BY <2>1, <2>2
<1> QED BY <1>1, <1>2, <1>3, <1>4, <1>5, SameLogKeeps DEF Forward

\* resetSession: in the running state nobody is held, so everyone reads on.
LEMMA ResetSessionLog ==
  ASSUME NEW z, HInv(z), CInv(z), z.state = "Running", NEW u \in Ops(z)
  PROVE  HInv(ResetSession(z, u)) /\ Forward(z, ResetSession(z, u))
<1> DEFINE E == <<>>
           y == [z EXCEPT !.state = "Reset", !.initUser = u,
                          !.resetstream = E]
           d == ResetSession(z, u)
<1>1. /\ z \in SessionType /\ Control(z) /\ Unique(z) /\ Sent(z) /\ Asked(z)
      /\ u \in User
  BY OpsType DEF HInv, LInv
<1>2. E \in Seq(Msg)
  BY EmptyType
<1>3. d = DirectToAll(y)
  BY DEF ResetSession
<1>4. CInv(d)
  BY ResetSessionCInv
<1> HIDE DEF E
<1>5. /\ y \in SessionType /\ y.state = "Reset" /\ y.clients = z.clients
      /\ y.locked = z.locked /\ y.hist = z.hist /\ y.first = z.first
      /\ y.base = z.base /\ y.conf.threshold = z.conf.threshold
      /\ y.autoreset = z.autoreset /\ y.pos = z.pos /\ y.seen = z.seen
  BY <1>1, <1>2 DEF SessionType, States
<1> HIDE DEF y
<1>6. SameLog(y, d)
  BY <1>3, <1>5, DirectToAllLog
<1> HIDE DEF d
<1>7. /\ d.state = "Reset" /\ d.clients = z.clients
      /\ d.locked = z.locked /\ d.hist = z.hist /\ d.first = z.first
      /\ d.base = z.base /\ d.conf.threshold = z.conf.threshold
      /\ d.autoreset = z.autoreset /\ d.pos = z.pos /\ d.seen = z.seen
  BY <1>5, <1>6 DEF SameLog
<1>8. Members(d) = Members(z) /\ LastIndex(d) = LastIndex(z)
      /\ Members(z) \subseteq User
  BY <1>1, <1>7, LogTypes DEF Members, LastIndex
<1>9. Unique(d) /\ HostAlone(d) /\ HostCurrent(d)
  BY <1>1, <1>7 DEF Unique, HostAlone, HostCurrent
<1>10. \A v \in Members(d) : Reads(z, v)
  BY <1>1, <1>8 DEF Reads, Control
<1>11. Sent(d)
  BY <1>1, <1>7, <1>8, <1>10 DEF Sent, Passed
<1>12. Asked(d)
  BY <1>1, <1>7 DEF Asked, IsOutOfSpace, IsTooLong, EffectiveThreshold
<1>13. Ext(z, d)
  <2>1. \A v \in Members(d) : z.pos[v] \in Int /\ z.pos[v] = d.pos[v]
    BY <1>1, <1>7, <1>8, LogTypes
  <2>2. Pre(z.hist, d.hist)
    BY <1>1, <1>7, LogTypes, PreSelf
  <2> QED BY <1>7, <1>8, <2>1, <2>2 DEF Ext, Quiet
<1> QED BY <1>4, <1>9, <1>11, <1>12, <1>13 DEF HInv, LInv, CInv, Forward, d


\* Every command keeps the log: of a member that is not held back, and of a
\* client that is being released.
LEMMA HandleCommandLog ==
  ASSUME NEW z, HInv(z), CInv(z), NEW in \in Input,
         z.releasing => in.t \notin Removing,
         ~z.releasing => in.by \in Members(z) /\ in.by \notin z.locked
  PROVE  HInv(HandleCommand(z, in)) /\ LogStep(z, HandleCommand(z, in))
<1>1. z \in SessionType /\ Control(z) /\ Resetting(z)
  BY DEF CInv
<1>2. in.by \in User /\ in.by # NoUser /\ in.conf \in Conf
  BY UserAssumption DEF Input
<1>3. /\ HInv(DirectTo(z, {in.by})) /\ Forward(z, DirectTo(z, {in.by}))
      /\ HInv(DirectToAll(z)) /\ Forward(z, DirectToAll(z))
      /\ HInv(z) /\ Forward(z, z)
  BY <1>1, DirectKeeps, ExtSelf DEF Forward
<1>4. ASSUME in.by = z.initUser
      PROVE  /\ ~z.releasing /\ z.clients # <<>> /\ z.initUser \notin z.locked
             /\ z.state \in {"Initialization", "Reset"}
  BY <1>1, <1>2, <1>4, MembersAlive DEF Control
<1>5. ASSUME in.by = z.initUser
      PROVE  /\ HInv([z EXCEPT !.resetstream = <<>>])
             /\ Forward(z, [z EXCEPT !.resetstream = <<>>])
             /\ HInv(SwitchToRunning(z)) /\ Forward(z, SwitchToRunning(z))
             /\ HInv(AbortReset(z)) /\ Forward(z, AbortReset(z))
  BY <1>4, <1>5, SwitchToRunningLog, AbortResetLog, DropStream DEF Forward
<1>6. /\ HInv(SetSessionConfig(z, in.conf, in.by))
      /\ LogStep(z, SetSessionConfig(z, in.conf, in.by))
  <2>1. z.state # "Shutdown"
    BY <1>1, <1>2, MembersAlive DEF Control
  <2> QED BY <1>2, <2>1, SetSessionConfigLog
<1>7. in.t \in {"kick-user", "ban-user"} =>
        HInv(KickUser(z, in)) /\ Forward(z, KickUser(z, in))
  BY KickUserLog DEF Removing
<1>8. HInv(GrantOp(z, in.by)) /\ Forward(z, GrantOp(z, in.by))
  BY <1>2, GrantOpLog DEF Forward
<1>9. in.t = "reset-session" /\ MayRun(z, in.t, in.by) /\ z.state = "Running"
      => HInv(ResetSession(z, in.by)) /\ Forward(z, ResetSession(z, in.by))
  <2> SUFFICES ASSUME in.t = "reset-session", MayRun(z, in.t, in.by),
                      z.state = "Running"
               PROVE  /\ HInv(ResetSession(z, in.by))
                      /\ Forward(z, ResetSession(z, in.by))
    OBVIOUS
  <2>1. ~z.releasing
    BY <1>1 DEF Control
  <2>2. in.by \in Ops(z)
    BY <2>1 DEF MayRun, Ops
  <2> QED BY <2>2, ResetSessionLog
<1>10. HInv(KillSession(z)) /\ Forward(z, KillSession(z))
  BY KillSessionLog DEF Forward
<1>11. /\ HInv(ReadyToAutoReset(z)) /\ LogStep(z, ReadyToAutoReset(z))
       /\ HInv(RemoveBan(z, Target(in)))
       /\ Forward(z, RemoveBan(z, Target(in)))
       /\ HInv(SetMute(z, in)) /\ Forward(z, SetMute(z, in))
  BY SmallCommandsLog
<1>12. \A y : HInv(y) /\ Forward(z, y) => LogStep(z, y)
  BY ForwardIsLogStep DEF HInv, LInv
<1> QED BY <1>3, <1>5, <1>6, <1>7, <1>8, <1>9, <1>10, <1>11, <1>12
        DEF HandleCommand

\* The same for every message.
LEMMA HandleClientMessageLog ==
  ASSUME NEW z, HInv(z), CInv(z), NEW in \in Input,
         z.releasing => in.t \notin Removing,
         ~z.releasing => in.by \in Members(z) /\ in.by \notin z.locked
  PROVE  /\ HInv(HandleClientMessage(z, in))
         /\ LogStep(z, HandleClientMessage(z, in))
<1>1. /\ z \in SessionType /\ Control(z) /\ HostAlone(z)
      /\ Members(z) \subseteq User /\ NoUser \notin User
  BY UserAssumption, LogTypes DEF HInv, LInv
<1>2. in.t \in {"Draw", "Chat"} => in \in Msg
  BY DEF Input, Msg, MsgTypes, Stored
<1>3. FromHost(z, in)
  BY <1>1 DEF FromHost, HostAlone, Control
<1>4. in.t \in {"Draw", "Chat"} =>
        HInv(Store(z, in)) /\ Forward(z, Store(z, in))
  BY <1>2, <1>3, StoreLog
<1>5. /\ HInv(DirectToAll(z)) /\ Forward(z, DirectToAll(z))
      /\ HInv(DirectTo(z, {in.by, Target(in)}))
      /\ Forward(z, DirectTo(z, {in.by, Target(in)}))
      /\ HInv(z) /\ Forward(z, z)
  BY <1>1, DirectKeeps, ExtSelf DEF Forward
<1>6. /\ HInv(HandleOwner(z, in)) /\ Forward(z, HandleOwner(z, in))
      /\ HInv(HandleTrusted(z, in)) /\ Forward(z, HandleTrusted(z, in))
      /\ HInv(HandleCommand(z, in)) /\ LogStep(z, HandleCommand(z, in))
  BY HandleOwnerLog, HandleTrustedLog, HandleCommandLog
<1>7. \A y : HInv(y) /\ Forward(z, y) => LogStep(z, y)
  BY ForwardIsLogStep DEF HInv, LInv
<1> QED BY <1>4, <1>5, <1>6, <1>7 DEF HandleClientMessage

-----------------------------------------------------------------------------
(* Users join.                                                             *)

\* What joinUser does once the user is in m_clients
AfterJoin(y, u) ==
  LET joined == AddToHistory(y, M("Join", u, {}, NoConf))
      opped == IF IsOperator(joined, u) \/ u \in joined.authOps
               THEN GrantOp(joined, u) ELSE joined
      trusted == IF u \in TrustFlag \cup opped.authTrusted
                 THEN ChangeTrustedStatus(opped, u, TRUE) ELSE opped
  IN  DirectToAll(EnsureOperatorExists(trusted))

\* It only adds messages.
LEMMA AfterJoinLog ==
  ASSUME NEW y, HInv(y), NEW u \in User
  PROVE  HInv(AfterJoin(y, u)) /\ Ext(y, AfterJoin(y, u))
<1> DEFINE m == M("Join", u, {}, NoConf)
           joined == AddToHistory(y, m)
           opped == IF IsOperator(joined, u) \/ u \in joined.authOps
                    THEN GrantOp(joined, u) ELSE joined
           trusted == IF u \in TrustFlag \cup opped.authTrusted
                      THEN ChangeTrustedStatus(opped, u, TRUE) ELSE opped
           ensured == EnsureOperatorExists(trusted)
           last == DirectToAll(ensured)
<1>1. AfterJoin(y, u) = last
  BY DEF AfterJoin
<1>2. m \in Msg /\ FromHost(y, m)
  BY MType, NoConfType, NotDraw DEF MsgTypes
<1> HIDE DEF m
<1>3. HInv(joined) /\ Ext(y, joined)
  BY <1>2, AddKeeps
<1> HIDE DEF joined
<1>4. y \in SessionType /\ joined \in SessionType
  BY <1>3 DEF HInv, LInv
<1>5. HInv(opped) /\ Ext(joined, opped)
  BY <1>3, <1>4, GrantOpLog, ExtSelf
<1> HIDE DEF opped
<1>6. opped \in SessionType
  BY <1>5 DEF HInv, LInv
<1>7. HInv(trusted) /\ Ext(opped, trusted)
  BY <1>5, <1>6, ChangeTrustedStatusLog, ExtSelf
<1> HIDE DEF trusted
<1>8. HInv(ensured) /\ Ext(trusted, ensured)
  BY <1>7, EnsureOperatorExistsLog
<1> HIDE DEF ensured
<1>9. trusted \in SessionType /\ ensured \in SessionType
  BY <1>7, <1>8 DEF HInv, LInv
<1>10. last \in SessionType /\ HInv(last) /\ Ext(ensured, last)
  BY <1>8, <1>9, DirectToAllType, DirectToAllLog, SameLogKeeps
<1> HIDE DEF last
<1>11. Ext(y, opped)
  BY <1>3, <1>4, <1>5, <1>6, ExtTrans
<1>12. Ext(opped, ensured)
  BY <1>6, <1>7, <1>8, <1>9, ExtTrans
<1>13. Ext(y, ensured)
  BY <1>4, <1>6, <1>9, <1>11, <1>12, ExtTrans
<1>14. Ext(y, last)
  BY <1>4, <1>9, <1>10, <1>13, ExtTrans
<1> QED BY <1>1, <1>10, <1>14

\* A guest begins to read before the first message; when the session is being
\* initialized it is held back, also when it is the host that comes back.
LEMMA JoinUserLog ==
  ASSUME NEW z, HInv(z), ~z.releasing, z.state # "Shutdown",
         NEW u \in User, u \notin Members(z)
  PROVE  /\ HInv(JoinUser(z, u, FALSE)) /\ LogStep(z, JoinUser(z, u, FALSE))
<1> DEFINE C == Append(z.clients, u)
           A == z.past \ {u}
           L == IF z.state = "Initialization" THEN z.locked \cup {u}
                                              ELSE z.locked
           T == z.uploading \cup {u}
           y == [z EXCEPT !.clients = C, !.past = A, !.locked = L,
                          !.uploading = T]
           x == JoinUser(z, u, FALSE)
<1>1. /\ z \in SessionType /\ Control(z) /\ Unique(z) /\ HostAlone(z)
      /\ Sent(z) /\ HostCurrent(z) /\ Asked(z)
  BY DEF HInv, LInv
<1>2. z.clients \in Seq(User) /\ Len(z.clients) \in Nat
  BY <1>1, LogTypes
<1>3. /\ C \in Seq(User) /\ Len(C) = Len(z.clients) + 1
      /\ C[Len(z.clients) + 1] = u
      /\ \A i \in 1..Len(z.clients) : C[i] = z.clients[i]
  BY <1>2, AppendProperties
<1>4. /\ A \in SUBSET User /\ L \in SUBSET User /\ T \in SUBSET User
  BY <1>1 DEF SessionType
<1>5. y = [z EXCEPT
             !.clients = Append(@, u), !.past = @ \ {u},
             !.initUser = IF FALSE THEN u ELSE @,
             !.locked = IF ~FALSE /\ z.state = "Initialization"
                        THEN @ \cup {u} ELSE @,
             !.uploading = @ \cup {u}]
  BY <1>1 DEF SessionType
<1>6. x = AfterJoin(y, u)
  <2> HIDE DEF y
  <2> QED BY <1>5 DEF JoinUser, AfterJoin
<1> HIDE DEF C, A, T, x
<1>7. /\ y \in SessionType /\ y.state = z.state /\ y.initUser = z.initUser
      /\ y.clients = C /\ y.resetstream = z.resetstream
      /\ y.releasing = z.releasing /\ y.locked = L /\ y.held = z.held
      /\ y.hist = z.hist /\ y.first = z.first /\ y.base = z.base
      /\ y.conf.threshold = z.conf.threshold
      /\ y.autoreset = z.autoreset /\ y.pos = z.pos /\ y.seen = z.seen
  <2> HIDE DEF L
  <2> QED BY <1>1, <1>3, <1>4 DEF SessionType
<1> HIDE DEF y
<1>8. Members(y) = Members(z) \cup {u}
  <2>1. \A i \in 1..Len(C) : i \in 1..Len(z.clients) \/ i = Len(z.clients) + 1
    BY <1>2, <1>3
  <2>2. /\ Len(z.clients) + 1 \in 1..Len(C)
        /\ \A i \in 1..Len(z.clients) : i \in 1..Len(C)
    BY <1>2, <1>3
  <2>3. \A v : v \in Members(y) <=> v \in Members(z) \/ v = u
    BY <1>3, <1>7, <2>1, <2>2 DEF Members
  <2> QED BY <2>3
<1>9. Unique(y)
  <2> SUFFICES ASSUME NEW i \in 1..Len(C), NEW j \in 1..Len(C), C[i] = C[j]
               PROVE  i = j
    BY <1>7 DEF Unique
  <2>1. \A k \in 1..Len(C) : k \in 1..Len(z.clients) \/ k = Len(z.clients) + 1
    BY <1>2, <1>3
  <2>2. \A k \in 1..Len(z.clients) : z.clients[k] # u
    BY DEF Members
  <2>3. CASE i \in 1..Len(z.clients) /\ j \in 1..Len(z.clients)
    BY <1>1, <1>3, <2>3 DEF Unique
  <2> QED BY <1>3, <2>1, <2>2, <2>3
<1>10. Control(y)
  <2>1. ASSUME NEW v \in User, v \in y.locked \/ y.held[v] # <<>>
        PROVE  v \in Members(y) /\ v \in y.locked /\ y.state = "Initialization"
    BY <2>1, <1>1, <1>7, <1>8 DEF Control
  <2> QED BY <2>1, <1>1, <1>7, <1>8 DEF Control
<1>11. HostAlone(y)
  BY <1>1, <1>7, <1>8 DEF HostAlone
<1>12. LastIndex(y) = LastIndex(z)
  BY <1>7 DEF LastIndex
<1>13. HostCurrent(y)
  BY <1>1, <1>7, <1>8, <1>12 DEF HostCurrent
<1>14. Sent(y)
  <2>1. /\ z.pos[u] = -1 /\ z.seen[u] = <<>>
    BY <1>1 DEF Sent
  <2>2. /\ LastIndex(z) = (z.first + Len(z.hist)) - 1 /\ z.first \in Nat
        /\ Len(z.hist) \in Nat /\ z.hist \in Seq(Msg)
    BY <1>1, LogTypes
  <2>3. -1 <= LastIndex(z) /\ Passed(z, -1) = 0
    BY <2>2 DEF Passed
  <2>4. Pre(z.seen[u], z.hist) /\ Len(z.seen[u]) = Passed(z, z.pos[u])
    BY <2>1, <2>2, <2>3, PreEmpty
  <2>5. \A v \in Members(y) : y.pos[v] <= LastIndex(y)
    BY <1>1, <1>7, <1>8, <1>12, <2>1, <2>3 DEF Sent
  <2>6. \A v \in Members(z) : Reads(y, v) => Reads(z, v)
    BY <1>7 DEF Reads
  <2>7. \A v \in Members(y) : Reads(y, v) =>
          Pre(y.seen[v], y.hist) /\ Len(y.seen[v]) = Passed(y, y.pos[v])
    BY <1>1, <1>7, <1>8, <2>4, <2>6 DEF Sent, Passed
  <2>8. \A v \in User \ Members(y) : y.pos[v] = -1 /\ y.seen[v] = <<>>
    BY <1>1, <1>7, <1>8 DEF Sent
  <2> QED BY <2>5, <2>7, <2>8 DEF Sent
<1>15. Asked(y)
  BY <1>1, <1>7 DEF Asked, IsOutOfSpace, IsTooLong, EffectiveThreshold
<1>16. HInv(y)
  BY <1>7, <1>9, <1>10, <1>11, <1>13, <1>14, <1>15 DEF HInv, LInv
<1>17. HInv(x) /\ Ext(y, x)
  BY <1>6, <1>16, AfterJoinLog
<1>18. LogStep(z, x)
  BY <1>7, <1>8, <1>17 DEF LogStep, Ext, Quiet, Turn
<1> QED BY <1>17, <1>18 DEF x

\* The host of a new session reads what it uploads.
LEMMA HostJoins ==
  ASSUME NEW u \in User, NEW x, x = JoinUser(EmptySession, u, TRUE)
  PROVE  HInv(x) /\ x.first = 0
<1> DEFINE C == Append(EmptySession.clients, u)
           A == EmptySession.past \ {u}
           L == EmptySession.locked
           T == EmptySession.uploading \cup {u}
           z == EmptySession
           y == [z EXCEPT !.clients = C, !.past = A, !.initUser = u,
                          !.locked = L, !.uploading = T]
<1>1. z \in SessionType /\ CInv(z)
  BY EmptySessionType, EmptySessionCInv
<1>2. /\ z.state = "Initialization" /\ z.initUser = NoUser
      /\ z.clients = <<>> /\ z.resetstream = <<>> /\ z.releasing = FALSE
      /\ z.hist = <<>> /\ z.first = 0 /\ z.base = 0
      /\ z.autoreset = "NotSent" /\ z.locked = {}
      /\ z.held = [v \in User |-> <<>>]
      /\ z.pos = [v \in User |-> -1] /\ z.seen = [v \in User |-> <<>>]
      /\ z.past = {} /\ z.uploading = {}
  BY DEF EmptySession
<1>3. C \in Seq(User) /\ Len(C) = 1 /\ C[1] = u
  BY <1>2
<1>4. A \in SUBSET User /\ L \in SUBSET User /\ T \in SUBSET User /\ L = {}
  BY <1>2
<1>5. y = [z EXCEPT
             !.clients = Append(@, u), !.past = @ \ {u},
             !.initUser = IF TRUE THEN u ELSE @,
             !.locked = IF ~TRUE /\ z.state = "Initialization"
                        THEN @ \cup {u} ELSE @,
             !.uploading = @ \cup {u}]
  <2> HIDE DEF z
  <2> QED BY <1>1 DEF SessionType, z
<1>6. x = AfterJoin(y, u)
  <2> HIDE DEF y
  <2> QED BY <1>5 DEF JoinUser, AfterJoin
<1> HIDE DEF C, A, L, T, z
<1>7. /\ y \in SessionType /\ y.state = "Initialization" /\ y.initUser = u
      /\ y.clients = C /\ y.resetstream = z.resetstream
      /\ y.releasing = z.releasing /\ y.locked = {} /\ y.held = z.held
      /\ y.hist = z.hist /\ y.first = 0 /\ y.base = 0
      /\ y.autoreset = "NotSent" /\ y.pos = z.pos /\ y.seen = z.seen
  BY <1>1, <1>2, <1>3, <1>4, ZenonT(60) DEF SessionType
<1> HIDE DEF y
<1>0. Len(y.clients) = 1 /\ y.clients[1] = u /\ 1..1 = {1}
  BY <1>3, <1>7
<1>8. Members(y) = {u}
  <2>1. Members(y) = {y.clients[i] : i \in {1}}
    BY <1>0 DEF Members
  <2> QED BY <1>0, <2>1
<1>9. ASSUME NEW v \in User
      PROVE  y.held[v] = <<>> /\ y.pos[v] = -1 /\ y.seen[v] = <<>>
  <2>1. z.held[v] = <<>>
    BY <1>2, Zenon
  <2>2. z.pos[v] = -1
    BY <1>2, Zenon
  <2>3. z.seen[v] = <<>>
    BY <1>2, Zenon
  <2> QED BY <1>7, <2>1, <2>2, <2>3
<1>10. \A v \in User : Len(y.held[v]) = 0
  <2>1. Len(<<>>) = 0
    OBVIOUS
  <2> QED BY <1>9, <2>1
<1>11. Control(y)
  BY <1>2, <1>7, <1>9, <1>10 DEF Control
<1>12. Unique(y) /\ HostAlone(y)
  <2>1. \A i, j \in 1..Len(y.clients) : i = j
    BY <1>0
  <2> QED BY <1>7, <1>8, <2>1 DEF Unique, HostAlone
<1>13. Len(y.hist) = 0 /\ y.hist \in Seq(Msg)
  BY <1>2, <1>7, EmptyType
<1>14. LastIndex(y) = -1
  BY <1>7, <1>13, LogTypes
<1>15. HostCurrent(y)
  BY <1>7, <1>9, <1>14 DEF HostCurrent
<1>16. Sent(y)
  <2>1. Passed(y, -1) = 0
    BY <1>7 DEF Passed
  <2>2. Pre(y.seen[u], y.hist) /\ Len(y.seen[u]) = Passed(y, y.pos[u])
    BY <1>9, <1>13, <2>1, PreEmpty
  <2> QED BY <1>8, <1>9, <1>14, <2>2 DEF Sent
<1>17. Asked(y)
  <2>1. EffectiveThreshold(y) \in Nat
    BY <1>7, ThresholdType
  <2> QED BY <1>7, <1>13, <2>1 DEF Asked, IsTooLong
<1>18. HInv(y)
  BY <1>7, <1>11, <1>12, <1>15, <1>16, <1>17 DEF HInv, LInv
<1> QED BY <1>6, <1>7, <1>18, AfterJoinLog DEF Ext


-----------------------------------------------------------------------------
(* The actions.                                                            *)

\* A step of the release handles one held message, or unlocks one client, who
\* then reads like all the others: there is no host any more.
LEMMA ReleaseHeldLog ==
  ASSUME HInv(s), CInv(s), ReleaseHeld
  PROVE  HInv(s') /\ LogStep(s, s')
<1> DEFINE u == NextLocked
           h == s.held[u]
           y == [s EXCEPT !.locked = @ \ {u}]
           H == [s.held EXCEPT ![u] = Tail(h)]
           x == [s EXCEPT !.held = H]
<1>1. /\ s \in SessionType /\ Control(s) /\ Unique(s) /\ HostAlone(s)
      /\ Sent(s) /\ HostCurrent(s) /\ Asked(s) /\ Resetting(s) /\ s.releasing
  BY DEF HInv, LInv, CInv, ReleaseHeld
<1>2. u \in s.locked /\ u \in Members(s) /\ u \in User
  BY <1>1, NextLockedIsLocked, MembersType
<1>3. s' = IF h # <<>> THEN HandleClientMessage(x, Head(h))
           ELSE IF y.locked \cap Members(y) # {} THEN y
           ELSE [y EXCEPT !.state = "Running", !.releasing = FALSE]
  BY <1>1 DEF ReleaseHeld, SessionType
<1>4. /\ s.state = "Initialization" /\ s.initUser = NoUser
      /\ NoUser \notin Members(s) /\ Members(s) \subseteq User
  BY <1>1, LogTypes, UserAssumption DEF Control
<1> HIDE DEF u
<1>5. h \in Seq(Input) /\ s.held \in [User -> Seq(Input)]
  BY <1>1, <1>2 DEF SessionType
<1>6. CASE h # <<>>
  <2>1. /\ Head(h) \in Input /\ Head(h).t \notin Removing
        /\ CInv(x) /\ x.releasing
    BY <1>1, <1>6, TakeHeld DEF u
  <2>2. /\ x.state = s.state /\ x.initUser = s.initUser
        /\ x.clients = s.clients /\ x.locked = s.locked
        /\ x.hist = s.hist /\ x.first = s.first /\ x.base = s.base
        /\ x.conf.threshold = s.conf.threshold
        /\ x.autoreset = s.autoreset /\ x.pos = s.pos /\ x.seen = s.seen
    <3> HIDE DEF H
    <3> QED BY <1>1 DEF SessionType
  <2> HIDE DEF x, h
  <2>3. Members(x) = Members(s) /\ LastIndex(x) = LastIndex(s)
    BY <2>2 DEF Members, LastIndex
  <2>4. Unique(x) /\ HostAlone(x) /\ HostCurrent(x)
    BY <1>1, <2>2, <2>3 DEF Unique, HostAlone, HostCurrent
  <2>5. Sent(x) /\ Asked(x)
    BY <1>1, <2>2, <2>3
       DEF Sent, Passed, Reads, Asked, IsOutOfSpace, IsTooLong,
           EffectiveThreshold
  <2>6. HInv(x)
    BY <2>1, <2>4, <2>5 DEF HInv, LInv, CInv
  <2> DEFINE e == HandleClientMessage(x, Head(h))
  <2>7. HInv(e) /\ LogStep(x, e)
    BY <2>1, <2>6, HandleClientMessageLog
  <2>8. s' = e
    BY <1>3, <1>6
  <2> HIDE DEF e
  <2>9. LogStep(s, e)
    BY <2>2, <2>3, <2>7 DEF LogStep, Rep, Turn
  <2> QED BY <2>7, <2>8, <2>9
<1>7. CASE h = <<>>
  <2>1. CInv(s')
    BY ReleaseHeldCInv
  <2>2. /\ s'.initUser = NoUser /\ s'.clients = s.clients
        /\ s'.hist = s.hist /\ s'.first = s.first /\ s'.base = s.base
        /\ s'.conf.threshold = s.conf.threshold
        /\ s'.autoreset = s.autoreset /\ s'.pos = s.pos /\ s'.seen = s.seen
    <3>1. /\ y \in SessionType /\ y.initUser = NoUser
          /\ y.clients = s.clients
          /\ y.hist = s.hist /\ y.first = s.first /\ y.base = s.base
          /\ y.conf.threshold = s.conf.threshold
          /\ y.autoreset = s.autoreset /\ y.pos = s.pos /\ y.seen = s.seen
      BY <1>1, <1>4 DEF SessionType
    <3> HIDE DEF y
    <3> QED BY <1>3, <1>7, <3>1 DEF SessionType
  <2> DEFINE e == s'
  <2> HIDE DEF e
  <2>3. Members(e) = Members(s) /\ LastIndex(e) = LastIndex(s)
    BY <2>2 DEF Members, LastIndex, e
  <2>4. Unique(e) /\ HostAlone(e) /\ HostCurrent(e)
    BY <1>1, <1>4, <2>2, <2>3 DEF Unique, HostAlone, HostCurrent, e
  <2>5. \A v \in Members(s) : Reads(s, v)
    BY <1>4 DEF Reads
  <2>6. Sent(e)
    BY <1>1, <2>2, <2>3, <2>5 DEF Sent, Passed, e
  <2>7. Asked(e)
    BY <1>1, <2>2 DEF Asked, IsOutOfSpace, IsTooLong, EffectiveThreshold, e
  <2>8. HInv(e)
    BY <2>1, <2>4, <2>6, <2>7 DEF HInv, LInv, CInv, e
  <2>9. LogStep(s, e)
    <3>1. \A v \in Members(s) : s.pos[v] \in Int /\ s.pos[v] = e.pos[v]
      BY <1>1, <1>4, <2>2, LogTypes DEF e
    <3>2. Pre(s.hist, e.hist)
      BY <1>1, <2>2, LogTypes, PreSelf DEF e
    <3> QED BY <2>2, <3>1, <3>2 DEF LogStep, Turn, e
  <2> QED BY <2>8, <2>9 DEF e
<1> QED BY <1>6, <1>7

\* A message is put into the hold queue of its sender, or handled.
LEMMA ReceiveLog ==
  ASSUME HInv(s), CInv(s), NEW in \in Input, Receive(in)
  PROVE  HInv(s') /\ LogStep(s, s')
<1>1. /\ s \in SessionType /\ Unique(s) /\ HostAlone(s)
      /\ Sent(s) /\ HostCurrent(s) /\ Asked(s)
      /\ ~s.releasing /\ in.by \in Members(s) /\ in.by \in User
  BY MembersType DEF HInv, LInv, Receive, Idle
<1>2. CASE in.by \notin s.locked
  <2>1. s' = HandleClientMessage(s, in)
    BY <1>2 DEF Receive
  <2> QED BY <2>1, <1>1, <1>2, HandleClientMessageLog
<1>3. CASE in.by \in s.locked
  <2> DEFINE e == s'
             h == [s.held EXCEPT ![in.by] = Append(s.held[in.by], in)]
  <2>1. CInv(e)
    BY ReceiveCInv
  <2>2. e = [s EXCEPT !.held = h]
    BY <1>1, <1>3 DEF Receive, SessionType
  <2> HIDE DEF e, h
  <2>3. /\ e.state = s.state /\ e.initUser = s.initUser
        /\ e.clients = s.clients /\ e.locked = s.locked
        /\ e.hist = s.hist /\ e.first = s.first /\ e.base = s.base
        /\ e.conf.threshold = s.conf.threshold
        /\ e.autoreset = s.autoreset /\ e.pos = s.pos /\ e.seen = s.seen
    BY <1>1, <2>2 DEF SessionType
  <2>4. Members(e) = Members(s) /\ LastIndex(e) = LastIndex(s)
    BY <2>3 DEF Members, LastIndex
  <2>5. Unique(e) /\ HostAlone(e) /\ HostCurrent(e)
    BY <1>1, <2>3, <2>4 DEF Unique, HostAlone, HostCurrent
  <2>6. Sent(e) /\ Asked(e)
    BY <1>1, <2>3, <2>4
       DEF Sent, Passed, Reads, Asked, IsOutOfSpace, IsTooLong,
           EffectiveThreshold
  <2>7. HInv(e)
    BY <2>1, <2>5, <2>6 DEF HInv, LInv, CInv
  <2>8. LogStep(s, e)
    <3>1. \A v \in Members(s) : s.pos[v] \in Int /\ s.pos[v] = e.pos[v]
      BY <1>1, <2>3, LogTypes
    <3>2. Pre(s.hist, e.hist)
      BY <1>1, <2>3, LogTypes, PreSelf
    <3> QED BY <2>3, <3>1, <3>2 DEF LogStep, Turn
  <2> QED BY <2>7, <2>8 DEF e
<1> QED BY <1>2, <1>3

\* In a session in order, a step forward is a step of the log.
LEMMA StepOfLog ==
  ASSUME NEW z, HInv(z), NEW y, HInv(y), Forward(z, y)
  PROVE  LogStep(z, y)
BY ForwardIsLogStep DEF HInv, LInv

\* Everything the administrator may do to a client.
LEMMA AdminClientLog ==
  ASSUME HInv(s), NEW u \in User, NEW call, AdminClient(u, call)
  PROVE  HInv(s') /\ LogStep(s, s')
<1>1. ~s.releasing
  BY DEF AdminClient, Idle
<1>2. CASE s' = GrantOp(s, u)
  BY <1>2, GrantOpLog, StepOfLog DEF Forward
<1>3. CASE s' = RevokeOp(s, u)
  BY <1>3, RevokeOpLog, StepOfLog
<1>4. ASSUME NEW b \in BOOLEAN, s' = ChangeTrustedStatus(s, u, b)
      PROVE  HInv(s') /\ LogStep(s, s')
  BY <1>4, ChangeTrustedStatusLog, StepOfLog DEF Forward
<1>5. CASE s' = RemoveUser(s, u)
  BY <1>1, <1>5, RemoveUserLog, StepOfLog
<1> QED BY <1>2, <1>3, <1>4, <1>5 DEF AdminClient

\* The connection of a client asks for more, or is given something to write.
LEMMA ConnectionLog ==
  ASSUME HInv(s), NEW u \in User, AllSent(u) \/ Ping(u)
  PROVE  HInv(s') /\ LogStep(s, s')
<1>1. s \in SessionType
  BY DEF HInv, LInv
<1> DEFINE y == [s EXCEPT !.uploading = @ \ {u}]
           x == SendNextHistoryBatch(y, {u})
<1>2. y \in SessionType /\ SameLog(s, y)
  BY <1>1 DEF SessionType, SameLog
<1>3. s' = x \/ s' = DirectTo(s, {u})
  BY DEF AllSent, Ping
<1> HIDE DEF y
<1>4. HInv(y) /\ Ext(s, y)
  BY <1>1, <1>2, SameLogKeeps
<1>5. /\ Control(y) /\ Unique(y) /\ HostAlone(y) /\ Sent(y)
      /\ HostCurrent(y) /\ Asked(y)
  BY <1>4 DEF HInv, LInv
<1>6. /\ x \in SessionType
      /\ SameControl(y, x) /\ x.hist = y.hist /\ x.first = y.first
      /\ x.base = y.base
      /\ x.conf.threshold = y.conf.threshold /\ x.autoreset = y.autoreset
      /\ Members(x) = Members(y) /\ LastIndex(x) = LastIndex(y)
      /\ \A v \in User : v \notin Ready(y, {u}) => x.pos[v] = y.pos[v]
  BY <1>2, SendNextIs
<1>7. Sent(x) /\ Ext(y, x)
  BY <1>2, <1>5, SendNextSent
<1> HIDE DEF x
<1>8. Control(x) /\ Unique(x) /\ HostAlone(x)
  BY <1>5, <1>6, SameControlKeeps DEF SameControl, Unique, HostAlone
<1>9. HostCurrent(x)
  <2>1. Members(y) \subseteq User
    BY <1>2, LogTypes
  <2>2. y.state = "Initialization" => Ready(y, {u}) = {}
    BY DEF Ready
  <2> QED BY <1>5, <1>6, <2>1, <2>2 DEF HostCurrent, SameControl
<1>10. Asked(x)
  BY <1>5, <1>6 DEF Asked, IsOutOfSpace, IsTooLong, EffectiveThreshold
<1>11. HInv(x)
  BY <1>6, <1>7, <1>8, <1>9, <1>10 DEF HInv, LInv
<1>12. LogStep(s, x)
  BY <1>1, <1>2, <1>4, <1>6, <1>7, <1>11, ExtTrans, StepOfLog DEF Forward
<1>13. HInv(DirectTo(s, {u})) /\ LogStep(s, DirectTo(s, {u}))
  BY DirectKeeps, StepOfLog
<1> QED BY <1>3, <1>11, <1>12, <1>13

\* Every step keeps the invariant and takes the log forward.
LEMMA NextLog ==
  ASSUME HInv(s), CInv(s), [Next]_vars
  PROVE  HInv(s') /\ LogStep(s, s')
<1>1. ASSUME NEW u \in User, Join(u) PROVE HInv(s') /\ LogStep(s, s')
  <2>1. /\ ~s.releasing /\ u \notin Members(s) /\ s.state # "Shutdown"
        /\ s' = JoinUser(s, u, FALSE)
    BY <1>1 DEF Join, Idle, MayJoin
  <2> QED BY <2>1, JoinUserLog
<1>2. ASSUME NEW u \in User, Disconnect(u) PROVE HInv(s') /\ LogStep(s, s')
  BY <1>2, RemoveUserLog, StepOfLog DEF Disconnect, Idle
<1>3. ASSUME NEW in \in Inputs, Receive(in) PROVE HInv(s') /\ LogStep(s, s')
  BY <1>3, InputsType, ReceiveLog
<1>4. CASE ReleaseHeld
  BY <1>4, ReleaseHeldLog
<1>5. ASSUME NEW u \in User, AllSent(u) \/ Ping(u)
      PROVE  HInv(s') /\ LogStep(s, s')
  BY <1>5, ConnectionLog
<1>6. ASSUME NEW u \in User, NEW call \in AdminTypes, AdminClient(u, call)
      PROVE  HInv(s') /\ LogStep(s, s')
  BY <1>6, AdminClientLog
<1>7. ASSUME NEW conf \in ConfChoices, AdminConf(conf)
      PROVE  HInv(s') /\ LogStep(s, s')
  <2>1. conf \in Conf
    BY ConfChoicesType
  <2> QED BY <2>1, <1>7, SetSessionConfigLog DEF AdminConf
<1>8. CASE AdminKill
  BY <1>8, KillSessionLog, StepOfLog DEF AdminKill, Forward
<1>9. CASE UNCHANGED vars
  BY <1>9, ExtSelf, StepOfLog DEF vars, Forward, HInv, LInv
<1> QED BY <1>1, <1>2, <1>3, <1>4, <1>5, <1>6, <1>7, <1>8, <1>9 DEF Next


-----------------------------------------------------------------------------
(* The theorems.                                                           *)

\* The invariant holds at every moment of a session: what each reader has
\* been sent is the history up to its position (sendNextHistoryBatch,
\* setHistoryPosition), everyone but the host waits for the initialization to
\* end (joinUser), and the operators are asked for a reset in time
\* (addToHistory).  It says more than its consequences below, which no step
\* keeps by itself.
THEOREM SessionHistoryInOrder == Spec => [](CInv(s) /\ HInv(s))
<1>1. Init => HInv(s)
  BY HostJoins DEF Init
<1>2. HInv(s) /\ CInv(s) /\ [Next]_vars => HInv(s)'
  <2> SUFFICES ASSUME HInv(s), CInv(s), [Next]_vars PROVE HInv(s')
    OBVIOUS
  <2> QED BY NextLog
<1> QED BY <1>1, <1>2, SessionInOrder, PTL DEF Spec

\* A beginning is the first part of the sequence.
LEMMA PreIsSubSeq ==
  ASSUME NEW a \in Seq(Msg), NEW b \in Seq(Msg), Pre(a, b)
  PROVE  a = SubSeq(b, 1, Len(a))
<1> DEFINE n == Len(a)
           c == SubSeq(b, 1, n)
<1>1. n \in Nat /\ Len(b) \in Nat /\ n <= Len(b)
  BY DEF Pre
<1>2. \A i \in 1..n : a[i] = b[i]
  BY DEF Pre
<1>3. \A i \in 1..n : b[i] \in Msg
  BY <1>1
<1>4. n = Len(a)
  OBVIOUS
<1> HIDE DEF n
<1>5. /\ c \in Seq(Msg) /\ Len(c) = IF 1 <= n THEN (n - 1) + 1 ELSE 0
      /\ \A i \in 1..((n - 1) + 1) : c[i] = b[(1 + i) - 1]
  BY <1>1, <1>3, SubSeqProperties
<1> HIDE DEF c
<1>6. Len(c) = n
  BY <1>1, <1>5
<1>7. ASSUME NEW i \in 1..n PROVE a[i] = c[i]
  <2>1. i \in 1..((n - 1) + 1) /\ (1 + i) - 1 = i
    BY <1>1
  <2> QED BY <2>1, <1>2, <1>5
<1>8. a = c
  BY <1>4, <1>5, <1>6, <1>7, SeqEqual
<1> QED BY <1>8 DEF c, n

\* Every client's canvas is built from a prefix of the session history,
\* without a gap, a repetition or remains of a history that was reset
\* (sendNextHistoryBatch, getBatch, setHistoryPosition, SessionHistory::reset),
\* for any number of members and any length of the history.
THEOREM StreamsArePrefixes == Spec => []StreamIsPrefix
<1>1. HInv(s) => StreamIsPrefix
  <2> SUFFICES ASSUME HInv(s), NEW u \in Members(s),
                      ~(u = s.initUser /\ u \in s.locked)
               PROVE  IsPrefixAt(s.hist, s.pos[u] - s.first + 1, s.seen[u])
    BY DEF StreamIsPrefix
  <2> DEFINE k == (s.pos[u] - s.first) + 1
  <2>1. s \in SessionType /\ Sent(s)
    BY DEF HInv, LInv
  <2>2. /\ u \in User /\ s.pos[u] \in Int /\ s.first \in Nat
        /\ s.hist \in Seq(Msg) /\ Len(s.hist) \in Nat
        /\ s.seen[u] \in Seq(Msg) /\ Len(s.seen[u]) \in Nat
        /\ LastIndex(s) = (s.first + Len(s.hist)) - 1
    BY <2>1, LogTypes
  <2>3. /\ s.pos[u] <= LastIndex(s) /\ Pre(s.seen[u], s.hist)
        /\ Len(s.seen[u]) = IF k > 0 THEN k ELSE 0
    BY <2>1 DEF Sent, Reads, Passed
  <2>4. k \in Int /\ k <= Len(s.hist)
    BY <2>2, <2>3
  <2>5. s.seen[u] = SubSeq(s.hist, 1, Len(s.seen[u]))
    BY <2>2, <2>3, PreIsSubSeq
  <2>6. s.seen[u] = SubSeq(s.hist, 1, k)
    <3> HIDE DEF k
    <3>1. CASE k > 0
      BY <3>1, <2>3, <2>5
    <3>2. CASE ~(k > 0)
      <4>1. Len(s.seen[u]) = 0 /\ k < 1
        BY <3>2, <2>3, <2>4
      <4>2. SubSeq(s.hist, 1, k) = <<>>
        BY <4>1, <2>4, SubSeqEmpty
      <4>3. s.seen[u] = <<>>
        BY <4>1, <2>2
      <4> QED BY <4>2, <4>3
    <3> QED BY <3>1, <3>2
  <2>7. s.pos[u] - s.first + 1 = k
    BY <2>2
  <2> QED BY <2>4, <2>6, <2>7 DEF IsPrefixAt
<1> QED BY <1>1, SessionHistoryInOrder, PTL

\* The operators of a session whose history has space left and has outgrown
\* the threshold have been asked for a reset, for every limit and whatever the
\* thresholds that sessionconf set meanwhile and the resets that moved them
\* (addToHistory, setAutoResetThreshold, onSessionReset).
THEOREM AutoResetIsQueried == Spec => []AutoResetQueried
<1>1. HInv(s) => AutoResetQueried
  BY DEF HInv, Asked, AutoResetQueried
<1> QED BY <1>1, SessionHistoryInOrder, PTL

\* They are asked at most once in the life of a history, never of one that is
\* not too long, and only a reset takes the question back (addToHistory,
\* readyToAutoReset, onSessionReset).
THEOREM OperatorsAskedOnce == Spec => AskedOnce
<1>1. CInv(s) /\ HInv(s) /\ [Next]_vars
      => [IF s.autoreset = "NotSent" \/ s'.first # s.first
          THEN \/ s'.autoreset = "NotSent"
               \/ s'.autoreset = "Queried" /\ IsTooLong(s')
          ELSE s'.autoreset \in {s.autoreset, "Requested"}]_vars
  BY NextLog DEF LogStep, Turn, Fresh
<1> QED BY <1>1, SessionHistoryInOrder, PTL DEF Spec, AskedOnce

\* An index of the history is never used for a second message (addMessage,
\* SessionHistory::reset): a client that is behind, or was told to reset, never
\* takes its position for a place in another history.
THEOREM IndicesOnlyGrow == Spec => IndexGrows
<1>1. ASSUME HInv(s), HInv(s'), LogStep(s, s')
      PROVE  s'.first >= s.first /\ LastIndex(s') >= LastIndex(s)
  <2>1. s \in SessionType /\ s' \in SessionType
    BY <1>1 DEF HInv, LInv
  <2>2. /\ s.first \in Nat /\ Len(s.hist) \in Nat
        /\ LastIndex(s) = (s.first + Len(s.hist)) - 1
    BY <2>1, LogTypes
  <2>3. /\ s'.first \in Nat /\ Len(s'.hist) \in Nat
        /\ LastIndex(s') = (s'.first + Len(s'.hist)) - 1
    BY <2>1, LogTypes
  <2>4. \/ s'.first = s.first /\ Len(s.hist) <= Len(s'.hist)
        \/ s'.first >= s.first + Len(s.hist)
    BY <1>1 DEF LogStep, Rep, Pre
  <2> QED BY <2>2, <2>3, <2>4
<1>2. CInv(s) /\ HInv(s) /\ [Next]_vars
      => [s'.first >= s.first /\ LastIndex(s') >= LastIndex(s)]_vars
  BY <1>1, NextLog
<1> QED BY <1>2, SessionHistoryInOrder, PTL DEF Spec, IndexGrows


\* A beginning, in the words of HistoryLog
LEMMA PreBegins ==
  ASSUME NEW a \in Seq(Msg), NEW b \in Seq(Msg), Pre(a, b)
  PROVE  Log!Begins(a, b)
<1>1. Len(a) <= Len(b)
  BY DEF Pre
<1> QED BY <1>1, PreIsSubSeq DEF Log!Begins

\* What a reader of the session z has been sent
Got(z, u) == IF Reads(z, u) THEN z.seen[u] ELSE <<>>

\* What anyone has been sent is a beginning of the history.
LEMMA GotIsPre ==
  ASSUME NEW z, HInv(z), NEW u \in User
  PROVE  Got(z, u) \in Seq(Msg) /\ Pre(Got(z, u), z.hist)
<1>1. z \in SessionType /\ Sent(z)
  BY DEF HInv, LInv
<1>2. z.seen[u] \in Seq(Msg) /\ z.hist \in Seq(Msg)
  BY <1>1, LogTypes
<1>3. CASE Reads(z, u)
  BY <1>1, <1>2, <1>3 DEF Sent, Reads, Got
<1>4. CASE ~Reads(z, u)
  <2>1. Got(z, u) = <<>> /\ <<>> \in Seq(Msg)
    BY <1>4 DEF Got
  <2> QED BY <2>1, <1>2, PreEmpty
<1> QED BY <1>3, <1>4

\* As long as the history is not replaced, nothing is taken back from who
\* goes on reading.
LEMMA GotGrows ==
  ASSUME NEW z, NEW y, HInv(z), HInv(y), y.first = z.first,
         Pre(z.hist, y.hist), NEW u \in User, Reads(z, u), Reads(y, u),
         z.pos[u] <= y.pos[u]
  PROVE  Pre(z.seen[u], y.seen[u])
<1>1. z \in SessionType /\ Sent(z) /\ y \in SessionType /\ Sent(y)
  BY DEF HInv, LInv
<1>2. /\ z.pos[u] \in Int /\ z.first \in Nat /\ Len(z.seen[u]) \in Nat
      /\ Len(z.hist) \in Nat
  BY <1>1, LogTypes
<1>3. y.pos[u] \in Int /\ Len(y.seen[u]) \in Nat
  BY <1>1, LogTypes
<1>4. /\ Pre(z.seen[u], z.hist) /\ Len(z.seen[u]) = Passed(z, z.pos[u])
      /\ Pre(y.seen[u], y.hist) /\ Len(y.seen[u]) = Passed(y, y.pos[u])
  BY <1>1 DEF Sent, Reads
<1>5. Len(z.seen[u]) <= Len(y.seen[u])
  BY <1>2, <1>3, <1>4 DEF Passed
<1>6. ASSUME NEW i \in 1..Len(z.seen[u]) PROVE z.seen[u][i] = y.seen[u][i]
  <2>1. i \in 1..Len(z.hist) /\ i \in 1..Len(y.seen[u])
    BY <1>2, <1>3, <1>4, <1>5 DEF Pre
  <2>2. z.seen[u][i] = z.hist[i] /\ y.seen[u][i] = y.hist[i]
    BY <2>1, <1>4 DEF Pre
  <2>3. z.hist[i] = y.hist[i]
    BY <2>1 DEF Pre
  <2> QED BY <2>2, <2>3
<1> QED BY <1>5, <1>6 DEF Pre

\* A step of the session is a step of the log.
LEMMA LogStepRefines ==
  ASSUME HInv(s), HInv(s'), LogStep(s, s')
  PROVE  Log!Next
<1> DEFINE got == [u \in User |-> IF IsReader(u) THEN s.seen[u] ELSE <<>>]
<1>1. s \in SessionType /\ s' \in SessionType
  BY DEF HInv, LInv
<1>2. /\ s.hist \in Seq(Msg) /\ s'.hist \in Seq(Msg)
      /\ Len(s.hist) \in Nat /\ Len(s'.hist) \in Nat
  BY <1>1, LogTypes
<1>3. \A u \in User : got[u] = Got(s, u) /\ got'[u] = Got(s', u)
  BY DEF IsReader, Reads, Got
<1>4. ASSUME NEW u \in User
      PROVE  /\ got[u] \in Seq(Msg) /\ got'[u] \in Seq(Msg)
             /\ Log!Begins(got'[u], s'.hist)
  <2>1. /\ Got(s, u) \in Seq(Msg) /\ Got(s', u) \in Seq(Msg)
        /\ Pre(Got(s', u), s'.hist)
    BY GotIsPre
  <2>2. Log!Begins(Got(s', u), s'.hist)
    BY <2>1, <1>2, PreBegins
  <2> QED BY <1>3, <2>1, <2>2
<1>5. CASE Rep(s, s')
  <2>1. s'.first >= s.first + Len(s.hist) /\ 0 <= Len(s'.hist)
    BY <1>2, <1>5 DEF Rep
  <2>2. \A u \in User : Log!Begins(got'[u], s'.hist)
    BY <1>4
  <2>3. Log!Replace
    BY <2>1, <2>2 DEF Log!Replace
  <2> QED BY <2>3 DEF Log!Next
<1>6. CASE ~Rep(s, s')
  <2>1. /\ s'.first = s.first /\ Pre(s.hist, s'.hist)
        /\ \A u \in Members(s) \cap Members(s') : s.pos[u] <= s'.pos[u]
    BY <1>6 DEF LogStep
  <2>2. Log!Begins(s.hist, s'.hist)
    BY <1>2, <2>1, PreBegins
  <2>3. ASSUME NEW u \in User
        PROVE  Log!Begins(got[u], got'[u]) \/ got'[u] = <<>>
    <3>1. CASE ~Reads(s', u)
      BY <3>1, <1>3 DEF Got
    <3>2. CASE Reads(s', u) /\ Reads(s, u)
      <4>1. s.pos[u] <= s'.pos[u]
        BY <2>1, <3>2 DEF Reads
      <4>2. Pre(s.seen[u], s'.seen[u])
        BY <2>1, <3>2, <4>1, GotGrows
      <4>3. got[u] = s.seen[u] /\ got'[u] = s'.seen[u]
        BY <1>3, <3>2 DEF Got
      <4>4. Pre(got[u], got'[u])
        BY <4>2, <4>3
      <4> QED BY <4>4, <1>4, PreBegins
    <3>3. CASE Reads(s', u) /\ ~Reads(s, u)
      <4>1. got[u] = <<>>
        BY <1>3, <3>3 DEF Got
      <4>2. Pre(got[u], got'[u])
        BY <4>1, <1>4, PreEmpty
      <4> QED BY <4>2, <1>4, PreBegins
    <3> QED BY <3>1, <3>2, <3>3
  <2>4. 0 <= 0 /\ 0 <= Len(s'.hist)
    BY <1>2
  <2>5. Log!Extend
    BY <1>4, <2>1, <2>2, <2>3, <2>4 DEF Log!Extend
  <2> QED BY <2>5 DEF Log!Next
<1> QED BY <1>5, <1>6

\* Session, ThinSession and ThinServerClient implement the log of HistoryLog
\* (addToHistory, SessionHistory::reset, sendNextHistoryBatch), for any set of
\* users and any limits: the history grows at its end until a reset replaces
\* it by one with higher indices, and whoever goes on reading is never sent a
\* message twice, nor does it miss one, whoever joins, leaves, is kicked, is
\* held back or uploads a reset meanwhile.
THEOREM SessionImplementsLog == Spec => IsHistoryLog
<1>1. Init => Log!Init
  <2> SUFFICES ASSUME Init PROVE Log!Init
    OBVIOUS
  <2> DEFINE got == [u \in User |-> IF IsReader(u) THEN s.seen[u] ELSE <<>>]
  <2>1. HInv(s) /\ s.first = 0
    BY HostJoins DEF Init
  <2>2. s.hist \in Seq(Msg)
    BY <2>1, LogTypes DEF HInv, LInv
  <2>3. ASSUME NEW u \in User PROVE Log!Begins(got[u], s.hist)
    <3>1. got[u] = Got(s, u)
      BY DEF IsReader, Reads, Got
    <3>2. Got(s, u) \in Seq(Msg) /\ Pre(Got(s, u), s.hist)
      BY <2>1, GotIsPre
    <3>3. Log!Begins(Got(s, u), s.hist)
      BY <2>2, <3>2, PreBegins
    <3> QED BY <3>1, <3>3
  <2> QED BY <2>1, <2>3 DEF Log!Init
<1>2. CInv(s) /\ HInv(s) /\ HInv(s)' /\ [Next]_vars => [Log!Next]_(Log!vars)
  BY NextLog, LogStepRefines
<1> QED BY <1>1, <1>2, SessionHistoryInOrder, PTL
        DEF Spec, IsHistoryLog, Log!Spec

=============================================================================
