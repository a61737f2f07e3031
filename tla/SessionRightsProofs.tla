------------------------ MODULE SessionRightsProofs ------------------------
(* Who may do what in a session, and whether its members know: for every    *)
(* set of users and every bound, what the history tells of operators,       *)
(* trusted users, members and settings is what the server acts on.          *)
EXTENDS SessionHistoryProofs

-----------------------------------------------------------------------------
(* Reading the history.                                                    *)

\* The last of some messages of a sequence
LEMMA LastExists ==
  ASSUME NEW n \in Nat, NEW at \in SUBSET (1..n), at # {}
  PROVE  \E k \in at : \A j \in at : j <= k
<1> DEFINE T == {d \in Nat : n - d \in at}
<1>1. PICK i \in at : TRUE
  OBVIOUS
<1>2. n - i \in T /\ i \in 1..n
  <2>1. i \in 1..n /\ n - i \in Nat /\ n - (n - i) = i
    OBVIOUS
  <2> QED BY <2>1
<1>3. T \subseteq Nat /\ T # {}
  BY <1>2
<1>4. PICK d \in T : \A e \in T : <<e, d>> \notin OpToRel(<, Nat)
  BY <1>3, NatLessThanWellFounded, WFMin
<1>5. \A e \in T : ~(e < d)
  BY <1>3, <1>4 DEF OpToRel
<1>6. ASSUME NEW j \in at PROVE j <= n - d
  <2>1. j \in 1..n /\ n - j \in Nat /\ n - (n - j) = j
    OBVIOUS
  <2>2. n - j \in T
    BY <2>1
  <2>3. d \in Nat /\ ~(n - j < d)
    BY <1>3, <1>5, <2>2
  <2> HIDE DEF T
  <2> QED BY <2>1, <2>3
<1>7. n - d \in at
  OBVIOUS
<1> QED BY <1>6, <1>7

\* Who left after a message, when one more is read
LEMMA LeftAppend ==
  ASSUME NEW h \in Seq(Msg), NEW m \in Msg, NEW k \in 1..Len(h)
  PROVE  LeftAfter(Append(h, m), k) =
           LeftAfter(h, k) \cup (IF m.t = "Leave" THEN {m.by} ELSE {})
<1> DEFINE g == Append(h, m)
           n == Len(h)
           L == {j \in (k + 1)..Len(h) : h[j].t = "Leave"}
           K == {j \in (k + 1)..Len(g) : g[j].t = "Leave"}
<1>1. n \in Nat /\ Len(g) = n + 1 /\ g[n + 1] = m /\ \A i \in 1..n : g[i] = h[i]
  BY AppendProperties
<1>2. LeftAfter(h, k) = {h[j].by : j \in L} /\ LeftAfter(g, k) = {g[j].by : j \in K}
  BY DEF LeftAfter
<1> HIDE DEF g
<1>3. K = L \cup (IF m.t = "Leave" THEN {n + 1} ELSE {})
  BY <1>1
<1>4. \A j \in L : g[j] = h[j]
  BY <1>1
<1> HIDE DEF L, K
<1>5. LeftAfter(g, k) = LeftAfter(h, k) \cup (IF m.t = "Leave" THEN {m.by} ELSE {})
  BY <1>1, <1>2, <1>3, <1>4
<1> QED BY <1>5 DEF g

\* A message more, as who reads it understands it: it replaces a list, it
\* takes somebody who left off the lists, or it changes none of them.
LEMMA ListedAppend ==
  ASSUME NEW h \in Seq(Msg), NEW m \in Msg, NEW t, t # "Leave"
  PROVE  ListedBy(Append(h, m), t) =
           IF m.t = t THEN m.ids
           ELSE IF m.t = "Leave" THEN ListedBy(h, t) \ {m.by}
           ELSE ListedBy(h, t)
<1> DEFINE g == Append(h, m)
           n == Len(h)
           at == {i \in 1..Len(h) : h[i].t = t}
           bt == {i \in 1..Len(g) : g[i].t = t}
           Last(a) == CHOOSE k \in a : \A j \in a : j <= k
<1>1. n \in Nat /\ Len(g) = n + 1 /\ g[n + 1] = m /\ \A i \in 1..n : g[i] = h[i]
  BY AppendProperties
<1>2. ListedBy(h, t) = IF at = {} THEN {} ELSE h[Last(at)].ids \ LeftAfter(h, Last(at))
  BY DEF ListedBy
<1>3. ListedBy(g, t) = IF bt = {} THEN {} ELSE g[Last(bt)].ids \ LeftAfter(g, Last(bt))
  BY DEF ListedBy
<1>4. CASE m.t = t
  <2>1. n + 1 \in bt /\ \A j \in bt : j <= n + 1
    BY <1>1, <1>4
  <2>2. Last(bt) \in bt /\ \A j \in bt : j <= Last(bt)
    BY <2>1
  <2>3. Last(bt) = n + 1
    <3>1. Last(bt) \in 1..(n + 1)
      BY <1>1, <2>2
    <3> QED BY <1>1, <2>1, <2>2, <3>1
  <2>4. LeftAfter(g, n + 1) = {}
    <3>1. ((n + 1) + 1)..Len(g) = {}
      BY <1>1
    <3> QED BY <3>1 DEF LeftAfter
  <2>5. bt # {}
    BY <2>1
  <2> QED BY <1>1, <1>3, <1>4, <2>3, <2>4, <2>5
<1>5. CASE m.t # t
  <2>1. bt = at
    BY <1>1, <1>5
  <2>2. CASE at = {}
    BY <1>2, <1>3, <1>5, <2>1, <2>2
  <2>3. CASE at # {}
    <3> DEFINE k == Last(at)
    <3>1. \E x \in at : \A j \in at : j <= x
      BY <1>1, <2>3, LastExists
    <3>2. k \in 1..n
      BY <3>1
    <3> HIDE DEF k
    <3>3. LeftAfter(g, k) = LeftAfter(h, k) \cup (IF m.t = "Leave" THEN {m.by} ELSE {})
      BY <3>2, LeftAppend
    <3>4. g[k].ids = h[k].ids
      BY <1>1, <3>2
    <3>5. /\ ListedBy(h, t) = h[k].ids \ LeftAfter(h, k)
          /\ ListedBy(g, t) = g[k].ids \ LeftAfter(g, k)
      BY <1>2, <1>3, <2>1, <2>3 DEF k
    <3>6. ListedBy(g, t) = IF m.t = "Leave" THEN ListedBy(h, t) \ {m.by}
                           ELSE ListedBy(h, t)
      <4> HIDE DEF g
      <4> QED BY <3>3, <3>4, <3>5
    <3> QED BY <1>5, <3>6
  <2> QED BY <2>2, <2>3
<1> QED BY <1>4, <1>5

\* ... who joins is a user until it leaves,
LEMMA JoinedAppend ==
  ASSUME NEW h \in Seq(Msg), NEW m \in Msg
  PROVE  JoinedBy(Append(h, m)) =
           IF m.t = "Join" THEN JoinedBy(h) \cup {m.by}
           ELSE IF m.t = "Leave" THEN JoinedBy(h) \ {m.by}
           ELSE JoinedBy(h)
<1> DEFINE g == Append(h, m)
           n == Len(h)
           in == {k \in 1..Len(h) : h[k].t = "Join" /\ h[k].by \notin LeftAfter(h, k)}
           jn == {k \in 1..Len(g) : g[k].t = "Join" /\ g[k].by \notin LeftAfter(g, k)}
           gone == IF m.t = "Leave" THEN {m.by} ELSE {}
<1>1. n \in Nat /\ Len(g) = n + 1 /\ g[n + 1] = m /\ \A i \in 1..n : g[i] = h[i]
  BY AppendProperties
<1>2. /\ JoinedBy(h) = {h[i].by : i \in in}
      /\ JoinedBy(g) = {g[i].by : i \in jn}
  BY DEF JoinedBy
<1>3. ASSUME NEW k \in 1..n PROVE LeftAfter(g, k) = LeftAfter(h, k) \cup gone
  BY LeftAppend
<1>4. LeftAfter(g, n + 1) = {}
  <2>1. ((n + 1) + 1)..Len(g) = {}
    BY <1>1
  <2> QED BY <2>1 DEF LeftAfter
<1> DEFINE new == IF m.t = "Join" THEN {n + 1} ELSE {}
<1>5. jn = {k \in in : h[k].by \notin gone} \cup new
  <2>1. \A k \in 1..n : k \in jn <=> k \in in /\ h[k].by \notin gone
    BY <1>1, <1>3
  <2>2. n + 1 \in jn <=> m.t = "Join"
    BY <1>1, <1>4
  <2>3. jn \subseteq 1..(n + 1) /\ in \subseteq 1..n
    BY <1>1
  <2>4. \A k \in 1..(n + 1) : k \in 1..n \/ k = n + 1
    BY <1>1
  <2>5. n + 1 \notin 1..n
    BY <1>1
  <2> HIDE DEF jn, in, gone
  <2> QED BY <2>1, <2>2, <2>3, <2>4, <2>5
<1>6. \A k \in in : g[k].by = h[k].by
  BY <1>1
<1>7. JoinedBy(g) = {h[k].by : k \in {i \in in : h[i].by \notin gone}}
                      \cup (IF m.t = "Join" THEN {m.by} ELSE {})
  <2> HIDE DEF g, jn, in, gone
  <2> QED BY <1>1, <1>2, <1>5, <1>6
<1>8. {h[k].by : k \in {i \in in : h[i].by \notin gone}} = JoinedBy(h) \ gone
  <2> HIDE DEF in, gone
  <2> QED BY <1>2
<1> QED BY <1>7, <1>8

\* ... and the settings are those of the last message that carries any.
LEMMA ConfAppend ==
  ASSUME NEW h \in Seq(Msg), NEW m \in Msg
  PROVE  ConfOf(Append(h, m)) = IF m.t = "Conf" THEN m.conf ELSE ConfOf(h)
<1> DEFINE g == Append(h, m)
           n == Len(h)
           at == {i \in 1..Len(h) : h[i].t = "Conf"}
           bt == {i \in 1..Len(g) : g[i].t = "Conf"}
           Last(a) == CHOOSE k \in a : \A j \in a : j <= k
<1>1. n \in Nat /\ Len(g) = n + 1 /\ g[n + 1] = m /\ \A i \in 1..n : g[i] = h[i]
  BY AppendProperties
<1>2. /\ ConfOf(h) = IF at = {} THEN DefaultConf ELSE h[Last(at)].conf
      /\ ConfOf(g) = IF bt = {} THEN DefaultConf ELSE g[Last(bt)].conf
  BY DEF ConfOf
<1>3. CASE m.t = "Conf"
  <2>1. n + 1 \in bt /\ \A j \in bt : j <= n + 1
    BY <1>1, <1>3
  <2>2. Last(bt) \in bt /\ \A j \in bt : j <= Last(bt)
    BY <2>1
  <2>3. Last(bt) = n + 1
    <3>1. Last(bt) \in 1..(n + 1)
      BY <1>1, <2>2
    <3> QED BY <1>1, <2>1, <2>2, <3>1
  <2>4. bt # {}
    BY <2>1
  <2> QED BY <1>1, <1>2, <1>3, <2>3, <2>4
<1>4. CASE m.t # "Conf"
  <2>1. bt = at
    BY <1>1, <1>4
  <2>2. CASE at = {}
    BY <1>2, <1>4, <2>1, <2>2
  <2>3. CASE at # {}
    <3> DEFINE k == Last(at)
    <3>1. \E x \in at : \A j \in at : j <= x
      BY <1>1, <2>3, LastExists
    <3>2. k \in 1..n
      BY <3>1
    <3>3. ConfOf(h) = h[k].conf /\ ConfOf(g) = g[k].conf
      BY <1>2, <2>1, <2>3
    <3> HIDE DEF k
    <3> QED BY <1>1, <1>4, <3>2, <3>3
  <2> QED BY <2>2, <2>3
<1> QED BY <1>3, <1>4

\* All that a reader learns from a message
LEMMA ReadAppend ==
  ASSUME NEW h \in Seq(Msg), NEW m \in Msg, NEW g, g = Append(h, m)
  PROVE  /\ g \in Seq(Msg)
         /\ ListedBy(g, "Owner") =
              IF m.t = "Owner" THEN m.ids
              ELSE IF m.t = "Leave" THEN ListedBy(h, "Owner") \ {m.by}
              ELSE ListedBy(h, "Owner")
         /\ ListedBy(g, "Trusted") =
              IF m.t = "Trusted" THEN m.ids
              ELSE IF m.t = "Leave" THEN ListedBy(h, "Trusted") \ {m.by}
              ELSE ListedBy(h, "Trusted")
         /\ JoinedBy(g) =
              IF m.t = "Join" THEN JoinedBy(h) \cup {m.by}
              ELSE IF m.t = "Leave" THEN JoinedBy(h) \ {m.by}
              ELSE JoinedBy(h)
         /\ ConfOf(g) = IF m.t = "Conf" THEN m.conf ELSE ConfOf(h)
<1>1. g \in Seq(Msg)
  BY AppendProperties
<1>2. "Owner" # "Leave" /\ "Trusted" # "Leave"
  OBVIOUS
<1>3. \A t : t # "Leave" =>
        ListedBy(g, t) = IF m.t = t THEN m.ids
                         ELSE IF m.t = "Leave" THEN ListedBy(h, t) \ {m.by}
                         ELSE ListedBy(h, t)
  BY ListedAppend
<1>4. JoinedBy(g) =
        IF m.t = "Join" THEN JoinedBy(h) \cup {m.by}
        ELSE IF m.t = "Leave" THEN JoinedBy(h) \ {m.by}
        ELSE JoinedBy(h)
  BY JoinedAppend
<1>5. ConfOf(g) = IF m.t = "Conf" THEN m.conf ELSE ConfOf(h)
  BY ConfAppend
<1>6. ListedBy(g, "Owner") =
        IF m.t = "Owner" THEN m.ids
        ELSE IF m.t = "Leave" THEN ListedBy(h, "Owner") \ {m.by}
        ELSE ListedBy(h, "Owner")
  BY <1>2, <1>3
<1>7. ListedBy(g, "Trusted") =
        IF m.t = "Trusted" THEN m.ids
        ELSE IF m.t = "Leave" THEN ListedBy(h, "Trusted") \ {m.by}
        ELSE ListedBy(h, "Trusted")
  BY <1>2, <1>3
<1> QED BY <1>1, <1>4, <1>5, <1>6, <1>7

\* Messages that are no list and no leave tell nothing of a list.
LEMMA ListedQuiet ==
  ASSUME NEW h \in Seq(Msg), NEW r \in Seq(Msg), NEW t,
         \A i \in 1..Len(r) : r[i].t # t /\ r[i].t # "Leave"
  PROVE  ListedBy(h \o r, t) = ListedBy(h, t)
<1> DEFINE g == h \o r
           n == Len(h)
           at == {i \in 1..Len(h) : h[i].t = t}
           bt == {i \in 1..Len(g) : g[i].t = t}
           Last(a) == CHOOSE k \in a : \A j \in a : j <= k
<1>1. /\ n \in Nat /\ Len(r) \in Nat /\ Len(g) = n + Len(r)
      /\ \A i \in 1..Len(g) : g[i] = IF i <= n THEN h[i] ELSE r[i - n]
  BY ConcatProperties
<1>2. /\ ListedBy(h, t) = IF at = {} THEN {} ELSE h[Last(at)].ids \ LeftAfter(h, Last(at))
      /\ ListedBy(g, t) = IF bt = {} THEN {} ELSE g[Last(bt)].ids \ LeftAfter(g, Last(bt))
  BY DEF ListedBy
<1> HIDE DEF g
<1>3. \A i \in 1..Len(g) : i > n => i - n \in 1..Len(r)
  BY <1>1
<1>4. \A i \in 1..Len(g) : i > n => g[i].t # t /\ g[i].t # "Leave"
  BY <1>1, <1>3
<1>5. bt = at
  BY <1>1, <1>4
<1>6. CASE at # {}
  <2> DEFINE k == Last(at)
  <2>1. \E x \in at : \A j \in at : j <= x
    BY <1>1, <1>6, LastExists
  <2>2. k \in 1..n
    BY <2>1
  <2>3. /\ ListedBy(h, t) = h[k].ids \ LeftAfter(h, k)
        /\ ListedBy(g, t) = g[k].ids \ LeftAfter(g, k)
    BY <1>2, <1>5, <1>6
  <2> HIDE DEF k
  <2> DEFINE L == {j \in (k + 1)..Len(h) : h[j].t = "Leave"}
             K == {j \in (k + 1)..Len(g) : g[j].t = "Leave"}
  <2>4. LeftAfter(h, k) = {h[j].by : j \in L} /\ LeftAfter(g, k) = {g[j].by : j \in K}
    BY DEF LeftAfter
  <2>5. K = L /\ \A j \in L : g[j] = h[j]
    BY <1>1, <1>4, <2>2
  <2> HIDE DEF L, K
  <2>6. LeftAfter(g, k) = LeftAfter(h, k) /\ g[k] = h[k]
    BY <1>1, <2>2, <2>4, <2>5
  <2>7. ListedBy(g, t) = ListedBy(h, t)
    BY <2>3, <2>6
  <2> QED BY <2>7 DEF g
<1>7. CASE at = {}
  BY <1>2, <1>5, <1>7 DEF g
<1> QED BY <1>6, <1>7

\* Messages that are no join and no leave tell nothing of the users.
LEMMA JoinedQuiet ==
  ASSUME NEW h \in Seq(Msg), NEW r \in Seq(Msg),
         \A i \in 1..Len(r) : r[i].t # "Join" /\ r[i].t # "Leave"
  PROVE  JoinedBy(h \o r) = JoinedBy(h)
<1> DEFINE g == h \o r
           n == Len(h)
           in == {k \in 1..Len(h) : h[k].t = "Join" /\ h[k].by \notin LeftAfter(h, k)}
           jn == {k \in 1..Len(g) : g[k].t = "Join" /\ g[k].by \notin LeftAfter(g, k)}
<1>1. /\ n \in Nat /\ Len(r) \in Nat /\ Len(g) = n + Len(r)
      /\ \A i \in 1..Len(g) : g[i] = IF i <= n THEN h[i] ELSE r[i - n]
  BY ConcatProperties
<1>2. /\ JoinedBy(h) = {h[i].by : i \in in}
      /\ JoinedBy(g) = {g[i].by : i \in jn}
  BY DEF JoinedBy
<1> HIDE DEF g
<1>3. \A i \in 1..Len(g) : i > n => i - n \in 1..Len(r)
  BY <1>1
<1>4. \A i \in 1..Len(g) : i > n => g[i].t # "Join" /\ g[i].t # "Leave"
  BY <1>1, <1>3
<1>5. ASSUME NEW k \in 1..n PROVE LeftAfter(g, k) = LeftAfter(h, k) /\ g[k] = h[k]
  <2> DEFINE L == {j \in (k + 1)..Len(h) : h[j].t = "Leave"}
             K == {j \in (k + 1)..Len(g) : g[j].t = "Leave"}
  <2>1. LeftAfter(h, k) = {h[j].by : j \in L} /\ LeftAfter(g, k) = {g[j].by : j \in K}
    BY DEF LeftAfter
  <2>2. K = L /\ \A j \in L : g[j] = h[j]
    BY <1>1, <1>4
  <2> HIDE DEF L, K
  <2> QED BY <1>1, <2>1, <2>2
<1>6. jn = in
  <2>1. \A k \in 1..n : k \in jn <=> k \in in
    BY <1>1, <1>5
  <2>2. jn \subseteq 1..n /\ in \subseteq 1..n
    BY <1>1, <1>4
  <2> HIDE DEF jn, in
  <2> QED BY <2>1, <2>2
<1>7. \A k \in in : g[k] = h[k]
  BY <1>5
<1> HIDE DEF in, jn
<1>8. JoinedBy(g) = JoinedBy(h)
  BY <1>2, <1>6, <1>7
<1> QED BY <1>8 DEF g

\* What a reader knows of a history that is only joins
LEMMA OnlyJoins ==
  ASSUME NEW h \in Seq(Msg), \A i \in 1..Len(h) : h[i].t = "Join"
  PROVE  /\ JoinedBy(h) = {h[i].by : i \in 1..Len(h)}
         /\ \A t : t # "Join" => ListedBy(h, t) = {}
<1>1. ASSUME NEW k \in 1..Len(h) PROVE LeftAfter(h, k) = {}
  <2>1. {j \in (k + 1)..Len(h) : h[j].t = "Leave"} = {}
    <3>1. Len(h) \in Nat
      OBVIOUS
    <3>2. ASSUME NEW j \in (k + 1)..Len(h) PROVE h[j].t # "Leave"
      <4>1. j \in 1..Len(h)
        BY <3>1
      <4> QED BY <4>1
    <3> QED BY <3>2
  <2> QED BY <2>1 DEF LeftAfter
<1>2. {k \in 1..Len(h) : h[k].t = "Join" /\ h[k].by \notin LeftAfter(h, k)} = 1..Len(h)
  BY <1>1
<1>3. JoinedBy(h) = {h[i].by : i \in 1..Len(h)}
  BY <1>2 DEF JoinedBy
<1>4. ASSUME NEW t, t # "Join" PROVE ListedBy(h, t) = {}
  <2>1. {i \in 1..Len(h) : h[i].t = t} = {}
    BY <1>4
  <2> QED BY <2>1 DEF ListedBy
<1> QED BY <1>3, <1>4

\* serverSideStateMessages tell who is there and what rights they have, and
\* an uploaded image adds nothing to it but the lists it contains itself.
LEMMA ImageTells ==
  ASSUME NEW z \in SessionType, NEW r \in Seq(Msg),
         \A i \in 1..Len(r) : r[i].t \in StreamKinds,
         NEW image, image = ServerSideStateMessages(z) \o r
  PROVE  /\ image \in Seq(Msg)
         /\ "Owner" \notin StreamKinds => ListedBy(image, "Owner") = Ops(z)
         /\ "Trusted" \notin StreamKinds =>
              ListedBy(image, "Trusted") = Trusteds(z)
         /\ JoinedBy(image) = Members(z)
<1> DEFINE joins == [i \in 1..Len(z.clients) |-> M("Join", z.clients[i], {}, NoConf)]
           o == M("Owner", NoUser, Ops(z), NoConf)
           q == M("Trusted", NoUser, Trusteds(z), NoConf)
           lists == Append(joins, o)
           tail == IF Trusteds(z) = {} THEN <<>> ELSE <<q>>
           head == lists \o tail
<1>1. z.clients \in Seq(User) /\ Len(z.clients) \in Nat
  BY LogTypes
<1>2. joins \in Seq(Msg)
  <2>1. ASSUME NEW i \in 1..Len(z.clients)
        PROVE  M("Join", z.clients[i], {}, NoConf) \in Msg
    <3>1. z.clients[i] \in User
      BY <1>1
    <3> QED BY <3>1, MType, NoConfType DEF MsgTypes
  <2> QED BY <1>1, <2>1
<1>3. /\ Len(joins) = Len(z.clients)
      /\ \A i \in 1..Len(joins) : joins[i].t = "Join" /\ joins[i].by = z.clients[i]
  BY <1>1 DEF M
<1>4. /\ o \in Msg /\ o.t = "Owner" /\ o.ids = Ops(z)
      /\ q \in Msg /\ q.t = "Trusted" /\ q.ids = Trusteds(z)
  <2>1. o \in Msg /\ q \in Msg
    BY OpsType, MType, NoConfType DEF MsgTypes, Stored
  <2> QED BY <2>1 DEF M
<1>5. tail \in Seq(Msg) /\ lists \in Seq(Msg) /\ lists = joins \o <<o>>
  <2>1. tail \in Seq(Msg)
    BY <1>4
  <2> HIDE DEF joins, o
  <2>2. lists \in Seq(Msg) /\ lists = joins \o <<o>>
    BY <1>2, <1>4, AppendProperties, AppendIsConcat
  <2> QED BY <2>1, <2>2
<1>6. ServerSideStateMessages(z) = head
  BY <1>5 DEF ServerSideStateMessages
<1>7. JoinedBy(joins) = Members(z) /\ \A t : t # "Join" => ListedBy(joins, t) = {}
  <2> HIDE DEF joins
  <2>1. JoinedBy(joins) = {joins[i].by : i \in 1..Len(joins)}
    BY <1>2, <1>3, OnlyJoins
  <2>2. {joins[i].by : i \in 1..Len(joins)} = Members(z)
    BY <1>3 DEF Members
  <2> QED BY <1>2, <1>3, <2>1, <2>2, OnlyJoins
<1> HIDE DEF joins, o, q
<1>8. /\ ListedBy(lists, "Owner") = Ops(z) /\ ListedBy(lists, "Trusted") = {}
      /\ JoinedBy(lists) = Members(z)
  <2>1. ListedBy(joins, "Trusted") = {} /\ "Owner" # "Trusted" /\ "Owner" # "Leave"
        /\ "Owner" # "Join"
    BY <1>7
  <2>2. lists = Append(joins, o)
    OBVIOUS
  <2> HIDE DEF lists
  <2> QED BY <1>2, <1>4, <1>7, <2>1, <2>2, ReadAppend
<1>9. /\ head \in Seq(Msg)
      /\ ListedBy(head, "Owner") = Ops(z)
      /\ ListedBy(head, "Trusted") = Trusteds(z)
      /\ JoinedBy(head) = Members(z)
  <2> HIDE DEF lists
  <2>1. CASE Trusteds(z) = {}
    <3>1. head = lists
      BY <1>5, <2>1, ConcatEmptySeq
    <3> QED BY <1>5, <1>8, <2>1, <3>1
  <2>2. CASE Trusteds(z) # {}
    <3>1. head = Append(lists, q)
      BY <1>4, <1>5, <2>2, AppendIsConcat
    <3>2. head \in Seq(Msg)
      BY <1>4, <1>5, <3>1, AppendProperties
    <3> HIDE DEF head
    <3>3. /\ ListedBy(head, "Owner") = Ops(z)
          /\ ListedBy(head, "Trusted") = Trusteds(z)
          /\ JoinedBy(head) = Members(z)
      BY <1>4, <1>5, <1>8, <3>1, ReadAppend, ZenonT(60)
    <3> QED BY <3>2, <3>3
  <2> QED BY <2>1, <2>2
<1>10. image = head \o r
  BY <1>6
<1> HIDE DEF head, lists, tail
<1>11. image \in Seq(Msg)
  BY <1>9, <1>10, ConcatProperties
<1>12. \A i \in 1..Len(r) : r[i].t # "Join" /\ r[i].t # "Leave"
  BY InputAssumption DEF Stored
<1>13. JoinedBy(image) = Members(z)
  BY <1>9, <1>10, <1>12, JoinedQuiet
<1>14. ASSUME NEW t \in {"Owner", "Trusted"}, t \notin StreamKinds
       PROVE  ListedBy(image, t) = ListedBy(head, t)
  <2>1. \A i \in 1..Len(r) : r[i].t # t /\ r[i].t # "Leave"
    BY <1>12, <1>14
  <2> QED BY <1>9, <1>10, <2>1, ListedQuiet
<1> QED BY <1>9, <1>11, <1>13, <1>14

-----------------------------------------------------------------------------
(* The invariant.                                                          *)

\* Two things make the lists of a session's history wrong for a while, and
\* only these (see the findings): an administrator who demotes the user that
\* uploads a reset, and lists that such a user uploads.
ListsOps == "deop" \notin AdminKinds /\ "Owner" \notin StreamKinds
ListsTrusted == "Trusted" \notin StreamKinds

\* Messages still find their way into the history.
Live(z) == z.state # "Shutdown" /\ ~IsOutOfSpace(z)

\* What the history tells of the operators, and of the rest
OpsTold(z, ops) ==
  Live(z) /\ ListsOps => ListedBy(z.hist, "Owner") = ops
UsersTold(z, trusted, members, conf) ==
  Live(z) => /\ ListsTrusted => ListedBy(z.hist, "Trusted") = trusted
             /\ JoinedBy(z.hist) = members /\ ConfOf(z.hist) = conf

AgreeOps(z) == OpsTold(z, Ops(z))
AgreeUsers(z) == UsersTold(z, Trusteds(z), Members(z), z.conf)

\* Only members have rights; an uploaded reset is made of the messages that
\* its uploader may send, and a hold queue of its own client's.
Clean(z) ==
  /\ z.op \subseteq Members(z) /\ z.trusted \subseteq Members(z)
  /\ \A i \in 1..Len(z.resetstream) : z.resetstream[i].t \in StreamKinds
  /\ \A u \in User : \A i \in 1..Len(z.held[u]) : z.held[u][i].by = u

\* OperatorExists, of any session z
HasOp(z) ==
  "opword" \in z.conf.flags \/ z.authOps # {} \/ z.clients = <<>> \/ Ops(z) # {}

\* The administrator neither demotes operators nor changes settings.
HandsOff == "deop" \notin AdminKinds /\ "conf" \notin AdminKinds

UInv(z) == AgreeUsers(z) /\ Clean(z)
RInv(z) == UInv(z) /\ AgreeOps(z) /\ (HandsOff => HasOp(z))

-----------------------------------------------------------------------------
(* Steps that change no rights.                                            *)

SameRights(z, y) ==
  /\ y.clients = z.clients /\ y.op = z.op /\ y.trusted = z.trusted
  /\ y.authOps = z.authOps /\ y.conf = z.conf
  /\ y.resetstream = z.resetstream /\ y.held = z.held

SameTold(z, y) == SameRights(z, y) /\ y.state = z.state /\ y.hist = z.hist

\* Who has the same flags has the same rights.
LEMMA SameRightsReads ==
  ASSUME NEW z, NEW y, SameRights(z, y)
  PROVE  /\ Members(y) = Members(z) /\ Ops(y) = Ops(z)
         /\ Trusteds(y) = Trusteds(z) /\ y.conf = z.conf
         /\ Clean(y) <=> Clean(z)
         /\ HasOp(y) <=> HasOp(z)
         /\ \A u : IsOperator(y, u) <=> IsOperator(z, u)
<1>1. Members(y) = Members(z)
  BY DEF SameRights, Members
<1>2. \A u : IsOperator(y, u) <=> IsOperator(z, u)
  BY DEF SameRights, IsOperator
<1>3. Ops(y) = Ops(z) /\ Trusteds(y) = Trusteds(z)
  BY <1>1, <1>2 DEF SameRights, Ops, Trusteds
<1> QED BY <1>1, <1>2, <1>3 DEF SameRights, Clean, HasOp

\* Nothing that the invariant reads has changed.
LEMMA SameToldKeeps ==
  ASSUME NEW z, NEW y, SameTold(z, y)
  PROVE  /\ Live(y) <=> Live(z)
         /\ UInv(y) <=> UInv(z)
         /\ AgreeOps(y) <=> AgreeOps(z)
         /\ RInv(y) <=> RInv(z)
<1>1. /\ Members(y) = Members(z) /\ Ops(y) = Ops(z)
      /\ Trusteds(y) = Trusteds(z) /\ y.conf = z.conf
      /\ Clean(y) <=> Clean(z)
      /\ HasOp(y) <=> HasOp(z)
  BY SameRightsReads DEF SameTold
<1>2. Live(y) <=> Live(z)
  BY DEF SameTold, Live, IsOutOfSpace
<1>3. AgreeUsers(y) <=> AgreeUsers(z)
  BY <1>1, <1>2 DEF SameTold, AgreeUsers, UsersTold
<1>4. AgreeOps(y) <=> AgreeOps(z)
  BY <1>1, <1>2 DEF SameTold, AgreeOps, OpsTold
<1> QED BY <1>1, <1>2, <1>3, <1>4 DEF UInv, RInv

\* Having the same rights is transitive.
LEMMA SameRightsTrans ==
  ASSUME NEW x, NEW y, NEW z, SameRights(x, y), SameRights(y, z)
  PROVE  SameRights(x, z)
BY DEF SameRights

\* A message outside the history changes no rights.
LEMMA DirectToTold ==
  ASSUME NEW z \in SessionType, NEW U
  PROVE  SameTold(z, DirectTo(z, U))
BY DEF DirectTo, SameTold, SameRights, SessionType

\* ... nor does one to everybody.
LEMMA DirectToAllTold ==
  ASSUME NEW z \in SessionType
  PROVE  SameTold(z, DirectToAll(z))
BY DirectToTold DEF DirectToAll

\* Sending the history changes no rights.
LEMMA SendNextTold ==
  ASSUME NEW z \in SessionType, NEW U
  PROVE  SameTold(z, SendNextHistoryBatch(z, U))
BY DEF SendNextHistoryBatch, SameTold, SameRights, SessionType

\* addToHistory changes no rights, and unless the history is out of space it
\* adds its message at the end.
LEMMA AddToHistoryIs ==
  ASSUME NEW z \in SessionType, NEW m \in Msg, NEW y, y = AddToHistory(z, m)
  PROVE  /\ y \in SessionType /\ SameRights(z, y) /\ SameControl(z, y)
         /\ Live(y) => Live(z) /\ y.hist = Append(z.hist, m)
<1>1. y \in SessionType /\ SameControl(z, y)
  BY AddToHistoryType, AddToHistorySame
<1>2. CASE z.state = "Shutdown"
  <2>1. y = z
    BY <1>2 DEF AddToHistory
  <2> QED BY <1>1, <1>2, <2>1 DEF SameRights, Live
<1>3. CASE z.state # "Shutdown" /\ IsOutOfSpace(z)
  <2>1. y = DirectToAll(z)
    BY <1>3 DEF AddToHistory
  <2>2. SameTold(z, y)
    BY <2>1, DirectToAllTold
  <2> QED BY <1>1, <1>3, <2>2 DEF SameTold, Live, IsOutOfSpace
<1>4. CASE z.state # "Shutdown" /\ ~IsOutOfSpace(z)
  <2> DEFINE x == [z EXCEPT !.hist = Append(@, m)]
             w == SendNextHistoryBatch(x, Members(z))
             v == AdvanceHost(w, m)
             q == [v EXCEPT !.autoreset = "Queried"]
  <2>1. y = QueryAutoReset(v)
    BY <1>4 DEF AddToHistory, AddMessage
  <2>2. x \in SessionType /\ x.hist = Append(z.hist, m) /\ SameRights(z, x)
    <3>1. Append(z.hist, m) \in Seq(Msg)
      BY LogTypes, AppendProperties
    <3> QED BY <3>1 DEF SessionType, SameRights
  <2> HIDE DEF x
  <2>3. w \in SessionType /\ SameTold(x, w)
    BY <2>2, SendNextHistoryBatchType, SendNextTold
  <2> HIDE DEF w
  <2>4. v \in SessionType /\ SameTold(w, v)
    <3>1. v \in SessionType
      BY <2>3, AdvanceHostType
    <3>2. CASE w.state # "Initialization"
      BY <3>1, <3>2 DEF AdvanceHost, SameTold, SameRights
    <3>3. CASE w.state = "Initialization" /\ w.initUser \notin Members(w)
      <4>1. v = [w EXCEPT !.noOrigin = TRUE]
        BY <3>3 DEF AdvanceHost
      <4> QED BY <2>3, <3>1, <4>1 DEF SessionType, SameTold, SameRights
    <3>4. CASE w.state = "Initialization" /\ w.initUser \in Members(w)
      <4> DEFINE P == [w.pos EXCEPT ![w.initUser] = LastIndex(w)]
                 S == [w.seen EXCEPT ![w.initUser] =
                         IF m.t # "Draw" \/ m.by = w.initUser
                         THEN Append(@, m) ELSE @]
                 U == w.uploading \cup (IF m.t # "Draw" THEN {w.initUser} ELSE {})
      <4>1. v = [w EXCEPT !.pos = P, !.seen = S, !.uploading = U]
        BY <2>3, <3>4 DEF AdvanceHost, SessionType
      <4> HIDE DEF P, S, U
      <4> QED BY <2>3, <3>1, <4>1 DEF SessionType, SameTold, SameRights
    <3> QED BY <3>2, <3>3, <3>4
  <2> HIDE DEF v
  <2>5. q \in SessionType /\ SameTold(v, q)
    BY <2>4 DEF SessionType, SameTold, SameRights
  <2> HIDE DEF q
  <2>6. SameTold(q, DirectToAll(q))
    BY <2>5, DirectToAllTold
  <2>7. y = v \/ y = DirectToAll(q)
    BY <2>1 DEF QueryAutoReset, q
  <2>8. SameRights(z, y) /\ y.hist = Append(z.hist, m)
    BY <2>2, <2>3, <2>4, <2>5, <2>6, <2>7 DEF SameTold, SameRights
  <2> QED BY <1>1, <1>4, <2>8 DEF Live
<1> QED BY <1>2, <1>3, <1>4

\* What addToHistory tells: a list replaces the one before, and who leaves is
\* on no list.
LEMMA AddTells ==
  ASSUME NEW z \in SessionType, NEW m \in Msg, NEW y, y = AddToHistory(z, m)
  PROVE  /\ m.t = "Owner" => OpsTold(y, m.ids)
         /\ \A O : OpsTold(z, O) =>
              /\ m.t = "Leave" => OpsTold(y, O \ {m.by})
              /\ m.t \notin {"Owner", "Leave"} => OpsTold(y, O)
         /\ \A T, J, C : UsersTold(z, T, J, C) =>
              /\ m.t = "Trusted" => UsersTold(y, m.ids, J, C)
              /\ m.t = "Join" => UsersTold(y, T, J \cup {m.by}, C)
              /\ m.t = "Leave" => UsersTold(y, T \ {m.by}, J \ {m.by}, C)
              /\ m.t = "Conf" => UsersTold(y, T, J, m.conf)
              /\ m.t \in {"Owner", "Draw", "Chat"} => UsersTold(y, T, J, C)
<1>1. Live(y) => Live(z) /\ y.hist = Append(z.hist, m)
  BY AddToHistoryIs
<1>2. z.hist \in Seq(Msg)
  BY LogTypes
<1>3. CASE Live(y)
  <2>1. Live(z) /\ y.hist = Append(z.hist, m)
    BY <1>1, <1>3
  <2> DEFINE g == y.hist
             h == z.hist
  <2> HIDE DEF g, h
  <2>2. /\ ListedBy(g, "Owner") =
             IF m.t = "Owner" THEN m.ids
             ELSE IF m.t = "Leave" THEN ListedBy(h, "Owner") \ {m.by}
             ELSE ListedBy(h, "Owner")
        /\ ListedBy(g, "Trusted") =
             IF m.t = "Trusted" THEN m.ids
             ELSE IF m.t = "Leave" THEN ListedBy(h, "Trusted") \ {m.by}
             ELSE ListedBy(h, "Trusted")
        /\ JoinedBy(g) =
             IF m.t = "Join" THEN JoinedBy(h) \cup {m.by}
             ELSE IF m.t = "Leave" THEN JoinedBy(h) \ {m.by}
             ELSE JoinedBy(h)
        /\ ConfOf(g) = IF m.t = "Conf" THEN m.conf ELSE ConfOf(h)
    BY <1>2, <2>1, ReadAppend, ZenonT(60) DEF g, h
  <2>3. ASSUME NEW O, OpsTold(z, O)
        PROVE  /\ m.t = "Leave" => OpsTold(y, O \ {m.by})
               /\ m.t \notin {"Owner", "Leave"} => OpsTold(y, O)
    <3>1. ListsOps => ListedBy(h, "Owner") = O
      BY <2>1, <2>3 DEF OpsTold, h
    <3> QED BY <2>2, <3>1 DEF OpsTold, g
  <2>4. ASSUME NEW T, NEW J, NEW C, UsersTold(z, T, J, C)
        PROVE  /\ m.t = "Trusted" => UsersTold(y, m.ids, J, C)
               /\ m.t = "Join" => UsersTold(y, T, J \cup {m.by}, C)
               /\ m.t = "Leave" => UsersTold(y, T \ {m.by}, J \ {m.by}, C)
               /\ m.t = "Conf" => UsersTold(y, T, J, m.conf)
               /\ m.t \in {"Owner", "Draw", "Chat"} => UsersTold(y, T, J, C)
    <3>1. /\ ListsTrusted => ListedBy(h, "Trusted") = T
          /\ JoinedBy(h) = J /\ ConfOf(h) = C
      BY <2>1, <2>4 DEF UsersTold, h
    <3> QED BY <2>2, <3>1 DEF UsersTold, g
  <2>5. m.t = "Owner" => OpsTold(y, m.ids)
    BY <2>2 DEF OpsTold, g
  <2> QED BY <2>3, <2>4, <2>5
<1>4. CASE ~Live(y)
  BY <1>4 DEF OpsTold, UsersTold
<1> QED BY <1>3, <1>4

-----------------------------------------------------------------------------
(* Rights are given and taken.                                             *)

\* updateOwnership's loop: afterwards the operators are the members on the
\* list, and the moderators.
LEMMA SetOperatorsIs ==
  ASSUME NEW z \in SessionType, NEW ids \in SUBSET User,
         NEW y, y = SetOperators(z, ids)
  PROVE  /\ y \in SessionType
         /\ y.state = z.state /\ y.hist = z.hist /\ y.clients = z.clients
         /\ y.initUser = z.initUser /\ y.releasing = z.releasing
         /\ y.locked = z.locked
         /\ y.trusted = z.trusted /\ y.conf = z.conf
         /\ y.resetstream = z.resetstream /\ y.held = z.held
         /\ Members(y) = Members(z)
         /\ Ops(y) = Members(z) \cap (ids \cup Mods)
         /\ UInv(z) => UInv(y)
<1> DEFINE changed == {u \in Members(z) \ Mods : (u \in ids) # (u \in z.op)}
           O == (z.op \ changed) \cup (changed \cap ids)
           A == (z.authOps \ (changed \cap Auth))
                  \cup (changed \cap ids \cap Auth)
           x == [z EXCEPT !.op = O, !.authOps = A]
<1>1. O \in SUBSET User /\ A \in SUBSET User
  BY MembersType DEF SessionType
<1>2. y = IF changed = {} THEN z ELSE DirectToAll(x)
  BY DEF SetOperators, SessionType
<1>3. y \in SessionType
  BY SetOperatorsType
<1>4. changed = {} => O = z.op
  OBVIOUS
<1>5. \A u \in Members(z) \ Mods : u \in O <=> u \in ids
  OBVIOUS
<1>6. z.op \subseteq Members(z) => O \subseteq Members(z)
  OBVIOUS
<1> HIDE DEF changed, O, A
<1>7. /\ x \in SessionType /\ x.op = O
      /\ x.state = z.state /\ x.hist = z.hist /\ x.clients = z.clients
      /\ x.initUser = z.initUser /\ x.releasing = z.releasing
      /\ x.locked = z.locked
      /\ x.trusted = z.trusted /\ x.conf = z.conf
      /\ x.resetstream = z.resetstream /\ x.held = z.held
  BY <1>1 DEF SessionType
<1> HIDE DEF x
<1>8. /\ SameTold(x, DirectToAll(x)) /\ DirectToAll(x).initUser = x.initUser
      /\ DirectToAll(x).releasing = x.releasing
      /\ DirectToAll(x).locked = x.locked
  BY <1>7, DirectToAllTold, DirectToAllLog DEF SameLog
<1>9. /\ y.op = O
      /\ y.state = z.state /\ y.hist = z.hist /\ y.clients = z.clients
      /\ y.initUser = z.initUser /\ y.releasing = z.releasing
      /\ y.locked = z.locked
      /\ y.trusted = z.trusted /\ y.conf = z.conf
      /\ y.resetstream = z.resetstream /\ y.held = z.held
  BY <1>2, <1>4, <1>7, <1>8 DEF SameTold, SameRights
<1>10. Members(y) = Members(z)
  BY <1>9 DEF Members
<1>11. Ops(y) = Members(z) \cap (ids \cup Mods)
  BY <1>5, <1>9, <1>10 DEF Ops, IsOperator
<1>12. ASSUME UInv(z) PROVE UInv(y)
  <2>1. Clean(y)
    BY <1>6, <1>9, <1>10, <1>12 DEF UInv, Clean
  <2>2. Trusteds(y) = Trusteds(z) /\ (Live(y) <=> Live(z))
    BY <1>9, <1>10 DEF Trusteds, Live, IsOutOfSpace
  <2>3. AgreeUsers(y)
    BY <1>9, <1>10, <1>12, <2>2 DEF UInv, AgreeUsers, UsersTold
  <2> QED BY <2>1, <2>3 DEF UInv
<1> QED BY <1>3, <1>9, <1>10, <1>11, <1>12

\* updateTrustedUsers: the trusted users are the members on the list.
LEMMA SetTrustedIs ==
  ASSUME NEW z \in SessionType, NEW ids \in SUBSET User,
         NEW y, y = SetTrusted(z, ids)
  PROVE  /\ y \in SessionType
         /\ y.state = z.state /\ y.hist = z.hist /\ y.clients = z.clients
         /\ y.op = z.op /\ y.authOps = z.authOps /\ y.conf = z.conf
         /\ y.resetstream = z.resetstream /\ y.held = z.held
         /\ Members(y) = Members(z) /\ Ops(y) = Ops(z)
         /\ Trusteds(y) = Members(z) \cap ids
         /\ Clean(z) => Clean(y)
         /\ HasOp(z) => HasOp(y)
<1> DEFINE changed == {u \in Members(z) : (u \in ids) # (u \in z.trusted)}
           O == (z.trusted \ changed) \cup (changed \cap ids)
           A == (z.authTrusted \ (changed \cap Auth))
                  \cup (changed \cap ids \cap Auth)
           x == [z EXCEPT !.trusted = O, !.authTrusted = A]
<1>1. O \in SUBSET User /\ A \in SUBSET User
  BY MembersType DEF SessionType
<1>2. y = IF changed = {} THEN z ELSE DirectToAll(x)
  BY DEF SetTrusted, SessionType
<1>3. y \in SessionType
  BY SetTrustedType
<1>4. changed = {} => O = z.trusted
  OBVIOUS
<1>5. \A u \in Members(z) : u \in O <=> u \in ids
  OBVIOUS
<1>6. z.trusted \subseteq Members(z) => O \subseteq Members(z)
  OBVIOUS
<1> HIDE DEF changed, O, A
<1>7. /\ x \in SessionType /\ x.trusted = O
      /\ x.state = z.state /\ x.hist = z.hist /\ x.clients = z.clients
      /\ x.op = z.op /\ x.authOps = z.authOps /\ x.conf = z.conf
      /\ x.resetstream = z.resetstream /\ x.held = z.held
  BY <1>1 DEF SessionType
<1> HIDE DEF x
<1>8. SameTold(x, DirectToAll(x))
  BY <1>7, DirectToAllTold
<1>9. /\ y.trusted = O
      /\ y.state = z.state /\ y.hist = z.hist /\ y.clients = z.clients
      /\ y.op = z.op /\ y.authOps = z.authOps /\ y.conf = z.conf
      /\ y.resetstream = z.resetstream /\ y.held = z.held
  BY <1>2, <1>4, <1>7, <1>8 DEF SameTold, SameRights
<1>10. Members(y) = Members(z)
  BY <1>9 DEF Members
<1>11. Trusteds(y) = Members(z) \cap ids
  BY <1>5, <1>9, <1>10 DEF Trusteds
<1>12. Ops(y) = Ops(z)
  BY <1>9, <1>10 DEF Ops, IsOperator
<1>13. Clean(z) => Clean(y)
  BY <1>6, <1>9, <1>10 DEF Clean
<1>14. HasOp(z) => HasOp(y)
  BY <1>9, <1>12 DEF HasOp
<1> QED BY <1>3, <1>9, <1>10, <1>11, <1>12, <1>13, <1>14

\* A stored list of operators is up to date whatever was before.
LEMMA StoreOps ==
  ASSUME NEW z \in SessionType, NEW by \in User \cup {NoUser},
         NEW y, y = AddToHistory(z, M("Owner", by, Ops(z), NoConf))
  PROVE  /\ y \in SessionType /\ SameRights(z, y) /\ y.state = z.state
         /\ AgreeOps(y)
         /\ UInv(z) => UInv(y)
<1> DEFINE m == M("Owner", by, Ops(z), NoConf)
<1>1. m \in Msg /\ m.t = "Owner" /\ m.ids = Ops(z)
  <2>1. m \in Msg
    BY OpsType, MType, NoConfType DEF MsgTypes, Stored
  <2> QED BY <2>1 DEF M
<1>2. y = AddToHistory(z, m)
  OBVIOUS
<1> HIDE DEF m
<1>3. y \in SessionType /\ SameRights(z, y) /\ SameControl(z, y)
  BY <1>1, <1>2, AddToHistoryIs
<1>4. /\ Members(y) = Members(z) /\ Ops(y) = Ops(z)
      /\ Trusteds(y) = Trusteds(z) /\ y.conf = z.conf
      /\ Clean(y) <=> Clean(z)
  BY <1>3, SameRightsReads
<1>5. OpsTold(y, Ops(z))
  BY <1>1, <1>2, AddTells
<1>7. \A T, J, C : UsersTold(z, T, J, C) => UsersTold(y, T, J, C)
  BY <1>1, <1>2, AddTells
<1>8. AgreeOps(y)
  BY <1>4, <1>5 DEF AgreeOps
<1>9. UInv(z) => UInv(y)
  BY <1>4, <1>7 DEF UInv, AgreeUsers
<1> QED BY <1>3, <1>8, <1>9 DEF SameControl

\* changeOpStatus(u, true): u is operator too, and everyone knows.
LEMMA GrantOpIs ==
  ASSUME NEW z \in SessionType, NEW u \in User, NEW y, y = GrantOp(z, u)
  PROVE  /\ y \in SessionType /\ y.state = z.state /\ y.clients = z.clients
         /\ y.conf = z.conf /\ y.trusted = z.trusted
         /\ y.resetstream = z.resetstream /\ y.held = z.held
         /\ Members(y) = Members(z)
         /\ Ops(y) = Ops(z) \cup ({u} \cap Members(z))
         /\ AgreeOps(y)
         /\ UInv(z) => UInv(y)
         /\ u \in Members(z) => HasOp(y)
<1> DEFINE ids == Ops(z) \cup {u}
           x == SetOperators(z, ids)
<1>1. ids \in SUBSET User /\ NoUser \in User \cup {NoUser}
  BY OpsType
<1>2. y = AddToHistory(x, M("Owner", NoUser, Ops(x), NoConf))
  BY DEF GrantOp
<1>3. /\ x \in SessionType
      /\ x.state = z.state /\ x.clients = z.clients
      /\ x.trusted = z.trusted /\ x.conf = z.conf
      /\ x.resetstream = z.resetstream /\ x.held = z.held
      /\ Members(x) = Members(z)
      /\ Ops(x) = Members(z) \cap (ids \cup Mods)
      /\ UInv(z) => UInv(x)
  BY <1>1, SetOperatorsIs
<1> HIDE DEF x
<1>4. /\ y \in SessionType /\ SameRights(x, y) /\ y.state = x.state
      /\ AgreeOps(y)
      /\ UInv(x) => UInv(y)
  BY <1>1, <1>2, <1>3, StoreOps
<1>5. Members(y) = Members(x) /\ Ops(y) = Ops(x)
  BY <1>4, SameRightsReads
<1>6. Ops(y) = Ops(z) \cup ({u} \cap Members(z))
  BY <1>3, <1>5 DEF Ops, IsOperator
<1>7. u \in Members(z) => HasOp(y)
  BY <1>6 DEF HasOp
<1> QED BY <1>3, <1>4, <1>5, <1>6, <1>7 DEF SameRights

\* changeTrustedStatus: everyone knows who is trusted, and nothing else changes.
LEMMA ChangeTrustedStatusIs ==
  ASSUME NEW z \in SessionType, NEW u \in User, NEW t \in BOOLEAN,
         NEW y, y = ChangeTrustedStatus(z, u, t)
  PROVE  /\ y \in SessionType /\ y.state = z.state /\ y.clients = z.clients
         /\ y.conf = z.conf /\ y.op = z.op /\ y.authOps = z.authOps
         /\ y.resetstream = z.resetstream /\ y.held = z.held
         /\ Members(y) = Members(z) /\ Ops(y) = Ops(z)
         /\ AgreeOps(z) => AgreeOps(y)
         /\ UInv(z) => UInv(y)
         /\ HasOp(z) => HasOp(y)
<1> DEFINE ids == IF t THEN Trusteds(z) \cup {u} ELSE Trusteds(z) \ {u}
           x == SetTrusted(z, ids)
           m == M("Trusted", NoUser, Trusteds(x), NoConf)
<1>1. ids \in SUBSET User
  BY OpsType
<1>2. y = AddToHistory(x, m)
  BY DEF ChangeTrustedStatus
<1>3. /\ x \in SessionType
      /\ x.state = z.state /\ x.hist = z.hist /\ x.clients = z.clients
      /\ x.op = z.op /\ x.authOps = z.authOps /\ x.conf = z.conf
      /\ x.resetstream = z.resetstream /\ x.held = z.held
      /\ Members(x) = Members(z) /\ Ops(x) = Ops(z)
      /\ Clean(z) => Clean(x)
      /\ HasOp(z) => HasOp(x)
  BY <1>1, SetTrustedIs
<1> HIDE DEF x
<1>4. m \in Msg /\ m.t = "Trusted" /\ m.ids = Trusteds(x)
  <2>1. m \in Msg
    BY <1>3, OpsType, MType, NoConfType DEF MsgTypes, Stored
  <2> QED BY <2>1 DEF M
<1> HIDE DEF m
<1>5. y \in SessionType /\ SameRights(x, y) /\ SameControl(x, y)
  BY <1>2, <1>3, <1>4, AddToHistoryIs
<1>6. /\ Members(y) = Members(x) /\ Ops(y) = Ops(x)
      /\ Trusteds(y) = Trusteds(x)
      /\ Clean(y) <=> Clean(x)
      /\ HasOp(y) <=> HasOp(x)
  BY <1>5, SameRightsReads
<1>8. /\ \A O : OpsTold(x, O) => OpsTold(y, O)
      /\ \A T, J, C : UsersTold(x, T, J, C) => UsersTold(y, Trusteds(x), J, C)
  <2>1. \A O : OpsTold(x, O) => OpsTold(y, O)
    BY <1>2, <1>3, <1>4, AddTells
  <2>2. \A T, J, C : UsersTold(x, T, J, C) =>
          (m.t = "Trusted" => UsersTold(y, m.ids, J, C))
    BY <1>2, <1>3, <1>4, AddTells
  <2>3. \A T, J, C : UsersTold(x, T, J, C) => UsersTold(y, Trusteds(x), J, C)
    BY ONLY <1>4, <2>2, Zenon
  <2> QED BY <2>1, <2>3
<1>9. Live(x) <=> Live(z)
  BY <1>3 DEF Live, IsOutOfSpace
<1>10. AgreeOps(z) => AgreeOps(y)
  <2>1. OpsTold(z, Ops(z)) => OpsTold(x, Ops(z))
    BY <1>3, <1>9 DEF OpsTold
  <2> QED BY <1>3, <1>6, <1>8, <2>1 DEF AgreeOps
<1>11. UInv(z) => UInv(y)
  <2>1. UsersTold(z, Trusteds(z), Members(z), z.conf)
          => UsersTold(x, Trusteds(z), Members(z), z.conf)
    BY <1>3, <1>9 DEF UsersTold
  <2>2. y.conf = z.conf
    BY <1>3, <1>5 DEF SameRights
  <2> QED BY <1>3, <1>6, <1>8, <2>1, <2>2 DEF UInv, AgreeUsers
<1> QED BY <1>3, <1>5, <1>6, <1>10, <1>11 DEF SameRights, SameControl

\* A stored list of trusted users is up to date whatever was before.
LEMMA StoreTrusted ==
  ASSUME NEW z \in SessionType, NEW by \in User \cup {NoUser},
         NEW T, UsersTold(z, T, Members(z), z.conf), Clean(z),
         NEW y, y = AddToHistory(z, M("Trusted", by, Trusteds(z), NoConf))
  PROVE  /\ y \in SessionType /\ SameRights(z, y) /\ UInv(y)
         /\ AgreeOps(z) => AgreeOps(y)
<1> DEFINE m == M("Trusted", by, Trusteds(z), NoConf)
<1>1. m \in Msg /\ m.t = "Trusted" /\ m.ids = Trusteds(z)
  <2>1. m \in Msg
    BY OpsType, MType, NoConfType DEF MsgTypes, Stored
  <2> QED BY <2>1 DEF M
<1>2. y = AddToHistory(z, m)
  OBVIOUS
<1> HIDE DEF m
<1>3. y \in SessionType /\ SameRights(z, y)
  BY <1>1, <1>2, AddToHistoryIs
<1>4. /\ Members(y) = Members(z) /\ Ops(y) = Ops(z)
      /\ Trusteds(y) = Trusteds(z) /\ y.conf = z.conf
      /\ Clean(y) <=> Clean(z)
  BY <1>3, SameRightsReads
<1>5. m.t = "Trusted" => UsersTold(y, m.ids, Members(z), z.conf)
  BY <1>1, <1>2, AddTells
<1>6. UInv(y)
  BY <1>1, <1>4, <1>5 DEF UInv, AgreeUsers
<1>7. AgreeOps(z) => AgreeOps(y)
  <2>1. \A O : OpsTold(z, O) => OpsTold(y, O)
    BY <1>1, <1>2, AddTells
  <2> QED BY <1>4, <2>1 DEF AgreeOps
<1> QED BY <1>3, <1>6, <1>7

\* A drawing or chat message tells nothing.
LEMMA StoreOther ==
  ASSUME NEW z \in SessionType, NEW m \in Msg, m.t \in {"Draw", "Chat"},
         NEW y, y = AddToHistory(z, m)
  PROVE  /\ y \in SessionType /\ SameRights(z, y)
         /\ UInv(z) => UInv(y)
         /\ AgreeOps(z) => AgreeOps(y)
         /\ RInv(z) => RInv(y)
<1>3. y \in SessionType /\ SameRights(z, y)
  BY AddToHistoryIs
<1>4. /\ Members(y) = Members(z) /\ Ops(y) = Ops(z)
      /\ Trusteds(y) = Trusteds(z) /\ y.conf = z.conf
      /\ Clean(y) <=> Clean(z)
      /\ HasOp(y) <=> HasOp(z)
  BY <1>3, SameRightsReads
<1>5. \A O : OpsTold(z, O) => OpsTold(y, O)
  BY AddTells
<1>6. \A T, J, C : UsersTold(z, T, J, C) => UsersTold(y, T, J, C)
  BY AddTells
<1>7. UInv(z) => UInv(y)
  BY <1>4, <1>6 DEF UInv, AgreeUsers
<1>8. AgreeOps(z) => AgreeOps(y)
  BY <1>4, <1>5 DEF AgreeOps
<1> QED BY <1>3, <1>4, <1>7, <1>8 DEF RInv

\* ensureOperatorExists: there is an operator afterwards, or a way to become
\* one; and only when there was none is anyone promoted.
LEMMA EnsureOperatorExistsIs ==
  ASSUME NEW z \in SessionType, NEW y, y = EnsureOperatorExists(z)
  PROVE  /\ y \in SessionType /\ y.state = z.state /\ y.clients = z.clients
         /\ y.conf = z.conf /\ y.trusted = z.trusted
         /\ y.resetstream = z.resetstream /\ y.held = z.held
         /\ Members(y) = Members(z) /\ HasOp(y)
         /\ AgreeOps(z) => AgreeOps(y)
         /\ UInv(z) => UInv(y)
         /\ HasOp(z) => y = z
         /\ Ops(z) \subseteq Ops(y)
         /\ Ops(y) \subseteq Ops(z) \cup (IF HasOp(z) THEN {} ELSE {Head(z.clients)})
<1>1. CASE HasOp(z)
  <2>1. y = z
    BY <1>1 DEF EnsureOperatorExists, HasOp
  <2> QED BY <1>1, <2>1
<1>2. CASE ~HasOp(z)
  <2> DEFINE u == Head(z.clients)
  <2>1. z.clients # <<>> /\ y = GrantOp(z, u)
    BY <1>2 DEF EnsureOperatorExists, HasOp
  <2>2. z.clients \in Seq(User) /\ Len(z.clients) \in Nat
    BY LogTypes
  <2>3. u \in User /\ u \in Members(z)
    <3>1. Len(z.clients) # 0
      BY <2>1, <2>2
    <3>2. 1 \in 1..Len(z.clients) /\ u = z.clients[1]
      BY <2>2, <3>1
    <3> QED BY <2>2, <3>2 DEF Members
  <2> HIDE DEF u
  <2>4. /\ y \in SessionType /\ y.state = z.state /\ y.clients = z.clients
        /\ y.conf = z.conf /\ y.trusted = z.trusted
        /\ y.resetstream = z.resetstream /\ y.held = z.held
        /\ Members(y) = Members(z)
        /\ Ops(y) = Ops(z) \cup ({u} \cap Members(z))
        /\ AgreeOps(y)
        /\ UInv(z) => UInv(y)
        /\ u \in Members(z) => HasOp(y)
    BY <2>1, <2>3, GrantOpIs
  <2>5. Ops(y) \subseteq Ops(z) \cup (IF HasOp(z) THEN {} ELSE {Head(z.clients)})
    BY <1>2, <2>4 DEF u
  <2> QED BY <1>2, <2>3, <2>4, <2>5
<1> QED BY <1>1, <1>2

-----------------------------------------------------------------------------
(* The session moves to another state.                                     *)

\* The state of the session changes, or its reset stream is dropped, and
\* nothing else that the invariant reads.
Moves(z, y) ==
  /\ y.clients = z.clients /\ y.op = z.op /\ y.trusted = z.trusted
  /\ y.authOps = z.authOps /\ y.conf = z.conf /\ y.held = z.held
  /\ y.hist = z.hist
  /\ y.state = "Shutdown" <=> z.state = "Shutdown"
  /\ y.resetstream = z.resetstream \/ y.resetstream = <<>>

\* A session that only moves keeps what the invariant says of it.
LEMMA MovesKeeps ==
  ASSUME NEW z, NEW y, Moves(z, y)
  PROVE  /\ Members(y) = Members(z) /\ Ops(y) = Ops(z)
         /\ Trusteds(y) = Trusteds(z) /\ y.conf = z.conf
         /\ HasOp(z) <=> HasOp(y)
         /\ Clean(z) => Clean(y)
         /\ UInv(z) => UInv(y)
         /\ AgreeOps(z) => AgreeOps(y)
         /\ RInv(z) => RInv(y)
<1>1. Members(y) = Members(z)
  BY DEF Moves, Members
<1>2. Ops(y) = Ops(z) /\ Trusteds(y) = Trusteds(z)
  BY <1>1 DEF Moves, Ops, Trusteds, IsOperator
<1>3. Live(y) <=> Live(z)
  BY DEF Moves, Live, IsOutOfSpace
<1>4. HasOp(z) <=> HasOp(y)
  BY <1>2 DEF Moves, HasOp
<1>5. Clean(z) => Clean(y)
  <2>1. y.resetstream = <<>> => 1..Len(y.resetstream) = {}
    OBVIOUS
  <2> QED BY <1>1, <2>1 DEF Moves, Clean
<1>6. AgreeUsers(z) => AgreeUsers(y)
  BY <1>1, <1>2, <1>3 DEF Moves, AgreeUsers, UsersTold
<1>7. AgreeOps(z) => AgreeOps(y)
  BY <1>2, <1>3 DEF Moves, AgreeOps, OpsTold
<1> QED BY <1>1, <1>2, <1>4, <1>5, <1>6, <1>7 DEF UInv, RInv, Moves

\* killSession: nobody is there to be told, or to have rights.
LEMMA KillSessionIs ==
  ASSUME NEW z \in SessionType, UInv(z), NEW y, y = KillSession(z)
  PROVE  /\ y \in SessionType /\ UInv(y)
         /\ AgreeOps(z) => AgreeOps(y)
         /\ HasOp(z) => HasOp(y)
<1>1. y \in SessionType
  BY KillSessionType
<1>2. CASE z.state = "Shutdown"
  <2>1. y = z
    BY <1>2 DEF KillSession
  <2> QED BY <1>1, <2>1
<1>3. CASE z.state # "Shutdown"
  <2> DEFINE H == [u \in User |-> <<>>]
  <2>1. /\ y.state = "Shutdown" /\ y.clients = <<>> /\ y.op = {}
        /\ y.trusted = {} /\ y.held = H /\ y.resetstream = z.resetstream
    BY <1>3 DEF KillSession, NoClients, SessionType
  <2>2. \A u \in User : y.held[u] = <<>>
    BY <2>1
  <2> HIDE DEF H
  <2>3. Clean(y)
    <3>1. ASSUME NEW u \in User, NEW i \in 1..Len(y.held[u]) PROVE FALSE
      <4>1. Len(y.held[u]) = 0
        BY <2>2
      <4> QED BY <3>1, <4>1
    <3> QED BY <2>1, <3>1 DEF Clean, UInv
  <2>4. ~Live(y) /\ HasOp(y)
    BY <2>1 DEF Live, HasOp
  <2>5. AgreeUsers(y) /\ AgreeOps(y)
    BY <2>4 DEF AgreeUsers, UsersTold, AgreeOps, OpsTold
  <2> QED BY <1>1, <2>3, <2>4, <2>5 DEF UInv
<1> QED BY <1>2, <1>3

\* onSessionAttributeChanged: a session that is not empty goes on.
LEMMA AttributeChangedIs ==
  ASSUME NEW z \in SessionType, UInv(z), NEW y, y = AttributeChanged(z)
  PROVE  /\ y \in SessionType /\ UInv(y)
         /\ AgreeOps(z) => AgreeOps(y)
         /\ HasOp(z) => HasOp(y)
         /\ z.clients # <<>> => y = z
<1>1. CASE y = z
  BY <1>1
<1>2. CASE y = KillSession(z) /\ z.clients = <<>>
  BY <1>2, KillSessionIs
<1> QED BY <1>1, <1>2 DEF AttributeChanged

\* sendUpdatedSessionProperties: the settings are told, whatever was before.
LEMMA SendUpdatedIs ==
  ASSUME NEW z \in SessionType, NEW C,
         UsersTold(z, Trusteds(z), Members(z), C), Clean(z),
         NEW y, y = SendUpdatedSessionProperties(z)
  PROVE  /\ y \in SessionType /\ UInv(y)
         /\ AgreeOps(z) => AgreeOps(y)
         /\ HasOp(z) => HasOp(y)
         /\ z.clients # <<>> => SameRights(z, y) /\ y.state = z.state
<1> DEFINE m == M("Conf", NoUser, {}, z.conf)
           x == AddToHistory(z, m)
<1>1. m \in Msg /\ m.t = "Conf" /\ m.conf = z.conf
  <2>1. m \in Msg
    BY MType DEF MsgTypes, SessionType
  <2> QED BY <2>1 DEF M
<1>2. y = AttributeChanged(x)
  BY DEF SendUpdatedSessionProperties
<1> HIDE DEF m
<1>3. x \in SessionType /\ SameRights(z, x) /\ SameControl(z, x)
  BY <1>1, AddToHistoryIs
<1>4. /\ Members(x) = Members(z) /\ Ops(x) = Ops(z)
      /\ Trusteds(x) = Trusteds(z) /\ x.conf = z.conf
      /\ Clean(x) <=> Clean(z)
      /\ HasOp(x) <=> HasOp(z)
  BY <1>3, SameRightsReads
<1>5. \A O : OpsTold(z, O) => OpsTold(x, O)
  BY <1>1, AddTells
<1>6. m.t = "Conf" => UsersTold(x, Trusteds(z), Members(z), m.conf)
  BY <1>1, AddTells
<1> HIDE DEF x
<1>7. UInv(x)
  BY <1>1, <1>4, <1>6 DEF UInv, AgreeUsers
<1>8. AgreeOps(z) => AgreeOps(x)
  BY <1>4, <1>5 DEF AgreeOps
<1>9. /\ y \in SessionType /\ UInv(y)
      /\ AgreeOps(x) => AgreeOps(y)
      /\ HasOp(x) => HasOp(y)
      /\ x.clients # <<>> => y = x
  BY <1>2, <1>3, <1>7, AttributeChangedIs
<1> QED BY <1>3, <1>4, <1>8, <1>9 DEF SameRights, SameControl

\* setClosed(false): the settings change, and are told.
LEMMA ReopenIs ==
  ASSUME NEW z \in SessionType, UInv(z), NEW y, y = Reopen(z)
  PROVE  /\ y \in SessionType /\ UInv(y)
         /\ AgreeOps(z) => AgreeOps(y)
         /\ HasOp(z) => HasOp(y)
<1>1. CASE "closed" \notin z.conf.flags
  BY <1>1 DEF Reopen
<1>2. CASE "closed" \in z.conf.flags
  <2> DEFINE x == [z EXCEPT !.conf.flags = @ \ {"closed"}]
  <2>1. /\ x \in SessionType /\ x.clients = z.clients /\ x.op = z.op
        /\ x.trusted = z.trusted /\ x.authOps = z.authOps
        /\ x.conf.flags = z.conf.flags \ {"closed"} /\ x.hist = z.hist
        /\ x.state = z.state /\ x.resetstream = z.resetstream
        /\ x.held = z.held
    BY DEF SessionType, Conf
  <2>2. y = SendUpdatedSessionProperties(x)
    BY <1>2 DEF Reopen
  <2> HIDE DEF x
  <2>3. Members(x) = Members(z)
    BY <2>1 DEF Members
  <2>4. Ops(x) = Ops(z) /\ Trusteds(x) = Trusteds(z)
    BY <2>1, <2>3 DEF Ops, Trusteds, IsOperator
  <2>5. Live(x) <=> Live(z)
    BY <2>1 DEF Live, IsOutOfSpace
  <2>6. UsersTold(x, Trusteds(x), Members(x), z.conf) /\ Clean(x)
    BY <2>1, <2>3, <2>4, <2>5 DEF UInv, AgreeUsers, UsersTold, Clean
  <2>7. AgreeOps(z) => AgreeOps(x)
    BY <2>1, <2>4, <2>5 DEF AgreeOps, OpsTold
  <2>8. HasOp(z) => HasOp(x)
    BY <2>1, <2>4 DEF HasOp
  <2>9. /\ y \in SessionType /\ UInv(y)
        /\ AgreeOps(x) => AgreeOps(y)
        /\ HasOp(x) => HasOp(y)
    BY <2>1, <2>2, <2>6, SendUpdatedIs
  <2> QED BY <2>7, <2>8, <2>9
<1> QED BY <1>1, <1>2

-----------------------------------------------------------------------------
(* A reset replaces the history.                                           *)

\* A reset that is uploaded changes no rights, and the history that it makes
\* tells them anew (switchState, serverSideStateMessages).
LEMMA PerformResetIs ==
  ASSUME NEW z \in SessionType, UInv(z), z.clients # <<>>,
         NEW y, y = PerformReset(z)
  PROVE  /\ y \in SessionType /\ SameRights(z, y) /\ y.state = z.state
         /\ UInv(y)
         /\ AgreeOps(z) => AgreeOps(y)
<1> DEFINE image == ServerSideStateMessages(z) \o z.resetstream
           r == [z EXCEPT !.first = LastIndex(z) + 1, !.hist = image,
                          !.base = Len(image)]
           h == HistoryReset(z, image)
           a == AnnounceReset(h)
           c == SendUpdatedSessionProperties(a)
<1>1. CASE y = DirectToAll(z)
  <2>1. y \in SessionType /\ SameTold(z, y)
    BY <1>1, DirectToAllType, DirectToAllTold
  <2> QED BY <2>1, SameToldKeeps DEF SameTold
<1>2. CASE y = c
  <2>1. z.resetstream \in Seq(Msg)
    BY DEF SessionType
  <2>2. /\ image \in Seq(Msg)
        /\ "Owner" \notin StreamKinds => ListedBy(image, "Owner") = Ops(z)
        /\ "Trusted" \notin StreamKinds =>
             ListedBy(image, "Trusted") = Trusteds(z)
        /\ JoinedBy(image) = Members(z)
    BY <2>1, ImageTells DEF UInv, Clean
  <2> HIDE DEF image
  <2>3. /\ r \in SessionType /\ SameRights(z, r) /\ r.hist = image
        /\ r.state = z.state
    <3>1. Len(image) \in Nat
      BY <2>2
    <3> QED BY <2>2, <3>1, LastIndexType DEF SessionType, SameRights
  <2>4. h = SendNextHistoryBatch(r, Members(z))
    BY DEF HistoryReset
  <2> HIDE DEF r, h
  <2>5. h \in SessionType /\ SameTold(r, h)
    BY <2>3, <2>4, SendNextHistoryBatchType, SendNextTold
  <2>6. a \in SessionType /\ SameTold(h, a)
    <3> DEFINE S == [u \in User |-> IF u \in Members(h) THEN <<>> ELSE h.seen[u]]
               x == [h EXCEPT !.seen = S, !.autoreset = "NotSent"]
    <3>1. S \in [User -> Seq(Msg)]
      BY <2>5, EmptyType, LogTypes
    <3>2. a = DirectToAll(x)
      BY <2>5 DEF AnnounceReset, SessionType
    <3> HIDE DEF S
    <3>3. x \in SessionType /\ SameTold(h, x)
      BY <2>5, <3>1 DEF SessionType, SameTold, SameRights
    <3> HIDE DEF x
    <3>4. DirectToAll(x) \in SessionType /\ SameTold(x, DirectToAll(x))
      BY <3>3, DirectToAllType, DirectToAllTold
    <3> QED BY <3>2, <3>3, <3>4, SameRightsTrans DEF SameTold
  <2> HIDE DEF a
  <2>7. SameRights(z, a) /\ a.hist = image /\ a.state = z.state
    BY <2>3, <2>5, <2>6, SameRightsTrans DEF SameTold
  <2>8. /\ Members(a) = Members(z) /\ Ops(a) = Ops(z)
        /\ Trusteds(a) = Trusteds(z)
        /\ Clean(a) <=> Clean(z)
    BY <2>7, SameRightsReads
  <2>9. UsersTold(a, Trusteds(a), Members(a), ConfOf(image)) /\ Clean(a)
    BY <2>2, <2>7, <2>8 DEF UsersTold, ListsTrusted, UInv
  <2>10. AgreeOps(a)
    BY <2>2, <2>7, <2>8 DEF AgreeOps, OpsTold, ListsOps
  <2>11. a.clients # <<>>
    BY <2>7 DEF SameRights
  <2>12. /\ y \in SessionType /\ UInv(y)
         /\ AgreeOps(a) => AgreeOps(y)
         /\ a.clients # <<>> => SameRights(a, y) /\ y.state = a.state
    BY <1>2, <2>6, <2>9, SendUpdatedIs
  <2> QED BY <2>7, <2>10, <2>11, <2>12, SameRightsTrans
<1> QED BY <1>1, <1>2 DEF PerformReset

\* The same members with the same flags, and the same settings
SameFlags(z, y) ==
  /\ y.clients = z.clients /\ y.op = z.op /\ y.trusted = z.trusted
  /\ y.authOps = z.authOps /\ y.conf = z.conf

\* ... have the same rights.
LEMMA SameFlagsReads ==
  ASSUME NEW z, NEW y, SameFlags(z, y)
  PROVE  /\ Members(y) = Members(z) /\ Ops(y) = Ops(z)
         /\ Trusteds(y) = Trusteds(z) /\ y.conf = z.conf
         /\ HasOp(y) <=> HasOp(z)
<1>1. Members(y) = Members(z)
  BY DEF SameFlags, Members
<1>2. Ops(y) = Ops(z) /\ Trusteds(y) = Trusteds(z)
  BY <1>1 DEF SameFlags, Ops, Trusteds, IsOperator
<1> QED BY <1>1, <1>2 DEF SameFlags, HasOp

\* The end of switchState: the stream is dropped, and the clients unlocked.
LEMMA UnlockMoves ==
  ASSUME NEW z \in SessionType, z.state # "Shutdown",
         NEW y, y = Unlock([z EXCEPT !.resetstream = <<>>])
  PROVE  Moves(z, y)
<1> DEFINE x == [z EXCEPT !.resetstream = <<>>]
<1>1. x \in SessionType /\ Moves(z, x) /\ x.state # "Shutdown"
  BY EmptyStream DEF Moves, SessionType
<1>2. y = Unlock(x)
  OBVIOUS
<1> HIDE DEF x
<1>3. Moves(x, y)
  BY <1>1, <1>2 DEF Moves, SessionType, Unlock
<1> QED BY <1>1, <1>3 DEF Moves

\* switchState(Running): the rights stay, and are told.
LEMMA SwitchToRunningIs ==
  ASSUME NEW z \in SessionType, UInv(z), z.state # "Shutdown",
         z.clients # <<>>, NEW y, y = SwitchToRunning(z)
  PROVE  /\ SameFlags(z, y)
         /\ UInv(y)
         /\ AgreeOps(z) => AgreeOps(y)
<1> DEFINE x == [z EXCEPT !.initUser = NoUser]
           w == IF z.state = "Reset" /\ z.resetstream # <<>>
                THEN PerformReset(x) ELSE x
<1>1. /\ x \in SessionType /\ x.clients = z.clients /\ x.state = z.state
      /\ SameTold(z, x)
  BY DEF SessionType, SameTold, SameRights
<1>2. UInv(x) /\ (AgreeOps(z) => AgreeOps(x))
  BY <1>1, SameToldKeeps
<1>3. y = Unlock([w EXCEPT !.resetstream = <<>>])
  BY DEF SwitchToRunning
<1> HIDE DEF x
<1>4. /\ w \in SessionType /\ SameFlags(x, w) /\ w.state = z.state
      /\ UInv(w) /\ (AgreeOps(x) => AgreeOps(w))
  <2>1. CASE w = PerformReset(x)
    BY <1>1, <1>2, <2>1, PerformResetIs DEF SameRights, SameFlags
  <2>2. CASE w = x
    BY <1>1, <1>2, <2>2 DEF SameFlags
  <2> QED BY <2>1, <2>2
<1> HIDE DEF w
<1>5. Moves(w, y)
  BY <1>3, <1>4, UnlockMoves
<1>6. SameFlags(w, y) /\ SameFlags(z, x)
  BY <1>1, <1>5 DEF Moves, SameFlags, SameTold, SameRights
<1> QED BY <1>2, <1>4, <1>5, <1>6, MovesKeeps DEF SameFlags

\* abortReset: nothing of the reset remains.
LEMMA AbortResetIs ==
  ASSUME NEW z \in SessionType, z.state # "Shutdown",
         NEW y, y = AbortReset(z)
  PROVE  /\ y \in SessionType /\ Moves(z, y) /\ y.initUser = NoUser
<1> DEFINE x == [z EXCEPT !.resetstream = <<>>]
           w == [x EXCEPT !.initUser = NoUser]
           v == Unlock([w EXCEPT !.resetstream = <<>>])
<1>1. x \in SessionType /\ x.resetstream = <<>> /\ Moves(z, x)
      /\ x.state # "Shutdown"
  BY EmptyStream DEF Moves, SessionType
<1>2. y = DirectToAll(SwitchToRunning(x))
  BY DEF AbortReset
<1> HIDE DEF x
<1>3. SwitchToRunning(x) = v
  BY <1>1 DEF SwitchToRunning
<1>4. w \in SessionType /\ w.initUser = NoUser /\ Moves(x, w)
      /\ w.state # "Shutdown"
  BY <1>1 DEF Moves, SessionType
<1> HIDE DEF w
<1>5. Moves(w, v) /\ v \in SessionType /\ v.initUser = NoUser
  <2>1. Moves(w, v)
    BY <1>4, UnlockMoves
  <2>2. v \in SessionType
    BY <1>1, <1>3, SwitchToRunningType
  <2>3. v.initUser = NoUser
    BY <1>4 DEF Unlock, SessionType
  <2> QED BY <2>1, <2>2, <2>3
<1> HIDE DEF v
<1>6. y \in SessionType /\ SameTold(v, y) /\ y.initUser = v.initUser
  BY <1>2, <1>3, <1>5, DirectToAllType, DirectToAllTold, DirectToAllLog DEF SameLog
<1> QED BY <1>1, <1>4, <1>5, <1>6 DEF Moves, SameTold, SameRights

\* resetSession: nothing but the state of the session changes.
LEMMA ResetSessionIs ==
  ASSUME NEW z \in SessionType, z.state = "Running", NEW u \in User,
         NEW y, y = ResetSession(z, u)
  PROVE  Moves(z, y)
<1> DEFINE x == [z EXCEPT !.state = "Reset", !.initUser = u,
                          !.resetstream = <<>>]
<1>1. x \in SessionType /\ Moves(z, x)
  BY EmptyStream, ZenonT(60) DEF Moves, SessionType, States
<1>2. y = DirectToAll(x)
  BY DEF ResetSession
<1> HIDE DEF x
<1>3. SameTold(x, y)
  BY <1>1, <1>2, DirectToAllTold
<1> QED BY <1>1, <1>3 DEF Moves, SameTold, SameRights


-----------------------------------------------------------------------------
(* Users leave.                                                            *)

\* The rights of a client go with it, and the history does not know yet.
LEMMA RemoveClientIs ==
  ASSUME NEW z \in SessionType, Unique(z), Clean(z), NEW u \in Members(z),
         NEW y, y = RemoveClient(z, u)
  PROVE  /\ y \in SessionType /\ Clean(y)
         /\ Members(y) = Members(z) \ {u}
         /\ Ops(y) = Ops(z) \ {u} /\ Trusteds(y) = Trusteds(z) \ {u}
         /\ y.state = z.state /\ y.hist = z.hist /\ y.conf = z.conf
         /\ y.authOps = z.authOps /\ y.initUser = z.initUser
<1>1. u \in User
  BY MembersType
<1>2. y \in SessionType
  BY <1>1, RemoveClientType
<1>3. Members(y) = Members(z) \ {u}
  BY RemoveClientMembers
<1> DEFINE H == [z.held EXCEPT ![u] = <<>>]
<1>4. /\ y.state = z.state /\ y.hist = z.hist /\ y.conf = z.conf
      /\ y.authOps = z.authOps /\ y.initUser = z.initUser
      /\ y.op = z.op \ {u} /\ y.trusted = z.trusted \ {u}
      /\ y.resetstream = z.resetstream /\ y.held = H
  BY DEF RemoveClient, SessionType
<1>5. Ops(y) = Ops(z) \ {u} /\ Trusteds(y) = Trusteds(z) \ {u}
  BY <1>3, <1>4 DEF Ops, Trusteds, IsOperator
<1>6. Clean(y)
  <2>1. ASSUME NEW v \in User, NEW i \in 1..Len(y.held[v])
        PROVE  y.held[v][i].by = v
    <3>1. CASE v = u
      <4>1. y.held[v] = <<>>
        BY <1>1, <1>4, <3>1 DEF SessionType
      <4>2. Len(y.held[v]) = 0
        BY <4>1
      <4> QED BY <2>1, <4>2
    <3>2. CASE v # u
      <4>1. y.held[v] = z.held[v]
        BY <1>4, <3>2 DEF SessionType
      <4> QED BY <2>1, <4>1 DEF Clean
    <3> QED BY <3>1, <3>2
  <2> QED BY <1>3, <1>4, <2>1 DEF Clean
<1> QED BY <1>2, <1>3, <1>4, <1>5, <1>6

\* Someone is there to become operator.
LEMMA NotAlone ==
  ASSUME NEW z
  PROVE  Members(z) # {} => z.clients # <<>>
<1>1. ASSUME z.clients = <<>>, NEW u \in Members(z) PROVE FALSE
  <2>1. Len(z.clients) = 0
    BY <1>1
  <2>2. PICK i \in 1..Len(z.clients) : z.clients[i] = u
    BY DEF Members
  <2> QED BY <2>1, <2>2
<1> QED BY <1>1

\* removeUser: the members and the rights that remain are told, and there is an
\* operator, or a way to become one, among those who stay.
LEMMA RemoveUserIs ==
  ASSUME NEW z \in SessionType, Unique(z), UInv(z), NEW u \in Members(z),
         z.state # "Shutdown", NEW y, y = RemoveUser(z, u)
  PROVE  /\ y \in SessionType /\ UInv(y) /\ HasOp(y)
         /\ AgreeOps(z) => AgreeOps(y)
         /\ Members(z) # {u} =>
              /\ Members(y) = Members(z) \ {u} /\ y.conf = z.conf
              /\ Trusteds(y) = Trusteds(z) \ {u}
              /\ Ops(z) \ {u} \subseteq Ops(y)
              /\ \/ Ops(y) = Ops(z) \ {u}
                 \/ /\ "opword" \notin z.conf.flags /\ z.authOps = {}
                    /\ Ops(z) \ {u} = {}
                    /\ Ops(y) \subseteq {Head(y.clients)}
              /\ u = z.initUser /\ z.state = "Reset" => y.initUser = NoUser
<1> DEFINE gone == RemoveClient(z, u)
           resumed == IF u = z.initUser /\ z.state = "Reset"
                      THEN AbortReset(gone) ELSE gone
           m == M("Leave", u, {}, NoConf)
           left == AddToHistory(resumed, m)
           logged == EnsureOperatorExists(left)
           opened == IF logged.clients = <<>> THEN Reopen(logged) ELSE logged
<1>1. y = AttributeChanged(opened)
  BY DEF RemoveUser
<1>2. m \in Msg /\ m.t = "Leave" /\ m.by = u
  <2>1. u \in User
    BY MembersType
  <2>2. m \in Msg
    BY <2>1, MType, NoConfType DEF MsgTypes
  <2> QED BY <2>2 DEF M
<1> HIDE DEF m
<1>3. /\ gone \in SessionType /\ Clean(gone)
      /\ Members(gone) = Members(z) \ {u}
      /\ Ops(gone) = Ops(z) \ {u} /\ Trusteds(gone) = Trusteds(z) \ {u}
      /\ gone.state = z.state /\ gone.hist = z.hist /\ gone.conf = z.conf
      /\ gone.authOps = z.authOps /\ gone.initUser = z.initUser
  BY RemoveClientIs DEF UInv
<1> HIDE DEF gone
<1>4. /\ resumed \in SessionType /\ Moves(gone, resumed)
      /\ u = z.initUser /\ z.state = "Reset" => resumed.initUser = NoUser
  <2>1. CASE u = z.initUser /\ z.state = "Reset"
    <3>1. resumed = AbortReset(gone)
      BY <2>1
    <3> QED BY <1>3, <3>1, AbortResetIs
  <2>2. CASE ~(u = z.initUser /\ z.state = "Reset")
    BY <1>3, <2>2 DEF Moves
  <2> QED BY <2>1, <2>2
<1> HIDE DEF resumed
<1>5. /\ Members(resumed) = Members(z) \ {u} /\ Ops(resumed) = Ops(z) \ {u}
      /\ Trusteds(resumed) = Trusteds(z) \ {u} /\ resumed.conf = z.conf
      /\ Clean(resumed) /\ resumed.authOps = z.authOps
  BY <1>3, <1>4, MovesKeeps DEF Moves
<1>6. resumed.hist = z.hist /\ (Live(resumed) <=> Live(z))
  BY <1>3, <1>4 DEF Moves, Live, IsOutOfSpace
<1>7. UsersTold(resumed, Trusteds(z), Members(z), z.conf)
  BY <1>6 DEF UInv, AgreeUsers, UsersTold
<1>8. AgreeOps(z) => OpsTold(resumed, Ops(z))
  BY <1>6 DEF AgreeOps, OpsTold
<1>9. /\ left \in SessionType /\ SameRights(resumed, left)
      /\ left.initUser = resumed.initUser
  BY <1>2, <1>4, AddToHistoryIs DEF SameControl
<1>10. /\ AgreeOps(z) => OpsTold(left, Ops(z) \ {u})
       /\ UsersTold(left, Trusteds(z) \ {u}, Members(z) \ {u}, z.conf)
  <2>1. /\ \A O : OpsTold(resumed, O) =>
             (m.t = "Leave" => OpsTold(left, O \ {m.by}))
        /\ \A T, J, C : UsersTold(resumed, T, J, C) =>
             (m.t = "Leave" => UsersTold(left, T \ {m.by}, J \ {m.by}, C))
    BY <1>2, <1>4, AddTells
  <2>2. /\ \A O : OpsTold(resumed, O) => OpsTold(left, O \ {u})
        /\ \A T, J, C : UsersTold(resumed, T, J, C) =>
             UsersTold(left, T \ {u}, J \ {u}, C)
    BY ONLY <1>2, <2>1, Zenon
  <2> QED BY <1>7, <1>8, <2>2
<1> HIDE DEF left
<1>11. /\ Members(left) = Members(z) \ {u} /\ Ops(left) = Ops(z) \ {u}
       /\ Trusteds(left) = Trusteds(z) \ {u} /\ left.conf = z.conf
       /\ Clean(left) /\ left.authOps = z.authOps
  BY <1>5, <1>9, SameRightsReads DEF SameRights
<1>12. UInv(left) /\ (AgreeOps(z) => AgreeOps(left))
  BY <1>10, <1>11 DEF UInv, AgreeUsers, AgreeOps
<1>13. /\ logged \in SessionType /\ logged.clients = left.clients
       /\ logged.conf = left.conf /\ logged.trusted = left.trusted
       /\ Members(logged) = Members(left) /\ HasOp(logged)
       /\ AgreeOps(left) => AgreeOps(logged)
       /\ UInv(left) => UInv(logged)
       /\ HasOp(left) => logged = left
       /\ Ops(left) \subseteq Ops(logged)
       /\ Ops(logged) \subseteq
            Ops(left) \cup (IF HasOp(left) THEN {} ELSE {Head(left.clients)})
  BY <1>9, EnsureOperatorExistsIs
<1>14. logged.initUser = left.initUser
  BY <1>9, EnsureOperatorExistsSame DEF SameControl
<1> HIDE DEF logged
<1>15. /\ opened \in SessionType /\ UInv(opened) /\ HasOp(opened)
       /\ AgreeOps(logged) => AgreeOps(opened)
  BY <1>12, <1>13, ReopenIs
<1>16. /\ y \in SessionType /\ UInv(y) /\ HasOp(y)
       /\ AgreeOps(opened) => AgreeOps(y)
       /\ opened.clients # <<>> => y = opened
  BY <1>1, <1>15, AttributeChangedIs
<1>17. ASSUME Members(z) # {u}
       PROVE  /\ Members(y) = Members(z) \ {u} /\ y.conf = z.conf
              /\ Trusteds(y) = Trusteds(z) \ {u}
              /\ Ops(z) \ {u} \subseteq Ops(y)
              /\ \/ Ops(y) = Ops(z) \ {u}
                 \/ /\ "opword" \notin z.conf.flags /\ z.authOps = {}
                    /\ Ops(z) \ {u} = {}
                    /\ Ops(y) \subseteq {Head(y.clients)}
              /\ u = z.initUser /\ z.state = "Reset" => y.initUser = NoUser
  <2>1. Members(left) # {}
    BY <1>11, <1>17
  <2>2. logged.clients # <<>>
    BY <1>13, <2>1, NotAlone
  <2>3. y = logged
    BY <1>16, <2>2 DEF opened
  <2>4. Trusteds(logged) = Trusteds(left)
    BY <1>13 DEF Trusteds
  <2>5. \/ Ops(y) = Ops(z) \ {u}
        \/ /\ "opword" \notin z.conf.flags /\ z.authOps = {}
           /\ Ops(z) \ {u} = {}
           /\ Ops(y) \subseteq {Head(y.clients)}
    <3>1. CASE HasOp(left)
      BY <1>11, <1>13, <2>3, <3>1
    <3>2. CASE ~HasOp(left)
      <4>1. "opword" \notin z.conf.flags /\ z.authOps = {} /\ Ops(z) \ {u} = {}
        BY <1>11, <3>2 DEF HasOp
      <4>2. Ops(y) \subseteq {Head(y.clients)}
        BY <1>11, <1>13, <2>3, <3>2, <4>1
      <4> QED BY <4>1, <4>2
    <3> QED BY <3>1, <3>2
  <2>6. u = z.initUser /\ z.state = "Reset" => y.initUser = NoUser
    BY <1>4, <1>9, <1>14, <2>3
  <2> QED BY <1>11, <1>13, <2>3, <2>4, <2>5, <2>6
<1> QED BY <1>12, <1>13, <1>15, <1>16, <1>17


\* The end of updateOwnership, when someone who stays is operator: nobody is
\* promoted in the place of the resetter.
LEMMA KickResetterIs ==
  ASSUME NEW z \in SessionType, Unique(z), z.state # "Shutdown",
         NEW x \in SessionType, UInv(x), x.clients = z.clients,
         x.state = z.state, x.initUser = z.initUser,
         NEW y, y = KickResetter(z, x)
  PROVE  /\ y \in SessionType /\ UInv(y)
         /\ Ops(x) # {} =>
              /\ Ops(y) = Ops(x) /\ Ops(x) \subseteq Members(y)
              /\ y.conf = x.conf
              /\ y = x \/ y.initUser = NoUser
<1>1. CASE y = x
  BY <1>1 DEF Ops
<1>2. CASE /\ z.state = "Reset" /\ z.initUser \in Members(z)
           /\ ~IsOperator(x, z.initUser)
           /\ y = RemoveUser(x, z.initUser)
  <2> DEFINE u == z.initUser
  <2>1. Members(x) = Members(z) /\ Unique(x)
    BY DEF Members, Unique
  <2>2. u \in Members(x) /\ u \notin Ops(x) /\ x.state = "Reset"
    BY <1>2, <2>1 DEF Ops
  <2>3. /\ y \in SessionType /\ UInv(y)
        /\ Members(x) # {u} =>
             /\ Members(y) = Members(x) \ {u} /\ y.conf = x.conf
             /\ Ops(x) \ {u} \subseteq Ops(y)
             /\ \/ Ops(y) = Ops(x) \ {u}
                \/ /\ "opword" \notin x.conf.flags /\ x.authOps = {}
                   /\ Ops(x) \ {u} = {}
                   /\ Ops(y) \subseteq {Head(y.clients)}
             /\ u = x.initUser /\ x.state = "Reset" => y.initUser = NoUser
    BY <1>2, <2>1, <2>2, RemoveUserIs
  <2>4. Ops(x) \ {u} = Ops(x)
    BY <2>2
  <2>5. Ops(x) # {} => Members(x) # {u}
    BY <2>2 DEF Ops
  <2>6. Ops(x) \subseteq Members(x) \ {u}
    BY <2>2 DEF Ops
  <2> QED BY <2>2, <2>3, <2>4, <2>5, <2>6
<1> QED BY <1>1, <1>2 DEF KickResetter

\* changeOpStatus(u, false): the other lists stay right.
LEMMA RevokeOpUsers ==
  ASSUME NEW z \in SessionType, Unique(z), UInv(z), z.state # "Shutdown",
         NEW u, NEW y, y = RevokeOp(z, u)
  PROVE  UInv(y)
<1> DEFINE ids == Ops(z) \ {u}
           x == SetOperators(z, ids)
           k == KickResetter(z, x)
           m == M("Owner", NoUser, Ops(x), NoConf)
<1>1. y = AddToHistory(k, m)
  BY DEF RevokeOp
<1>2. ids \in SUBSET User
  BY OpsType
<1>3. /\ x \in SessionType /\ UInv(x) /\ x.clients = z.clients
      /\ x.state = z.state /\ x.initUser = z.initUser
  BY <1>2, SetOperatorsIs
<1> HIDE DEF x
<1>4. k \in SessionType /\ UInv(k)
  BY <1>3, KickResetterIs
<1> HIDE DEF k
<1>5. m \in Msg /\ m.t = "Owner"
  <2>1. m \in Msg
    BY <1>3, OpsType, MType, NoConfType DEF MsgTypes, Stored
  <2> QED BY <2>1 DEF M
<1> HIDE DEF m
<1>6. SameRights(k, y) /\ y \in SessionType
  BY <1>1, <1>4, <1>5, AddToHistoryIs
<1>7. \A T, J, C : UsersTold(k, T, J, C) => UsersTold(y, T, J, C)
  BY <1>1, <1>4, <1>5, AddTells
<1>8. /\ Members(y) = Members(k) /\ Trusteds(y) = Trusteds(k)
      /\ y.conf = k.conf
      /\ Clean(y) <=> Clean(k)
  BY <1>6, SameRightsReads
<1> QED BY <1>4, <1>7, <1>8 DEF UInv, AgreeUsers

-----------------------------------------------------------------------------
(* Messages of the clients.                                                *)

\* addToInitStream in a reset: the message goes to the stream, or its sender
\* is disconnected.
LEMMA StreamIs ==
  ASSUME NEW z \in SessionType, Unique(z), UInv(z), z.state = "Reset",
         z.initUser \in Members(z), NEW m \in Msg, m.t \in StreamKinds,
         NEW y, y = AddToInitStream(z, m)
  PROVE  /\ UInv(y)
         /\ AgreeOps(z) => AgreeOps(y)
         /\ HasOp(z) => HasOp(y)
<1> DEFINE r == Append(z.resetstream, m)
           x == [z EXCEPT !.resetstream = r]
<1>1. /\ z.resetstream \in Seq(Msg) /\ Len(z.resetstream) \in Nat
      /\ r \in Seq(Msg) /\ Len(r) = Len(z.resetstream) + 1
      /\ \A i \in 1..Len(r) : r[i] = IF i = Len(z.resetstream) + 1 THEN m
                                     ELSE z.resetstream[i]
  <2>1. z.resetstream \in Seq(Msg)
    BY DEF SessionType
  <2> QED BY <2>1, AppendProperties
<1>2. y = x \/ y = RemoveUser(x, z.initUser)
  BY DEF AddToInitStream, SessionType
<1> HIDE DEF r
<1>3. /\ x \in SessionType /\ x.clients = z.clients /\ x.op = z.op
      /\ x.trusted = z.trusted /\ x.authOps = z.authOps /\ x.conf = z.conf
      /\ x.hist = z.hist /\ x.state = z.state /\ x.held = z.held
      /\ x.resetstream = r
  BY <1>1 DEF SessionType
<1> HIDE DEF x
<1>4. SameFlags(z, x)
  BY <1>3 DEF SameFlags
<1>5. /\ Members(x) = Members(z) /\ Ops(x) = Ops(z)
      /\ Trusteds(x) = Trusteds(z) /\ x.conf = z.conf
      /\ HasOp(x) <=> HasOp(z)
  BY <1>4, SameFlagsReads
<1>6. \A i \in 1..Len(r) : r[i].t \in StreamKinds
  <2>1. ASSUME NEW i \in 1..Len(r) PROVE r[i].t \in StreamKinds
    <3>1. CASE i = Len(z.resetstream) + 1
      BY <1>1, <3>1
    <3>2. CASE i # Len(z.resetstream) + 1
      <4>1. i \in 1..Len(z.resetstream)
        BY <1>1, <3>2
      <4> QED BY <1>1, <3>2, <4>1 DEF UInv, Clean
    <3> QED BY <3>1, <3>2
  <2> QED BY <2>1
<1>7. Live(x) <=> Live(z)
  BY <1>3 DEF Live, IsOutOfSpace
<1>8. UInv(x)
  BY <1>3, <1>5, <1>6, <1>7 DEF UInv, Clean, AgreeUsers, UsersTold
<1>9. AgreeOps(z) => AgreeOps(x)
  BY <1>3, <1>5, <1>7 DEF AgreeOps, OpsTold
<1>10. Unique(x)
  BY <1>3 DEF Unique
<1>11. CASE y = RemoveUser(x, z.initUser)
  <2>1. UInv(y) /\ HasOp(y) /\ (AgreeOps(x) => AgreeOps(y))
    BY <1>3, <1>5, <1>8, <1>10, <1>11, RemoveUserIs
  <2> QED BY <1>9, <2>1
<1>12. CASE y = x
  BY <1>5, <1>8, <1>9, <1>12
<1> QED BY <1>2, <1>11, <1>12

\* Where the end of handleClientMessage puts a message of a member
LEMMA StoreWhere ==
  ASSUME NEW z, NEW m, NEW y, y = Store(z, m),
         z.state # "Running" \/ z.initUser = NoUser,
         m.by # NoUser, z.state \in {"Initialization", "Running", "Reset"}
  PROVE  \/ y = AddToHistory(z, m)
         \/ z.state = "Reset" /\ z.initUser = m.by /\ y = AddToInitStream(z, m)
BY DEF Store, AddToInitStream

\* A drawing or chat message of a member changes no rights.
LEMMA StoreOtherIs ==
  ASSUME NEW z, CInv(z), Unique(z), UInv(z), z.state # "Shutdown",
         NEW m \in Msg, m.t \in {"Draw", "Chat"}, m.by \in Members(z),
         z.state = "Reset" /\ z.initUser = m.by => m.t \in StreamKinds,
         NEW y, y = Store(z, m)
  PROVE  /\ UInv(y)
         /\ AgreeOps(z) => AgreeOps(y)
         /\ HasOp(z) => HasOp(y)
<1>1. /\ z \in SessionType /\ Control(z) /\ Resetting(z)
  BY DEF CInv
<1>2. m.by # NoUser
  BY <1>1, MembersType, UserAssumption
<1>3. /\ z.state # "Running" \/ z.initUser = NoUser
      /\ z.state \in {"Initialization", "Running", "Reset"}
  BY <1>1 DEF Control, SessionType, States
<1>4. \/ y = AddToHistory(z, m)
      \/ z.state = "Reset" /\ z.initUser = m.by /\ y = AddToInitStream(z, m)
  BY <1>2, <1>3, StoreWhere
<1>5. CASE y = AddToHistory(z, m)
  <2>1. /\ y \in SessionType /\ SameRights(z, y)
        /\ UInv(z) => UInv(y)
        /\ AgreeOps(z) => AgreeOps(y)
    BY <1>1, <1>5, StoreOther
  <2> QED BY <2>1, SameRightsReads
<1>6. CASE z.state = "Reset" /\ z.initUser = m.by /\ y = AddToInitStream(z, m)
  BY <1>1, <1>6, StreamIs
<1> QED BY <1>4, <1>5, <1>6


\* A list of operators that a client sends: what is stored is who is operator.
LEMMA HandleOwnerIs ==
  ASSUME NEW z, CInv(z), Unique(z), UInv(z), z.state # "Shutdown",
         NEW in \in Input, in.by \in Members(z),
         z.state = "Reset" /\ z.initUser = in.by => "Owner" \in StreamKinds,
         NEW y, y = HandleOwner(z, in)
  PROVE  /\ UInv(y)
         /\ AgreeOps(z) => AgreeOps(y)
         /\ HasOp(z) => HasOp(y)
<1>1. /\ z \in SessionType /\ Control(z) /\ Resetting(z)
  BY DEF CInv
<1>2. in.by \in User /\ in.by # NoUser /\ in.ids \in SUBSET User
  BY UserAssumption DEF Input
<1> DEFINE ids == in.ids \cup {in.by}
           x == SetOperators(z, ids)
           k == KickResetter(z, x)
           m == M("Owner", in.by, Ops(x), NoConf)
<1>3. CASE ~IsOperator(z, in.by)
  <2>1. y = DirectToAll(z)
    BY <1>3 DEF HandleOwner
  <2>2. SameTold(z, y)
    BY <1>1, <2>1, DirectToAllTold
  <2> QED BY <2>2, SameToldKeeps, SameRightsReads DEF SameTold
<1>4. CASE IsOperator(z, in.by)
  <2>1. y = Store(k, m)
    BY <1>4 DEF HandleOwner
  <2>2. /\ x \in SessionType
        /\ x.state = z.state /\ x.clients = z.clients
        /\ x.initUser = z.initUser
        /\ Members(x) = Members(z)
        /\ Ops(x) = Members(z) \cap (ids \cup Mods)
        /\ UInv(z) => UInv(x)
    <3>1. ids \in SUBSET User
      BY <1>2
    <3> QED BY <1>1, <3>1, SetOperatorsIs
  <2>3. in.by \in Ops(x)
    BY <2>2
  <2> HIDE DEF x
  <2>4. /\ k \in SessionType /\ UInv(k)
        /\ Ops(k) = Ops(x)
        /\ k = x \/ k.initUser = NoUser
    BY <1>1, <2>2, <2>3, KickResetterIs
  <2>5. m \in Msg /\ m.t = "Owner" /\ m.by = in.by
    <3>1. m \in Msg
      BY <1>2, <2>2, OpsType, MType, NoConfType DEF MsgTypes, Stored
    <3> QED BY <3>1 DEF M
  <2>6. m = M("Owner", in.by, Ops(k), NoConf)
    BY <2>4
  <2> HIDE DEF k, m
  <2>7. HasOp(k)
    BY <2>3, <2>4 DEF HasOp
  <2>8. \/ y = AddToHistory(k, m)
        \/ /\ z.state = "Reset" /\ z.initUser = in.by /\ k = x
           /\ y = AddToInitStream(k, m)
    <3>1. CASE k.initUser # m.by
      BY <2>1, <3>1 DEF Store
    <3>2. CASE k.initUser = m.by
      <4>1. k = x /\ z.initUser = in.by /\ k.state = z.state
        BY <1>2, <2>2, <2>4, <2>5, <3>2
      <4>2. z.state \in {"Initialization", "Reset"}
        BY <1>1, <1>2, <4>1 DEF Control, SessionType, States
      <4> QED BY <2>1, <3>2, <4>1, <4>2 DEF Store, AddToInitStream
    <3> QED BY <3>1, <3>2
  <2>9. CASE y = AddToHistory(k, m)
    <3>1. /\ SameRights(k, y) /\ AgreeOps(y)
          /\ UInv(k) => UInv(y)
      BY <1>2, <2>4, <2>6, <2>9, StoreOps
    <3> QED BY <2>4, <2>7, <3>1, SameRightsReads
  <2>10. CASE /\ z.state = "Reset" /\ z.initUser = in.by /\ k = x
              /\ y = AddToInitStream(k, m)
    <3>1. "Owner" \in StreamKinds
      BY <2>10
    <3>2. Unique(k) /\ k.state = "Reset" /\ k.initUser \in Members(k)
      BY <2>2, <2>10 DEF Unique
    <3>3. UInv(y) /\ (HasOp(k) => HasOp(y))
      BY <2>4, <2>5, <2>10, <3>1, <3>2, StreamIs
    <3>4. AgreeOps(y)
      BY <3>1 DEF AgreeOps, OpsTold, ListsOps
    <3> QED BY <2>7, <3>3, <3>4
  <2> QED BY <2>8, <2>9, <2>10
<1> QED BY <1>3, <1>4

\* A list of trusted users that a client sends.
LEMMA HandleTrustedIs ==
  ASSUME NEW z, CInv(z), Unique(z), UInv(z), z.state # "Shutdown",
         NEW in \in Input, in.by \in Members(z),
         z.state = "Reset" /\ z.initUser = in.by => "Trusted" \in StreamKinds,
         NEW y, y = HandleTrusted(z, in)
  PROVE  /\ UInv(y)
         /\ AgreeOps(z) => AgreeOps(y)
         /\ HasOp(z) => HasOp(y)
<1>1. /\ z \in SessionType /\ Control(z) /\ Resetting(z)
  BY DEF CInv
<1>2. in.by \in User /\ in.by # NoUser /\ in.ids \in SUBSET User
  BY UserAssumption DEF Input
<1> DEFINE x == SetTrusted(z, in.ids)
           m == M("Trusted", in.by, Trusteds(x), NoConf)
<1>3. CASE ~IsOperator(z, in.by)
  <2>1. y = DirectToAll(z)
    BY <1>3 DEF HandleTrusted
  <2>2. SameTold(z, y)
    BY <1>1, <2>1, DirectToAllTold
  <2> QED BY <2>2, SameToldKeeps, SameRightsReads DEF SameTold
<1>4. CASE IsOperator(z, in.by)
  <2>1. y = Store(x, m)
    BY <1>4 DEF HandleTrusted
  <2>2. /\ x \in SessionType
        /\ x.state = z.state /\ x.hist = z.hist /\ x.clients = z.clients
        /\ x.conf = z.conf
        /\ Members(x) = Members(z) /\ Ops(x) = Ops(z)
        /\ Clean(z) => Clean(x)
        /\ HasOp(z) => HasOp(x)
    BY <1>1, <1>2, SetTrustedIs
  <2>3. x.initUser = z.initUser
    BY <1>1, <1>2, SetTrustedSame DEF SameControl
  <2>4. m \in Msg /\ m.t = "Trusted" /\ m.by = in.by
    <3>1. m \in Msg
      BY <1>2, <2>2, OpsType, MType, NoConfType DEF MsgTypes, Stored
    <3> QED BY <3>1 DEF M
  <2>5. m = M("Trusted", in.by, Trusteds(x), NoConf)
    OBVIOUS
  <2> HIDE DEF x, m
  <2>6. Live(x) <=> Live(z)
    BY <2>2 DEF Live, IsOutOfSpace
  <2>7. AgreeOps(z) => AgreeOps(x)
    BY <2>2, <2>6 DEF AgreeOps, OpsTold
  <2>8. UsersTold(x, Trusteds(z), Members(x), x.conf) /\ Clean(x)
    BY <2>2, <2>6 DEF UInv, AgreeUsers, UsersTold
  <2>9. /\ x.state # "Running" \/ x.initUser = NoUser
        /\ x.state \in {"Initialization", "Running", "Reset"}
    BY <1>1, <2>2, <2>3 DEF Control, SessionType, States
  <2>10. \/ y = AddToHistory(x, m)
         \/ x.state = "Reset" /\ x.initUser = m.by /\ y = AddToInitStream(x, m)
    BY <1>2, <2>1, <2>4, <2>9, StoreWhere
  <2>11. CASE y = AddToHistory(x, m)
    <3>1. /\ SameRights(x, y) /\ UInv(y)
          /\ AgreeOps(x) => AgreeOps(y)
      BY <1>2, <2>2, <2>5, <2>8, <2>11, StoreTrusted
    <3> QED BY <2>2, <2>7, <3>1, SameRightsReads
  <2>12. CASE x.state = "Reset" /\ x.initUser = m.by /\ y = AddToInitStream(x, m)
    <3>1. "Trusted" \in StreamKinds
      BY <2>2, <2>3, <2>4, <2>12
    <3>2. Unique(x) /\ x.initUser \in Members(x)
      BY <2>2, <2>4, <2>12 DEF Unique
    <3>3. UInv(x)
      BY <2>8, <3>1 DEF UInv, AgreeUsers, UsersTold, ListsTrusted
    <3>4. /\ UInv(y)
          /\ AgreeOps(x) => AgreeOps(y)
          /\ HasOp(x) => HasOp(y)
      BY <2>2, <2>4, <2>12, <3>1, <3>2, <3>3, StreamIs
    <3> QED BY <2>2, <2>7, <3>4
  <2> QED BY <2>10, <2>11, <2>12
<1> QED BY <1>3, <1>4

\* setSessionConfig: the settings are told; an operator who is there may even
\* close the other ways to become operator.
LEMMA SetSessionConfigIs ==
  ASSUME NEW z \in SessionType, UInv(z), NEW conf \in Conf,
         NEW setter \in User \cup {NoUser},
         NEW y, y = SetSessionConfig(z, conf, setter)
  PROVE  /\ UInv(y)
         /\ AgreeOps(z) => AgreeOps(y)
         /\ Ops(z) # {} => HasOp(y)
<1> DEFINE new == Granted(z, conf, setter)
           x == [z EXCEPT !.conf = new]
           w == SendUpdatedSessionProperties(x)
<1>1. y = DirectToAll(w)
  BY DEF SetSessionConfig
<1>2. new \in Conf
  BY GrantedType
<1> HIDE DEF new
<1>3. /\ x \in SessionType /\ x.clients = z.clients /\ x.op = z.op
      /\ x.trusted = z.trusted /\ x.authOps = z.authOps
      /\ x.hist = z.hist /\ x.state = z.state
      /\ x.resetstream = z.resetstream /\ x.held = z.held
  BY <1>2 DEF SessionType
<1> HIDE DEF x
<1>4. Members(x) = Members(z)
  BY <1>3 DEF Members
<1>5. Ops(x) = Ops(z) /\ Trusteds(x) = Trusteds(z)
  BY <1>3, <1>4 DEF Ops, Trusteds, IsOperator
<1>6. Live(x) <=> Live(z)
  BY <1>3 DEF Live, IsOutOfSpace
<1>7. UsersTold(x, Trusteds(x), Members(x), z.conf) /\ Clean(x)
  BY <1>3, <1>4, <1>5, <1>6 DEF UInv, AgreeUsers, UsersTold, Clean
<1>8. AgreeOps(z) => AgreeOps(x)
  BY <1>3, <1>5, <1>6 DEF AgreeOps, OpsTold
<1>9. Ops(z) # {} => HasOp(x)
  BY <1>5 DEF HasOp
<1>10. /\ w \in SessionType /\ UInv(w)
       /\ AgreeOps(x) => AgreeOps(w)
       /\ HasOp(x) => HasOp(w)
  BY <1>3, <1>7, SendUpdatedIs
<1> HIDE DEF w
<1>11. SameTold(w, y)
  BY <1>1, <1>10, DirectToAllTold
<1>12. HasOp(w) <=> HasOp(y)
  BY <1>11, SameRightsReads DEF SameTold
<1> QED BY <1>8, <1>9, <1>10, <1>11, <1>12, SameToldKeeps


\* What a handler makes of a session whose rights are told
Keeps(z, y) ==
  /\ UInv(y)
  /\ AgreeOps(z) => AgreeOps(y)
  /\ HasOp(z) => HasOp(y)

\* A step that tells and changes nothing
LEMMA SameToldIsKept ==
  ASSUME NEW z, NEW y, UInv(z), SameTold(z, y)
  PROVE  Keeps(z, y)
BY SameToldKeeps, SameRightsReads DEF SameTold, Keeps

\* kickUser either writes to the clients only or, if the target may be removed,
\* removes it.
LEMMA KickUserWhat ==
  ASSUME NEW z \in SessionType, NEW in \in Input, NEW y, y = KickUser(z, in)
  PROVE  \/ SameTold(z, y)
         \/ \E x \in SessionType :
              /\ SameTold(z, x)
              /\ Target(in) \in Members(z) /\ Target(in) # in.by
              /\ ~(/\ IsDeputy(z, in.by)
                   /\ IsOperator(z, Target(in)) \/ Target(in) \in z.trusted)
              /\ y = RemoveUser(x, Target(in))
<1> DEFINE target == Target(in)
           b == [z EXCEPT !.banned = @ \cup {target}]
           v == IF in.t = "ban-user" THEN b ELSE z
           x == DirectToAll(v)
<1>1. SameTold(z, DirectTo(z, {in.by}))
  BY DirectToTold
<1>2. CASE target \in User
  <2>1. b \in SessionType /\ SameTold(z, b) /\ SameTold(z, z)
    BY <1>2 DEF SessionType, SameTold, SameRights
  <2> HIDE DEF b
  <2>2. v \in SessionType /\ SameTold(z, v)
    BY <2>1
  <2> HIDE DEF v
  <2>3. x \in SessionType /\ SameTold(v, x)
    BY <2>2, DirectToAllType, DirectToAllTold
  <2>4. SameTold(z, x)
    BY <2>2, <2>3, SameRightsTrans DEF SameTold
  <2> HIDE DEF x
  <2> QED BY <1>1, <2>3, <2>4 DEF KickUser, x, v, b
<1>3. CASE target \notin User
  <2>1. target \notin z.past /\ target \notin Members(z)
    BY <1>3, MembersType DEF SessionType
  <2> QED BY <1>1, <2>1 DEF KickUser
<1> QED BY <1>2, <1>3

\* kickUser
LEMMA KickUserIs ==
  ASSUME NEW z \in SessionType, Unique(z), UInv(z), z.state # "Shutdown",
         NEW in \in Input, NEW y, y = KickUser(z, in)
  PROVE  Keeps(z, y)
<1>1. CASE SameTold(z, y)
  BY <1>1, SameToldIsKept
<1>2. CASE ~SameTold(z, y)
  <2>1. PICK x \in SessionType :
          /\ SameTold(z, x)
          /\ Target(in) \in Members(z)
          /\ y = RemoveUser(x, Target(in))
    BY <1>2, KickUserWhat
  <2>2. /\ Members(x) = Members(z) /\ Unique(x) /\ x.state # "Shutdown"
        /\ Keeps(z, x)
    BY <2>1, SameToldIsKept DEF SameTold, SameRights, Members, Unique
  <2>3. UInv(y) /\ HasOp(y) /\ (AgreeOps(x) => AgreeOps(y))
    BY <2>1, <2>2, RemoveUserIs DEF Keeps
  <2> QED BY <2>2, <2>3 DEF Keeps
<1> QED BY <1>1, <1>2

\* readyToAutoReset, removeBan and setMute change no rights.
LEMMA SmallCommandsTold ==
  ASSUME NEW z \in SessionType, NEW in \in Input
  PROVE  /\ SameTold(z, ReadyToAutoReset(z))
         /\ SameTold(z, RemoveBan(z, Target(in)))
         /\ SameTold(z, SetMute(z, in))
<1>1. SameTold(z, ReadyToAutoReset(z))
  BY DEF ReadyToAutoReset, DirectToAll, DirectTo, SameTold, SameRights, SessionType
<1>2. SameTold(z, RemoveBan(z, Target(in)))
  BY DEF RemoveBan, DirectToAll, DirectTo, SameTold, SameRights, SessionType
<1>3. SameTold(z, SetMute(z, in))
  BY DEF SetMute, DirectToAll, DirectTo, SameTold, SameRights, SessionType
<1> QED BY <1>1, <1>2, <1>3

\* Every command of a member.
LEMMA HandleCommandIs ==
  ASSUME NEW z, CInv(z), Unique(z), UInv(z), NEW in \in Input,
         in.by \in Members(z), NEW y, y = HandleCommand(z, in)
  PROVE  Keeps(z, y)
<1>1. /\ z \in SessionType /\ Control(z) /\ Resetting(z)
  BY DEF CInv
<1>2. in.by \in User /\ in.by # NoUser /\ in.conf \in Conf
  BY UserAssumption DEF Input
<1>3. /\ z.state \in {"Initialization", "Running", "Reset"}
      /\ z.clients # <<>>
  BY MembersAlive
<1>4. Keeps(z, DirectTo(z, {in.by})) /\ Keeps(z, DirectToAll(z))
  BY <1>1, DirectToTold, DirectToAllTold, SameToldIsKept
<1>5. /\ Keeps(z, ReadyToAutoReset(z))
      /\ Keeps(z, RemoveBan(z, Target(in)))
      /\ Keeps(z, SetMute(z, in))
  BY <1>1, SmallCommandsTold, SameToldIsKept
<1>6. Keeps(z, SwitchToRunning(z))
  <2> DEFINE w == SwitchToRunning(z)
  <2>1. SameFlags(z, w) /\ UInv(w) /\ (AgreeOps(z) => AgreeOps(w))
    BY <1>1, <1>3, SwitchToRunningIs
  <2> QED BY <2>1, SameFlagsReads DEF Keeps
<1>7. ASSUME NEW w, Moves(z, w) PROVE Keeps(z, w)
  BY <1>7, MovesKeeps DEF Keeps
<1>8. Keeps(z, AbortReset(z)) /\ Keeps(z, [z EXCEPT !.resetstream = <<>>])
  <2>1. Moves(z, AbortReset(z))
    BY <1>1, <1>3, AbortResetIs
  <2>2. Moves(z, [z EXCEPT !.resetstream = <<>>])
    BY <1>1 DEF Moves, SessionType
  <2> QED BY <1>7, <2>1, <2>2
<1>9. z.state = "Running" => Keeps(z, ResetSession(z, in.by))
  BY <1>1, <1>2, <1>7, ResetSessionIs
<1>10. IsOperator(z, in.by) => Keeps(z, SetSessionConfig(z, in.conf, in.by))
  <2>1. IsOperator(z, in.by) => Ops(z) # {}
    BY DEF Ops
  <2> QED BY <1>1, <1>2, <2>1, SetSessionConfigIs DEF Keeps
<1>11. Keeps(z, KickUser(z, in))
  BY <1>1, <1>3, KickUserIs
<1>12. Keeps(z, GrantOp(z, in.by))
  BY <1>1, <1>2, GrantOpIs DEF Keeps
<1>13. Keeps(z, KillSession(z))
  BY <1>1, KillSessionIs DEF Keeps
<1>14. Keeps(z, z)
  BY DEF Keeps
<1>15. in.t = "sessionconf" /\ MayRun(z, in.t, in.by) => IsOperator(z, in.by)
  BY DEF MayRun
<1> QED BY <1>4, <1>5, <1>6, <1>8, <1>9, <1>10, <1>11, <1>12, <1>13, <1>14,
           <1>15
        DEF HandleCommand

\* Every message of a member: no order of messages makes the lists wrong.
LEMMA HandleClientMessageIs ==
  ASSUME NEW z, CInv(z), Unique(z), UInv(z), NEW in \in Input,
         in.by \in Members(z),
         z.state = "Reset" /\ in.by = z.initUser /\ in.t \in Stored
           => in.t \in StreamKinds,
         NEW y, y = HandleClientMessage(z, in)
  PROVE  Keeps(z, y)
<1>1. z \in SessionType
  BY DEF CInv
<1>2. z.state # "Shutdown"
  BY MembersAlive
<1>3. in.t \in {"Draw", "Chat"} => Keeps(z, Store(z, in))
  <2> SUFFICES ASSUME in.t \in {"Draw", "Chat"} PROVE Keeps(z, Store(z, in))
    OBVIOUS
  <2>1. in \in Msg
    BY DEF Input, Msg, MsgTypes, Stored
  <2>2. z.state = "Reset" /\ z.initUser = in.by => in.t \in StreamKinds
    BY DEF Stored
  <2> QED BY <1>2, <2>1, <2>2, StoreOtherIs DEF Keeps
<1>4. in.t = "Owner" => Keeps(z, HandleOwner(z, in))
  <2> SUFFICES ASSUME in.t = "Owner" PROVE Keeps(z, HandleOwner(z, in))
    OBVIOUS
  <2>1. z.state = "Reset" /\ z.initUser = in.by => "Owner" \in StreamKinds
    BY DEF Stored
  <2> QED BY <1>2, <2>1, HandleOwnerIs DEF Keeps
<1>5. in.t = "Trusted" => Keeps(z, HandleTrusted(z, in))
  <2> SUFFICES ASSUME in.t = "Trusted" PROVE Keeps(z, HandleTrusted(z, in))
    OBVIOUS
  <2>1. z.state = "Reset" /\ z.initUser = in.by => "Trusted" \in StreamKinds
    BY DEF Stored
  <2> QED BY <1>2, <2>1, HandleTrustedIs DEF Keeps
<1>6. /\ Keeps(z, DirectToAll(z)) /\ Keeps(z, DirectTo(z, {in.by, Target(in)}))
      /\ Keeps(z, z)
  <2>1. Keeps(z, z)
    BY DEF Keeps
  <2> QED BY <1>1, <2>1, DirectToTold, DirectToAllTold, SameToldIsKept
<1>7. Keeps(z, HandleCommand(z, in))
  BY HandleCommandIs
<1> QED BY <1>3, <1>4, <1>5, <1>6, <1>7 DEF HandleClientMessage


-----------------------------------------------------------------------------
(* Users join.                                                             *)

\* joinUser: the newcomer has no rights but those of its account, and everyone
\* is told which.
LEMMA JoinUserIs ==
  ASSUME NEW z \in SessionType, RInv(z), NEW u \in User, u \notin Members(z),
         NEW host \in BOOLEAN, NEW y, y = JoinUser(z, u, host)
  PROVE  RInv(y)
<1> DEFINE C == Append(z.clients, u)
           A == z.past \ {u}
           I == IF host THEN u ELSE z.initUser
           L == IF ~host /\ z.state = "Initialization"
                THEN z.locked \cup {u} ELSE z.locked
           U == z.uploading \cup {u}
           x == [z EXCEPT !.clients = C, !.past = A, !.initUser = I,
                          !.locked = L, !.uploading = U]
           m == M("Join", u, {}, NoConf)
           joined == AddToHistory(x, m)
           opped == IF IsOperator(joined, u) \/ u \in joined.authOps
                    THEN GrantOp(joined, u) ELSE joined
           trusted == IF u \in TrustFlag \cup opped.authTrusted
                      THEN ChangeTrustedStatus(opped, u, TRUE) ELSE opped
           last == EnsureOperatorExists(trusted)
<1>1. /\ z.clients \in Seq(User) /\ Len(z.clients) \in Nat
      /\ C \in Seq(User) /\ Len(C) = Len(z.clients) + 1
      /\ C[Len(C)] = u
      /\ \A i \in 1..Len(z.clients) : C[i] = z.clients[i]
  BY LogTypes, AppendProperties
<1>2. /\ A \in SUBSET User /\ I \in User \cup {NoUser}
      /\ L \in SUBSET User /\ U \in SUBSET User
  BY DEF SessionType
<1>3. x = [z EXCEPT
             !.clients = Append(@, u), !.past = @ \ {u},
             !.initUser = IF host THEN u ELSE @,
             !.locked = IF ~host /\ z.state = "Initialization"
                        THEN @ \cup {u} ELSE @,
             !.uploading = @ \cup {u}]
  BY DEF SessionType
<1>4. y = DirectToAll(last)
  BY <1>3 DEF JoinUser
<1> HIDE DEF C, A, I, L, U
<1>5. /\ x \in SessionType /\ x.clients = C /\ x.op = z.op
      /\ x.trusted = z.trusted /\ x.conf = z.conf /\ x.authOps = z.authOps
      /\ x.state = z.state /\ x.hist = z.hist
      /\ x.resetstream = z.resetstream /\ x.held = z.held
  BY <1>1, <1>2 DEF SessionType
<1> HIDE DEF x
<1>6. Members(x) = Members(z) \cup {u}
  <2>1. Members(x) = {C[i] : i \in 1..Len(C)}
    BY <1>5 DEF Members
  <2>2. ASSUME NEW i \in 1..Len(C) PROVE C[i] \in Members(z) \cup {u}
    <3>1. CASE i = Len(C)
      BY <1>1, <3>1
    <3>2. CASE i # Len(C)
      <4>1. i \in 1..Len(z.clients)
        BY <1>1, <3>2
      <4> QED BY <1>1, <4>1 DEF Members
    <3> QED BY <3>1, <3>2
  <2>3. u \in Members(x)
    <3>1. Len(C) \in 1..Len(C)
      BY <1>1
    <3> QED BY <1>1, <2>1, <3>1
  <2>4. ASSUME NEW v \in Members(z) PROVE v \in Members(x)
    <3>1. PICK i \in 1..Len(z.clients) : z.clients[i] = v
      BY DEF Members
    <3>2. i \in 1..Len(C) /\ C[i] = v
      BY <1>1, <3>1
    <3> QED BY <2>1, <3>2
  <2> QED BY <2>1, <2>2, <2>3, <2>4
<1>7. /\ Ops(x) = Ops(z) \cup ({u} \cap Mods) /\ Trusteds(x) = Trusteds(z)
      /\ Clean(x)
  <2>1. z.op \subseteq Members(z) /\ z.trusted \subseteq Members(z)
    BY DEF RInv, UInv, Clean
  <2>2. Clean(x)
    BY <1>5, <1>6 DEF RInv, UInv, Clean
  <2> QED BY <1>5, <1>6, <2>1, <2>2 DEF Ops, Trusteds, IsOperator
<1>8. Live(x) <=> Live(z)
  BY <1>5 DEF Live, IsOutOfSpace
<1>9. OpsTold(x, Ops(z)) /\ UsersTold(x, Trusteds(z), Members(z), z.conf)
  BY <1>5, <1>8 DEF RInv, UInv, AgreeOps, AgreeUsers, OpsTold, UsersTold
<1>10. m \in Msg /\ m.t = "Join" /\ m.by = u
  <2>1. m \in Msg
    BY MType, NoConfType DEF MsgTypes
  <2> QED BY <2>1 DEF M
<1> HIDE DEF m
<1>11. joined \in SessionType /\ SameRights(x, joined)
  BY <1>5, <1>10, AddToHistoryIs
<1>12. /\ OpsTold(joined, Ops(z))
       /\ UsersTold(joined, Trusteds(z), Members(z) \cup {u}, z.conf)
  <2>1. \A O : OpsTold(x, O) => OpsTold(joined, O)
    BY <1>5, <1>10, AddTells
  <2>2. \A T, J, D : UsersTold(x, T, J, D) =>
          (m.t = "Join" => UsersTold(joined, T, J \cup {m.by}, D))
    BY <1>5, <1>10, AddTells
  <2>3. \A T, J, D : UsersTold(x, T, J, D) => UsersTold(joined, T, J \cup {u}, D)
    BY ONLY <1>10, <2>2, Zenon
  <2> QED BY <1>9, <2>1, <2>3
<1> HIDE DEF joined
<1>13. /\ Members(joined) = Members(z) \cup {u} /\ Ops(joined) = Ops(x)
       /\ Trusteds(joined) = Trusteds(z) /\ joined.conf = z.conf
       /\ Clean(joined)
  BY <1>5, <1>6, <1>7, <1>11, SameRightsReads
<1>14. UInv(joined)
  BY <1>12, <1>13 DEF UInv, AgreeUsers
<1>15. opped \in SessionType /\ UInv(opped) /\ AgreeOps(opped)
  <2>1. CASE opped = GrantOp(joined, u)
    BY <1>11, <1>14, <2>1, GrantOpIs
  <2>2. CASE opped = joined /\ ~IsOperator(joined, u)
    <3>1. u \notin Mods
      BY <2>2 DEF IsOperator
    <3>2. Ops(joined) = Ops(z)
      BY <1>7, <1>13, <3>1
    <3> QED BY <1>11, <1>12, <1>14, <2>2, <3>2 DEF AgreeOps
  <2> QED BY <2>1, <2>2
<1> HIDE DEF opped
<1>16. trusted \in SessionType /\ UInv(trusted) /\ AgreeOps(trusted)
  <2>1. CASE trusted = opped
    BY <1>15, <2>1
  <2>2. CASE trusted = ChangeTrustedStatus(opped, u, TRUE)
    <3>1. PICK t \in BOOLEAN : trusted = ChangeTrustedStatus(opped, u, t)
      BY <2>2
    <3> QED BY <1>15, <3>1, ChangeTrustedStatusIs
  <2> QED BY <2>1, <2>2
<1> HIDE DEF trusted
<1>17. last \in SessionType /\ UInv(last) /\ AgreeOps(last) /\ HasOp(last)
  BY <1>16, EnsureOperatorExistsIs
<1> HIDE DEF last
<1>18. SameTold(last, y) /\ RInv(last)
  BY <1>4, <1>17, DirectToAllTold DEF RInv
<1> QED BY <1>18, SameToldKeeps

\* A session that nobody has joined
LEMMA EmptySessionRights == RInv(EmptySession)
<1> DEFINE z == EmptySession
<1>1. /\ z.clients = <<>> /\ z.hist = <<>> /\ z.op = {} /\ z.trusted = {}
      /\ z.resetstream = <<>> /\ z.conf = DefaultConf
      /\ z.held = [u \in User |-> <<>>]
  BY DEF EmptySession
<1>2. \A u \in User : z.held[u] = <<>>
  BY <1>1
<1> HIDE DEF z
<1>3. Len(<<>>) = 0 /\ 1..0 = {}
  OBVIOUS
<1>4. Members(z) = {}
  BY <1>1, <1>3 DEF Members
<1>5. Ops(z) = {} /\ Trusteds(z) = {}
  BY <1>4 DEF Ops, Trusteds
<1>6. Clean(z)
  <2>1. ASSUME NEW u \in User, NEW i \in 1..Len(z.held[u]) PROVE FALSE
    <3>1. Len(z.held[u]) = 0
      BY <1>2, <1>3
    <3> QED BY <1>3, <2>1, <3>1
  <2> QED BY <1>1, <1>3, <2>1 DEF Clean
<1>7. \A t : ListedBy(z.hist, t) = {}
  BY <1>1, <1>3 DEF ListedBy
<1>8. JoinedBy(z.hist) = {} /\ ConfOf(z.hist) = DefaultConf
  BY <1>1, <1>3 DEF JoinedBy, ConfOf
<1>9. HasOp(z)
  BY <1>1 DEF HasOp
<1>10. RInv(z)
  BY <1>1, <1>4, <1>5, <1>6, <1>7, <1>8, <1>9
     DEF RInv, UInv, AgreeUsers, UsersTold, AgreeOps, OpsTold
<1> QED BY <1>10 DEF z

-----------------------------------------------------------------------------
(* The actions.                                                            *)

\* A handler that keeps the rights told keeps the invariant.
LEMMA KeepsRInv ==
  ASSUME NEW z, NEW y, RInv(z), Keeps(z, y)
  PROVE  RInv(y)
BY DEF RInv, Keeps

\* Messages are held for their own sender.
LEMMA HoldQueues ==
  ASSUME NEW z \in SessionType, UInv(z), NEW H,
         \A u \in User : \A i \in 1..Len(H[u]) : H[u][i].by = u,
         NEW y, y = [z EXCEPT !.held = H]
  PROVE  /\ Keeps(z, y) /\ SameFlags(z, y) /\ y.hist = z.hist
         /\ y.state = z.state
<1>1. /\ y.clients = z.clients /\ y.op = z.op /\ y.trusted = z.trusted
      /\ y.authOps = z.authOps /\ y.conf = z.conf /\ y.hist = z.hist
      /\ y.state = z.state /\ y.resetstream = z.resetstream /\ y.held = H
  BY DEF SessionType
<1>2. SameFlags(z, y)
  BY <1>1 DEF SameFlags
<1>3. /\ Members(y) = Members(z) /\ Ops(y) = Ops(z)
      /\ Trusteds(y) = Trusteds(z) /\ y.conf = z.conf
      /\ HasOp(y) <=> HasOp(z)
  BY <1>2, SameFlagsReads
<1>4. Live(y) <=> Live(z)
  BY <1>1 DEF Live, IsOutOfSpace
<1>5. Clean(y)
  BY <1>1, <1>3 DEF UInv, Clean
<1>6. UInv(y)
  BY <1>1, <1>3, <1>4, <1>5 DEF UInv, AgreeUsers, UsersTold
<1>7. AgreeOps(z) => AgreeOps(y)
  BY <1>1, <1>3, <1>4 DEF AgreeOps, OpsTold
<1> QED BY <1>1, <1>2, <1>3, <1>6, <1>7 DEF Keeps


\* A step of the release: a held message is its own client's.
LEMMA ReleaseHeldRights ==
  ASSUME CInv(s), Unique(s), RInv(s), ReleaseHeld
  PROVE  RInv(s')
<1> DEFINE u == NextLocked
           h == s.held[u]
           y == [s EXCEPT !.locked = @ \ {u}]
           H == [s.held EXCEPT ![u] = Tail(h)]
           x == [s EXCEPT !.held = H]
<1>1. /\ s \in SessionType /\ Control(s) /\ s.releasing
      /\ s.state = "Initialization"
  BY DEF CInv, Control, ReleaseHeld
<1>2. u \in Members(s)
  BY <1>1, NextLockedIsLocked
<1>3. s' = IF h # <<>> THEN HandleClientMessage(x, Head(h))
           ELSE IF y.locked \cap Members(y) # {} THEN y
           ELSE [y EXCEPT !.state = "Running", !.releasing = FALSE]
  BY <1>1 DEF ReleaseHeld, SessionType
<1>4. CASE h # <<>>
  <2>1. /\ u \in User
        /\ Head(h) \in Input /\ Head(h) = h[1] /\ 1 \in 1..Len(h)
        /\ H[u] = Tail(h) /\ \A v \in User \ {u} : H[v] = s.held[v]
        /\ \A i \in 1..Len(Tail(h)) :
             i + 1 \in 1..Len(h) /\ Tail(h)[i] = h[i + 1]
        /\ CInv(x) /\ x.releasing
    <3>1. /\ u = NextLocked /\ h = s.held[u]
          /\ H = [s.held EXCEPT ![u] = Tail(h)] /\ x = [s EXCEPT !.held = H]
      OBVIOUS
    <3> HIDE DEF u, h, H, x
    <3>2. u \in User /\ Head(h) \in Input /\ CInv(x) /\ x.releasing
      BY <1>1, <1>4, <3>1, TakeHeld
    <3>3. Head(h) = h[1] /\ 1 \in 1..Len(h)
      BY <1>1, <1>4, <3>1, TakeHeld
    <3>4. H[u] = Tail(h) /\ \A v \in User \ {u} : H[v] = s.held[v]
      <4>1. s.held \in [User -> Seq(Input)]
        BY <1>1 DEF SessionType
      <4> QED BY <3>1, <3>2, <4>1
    <3>5. \A i \in 1..Len(Tail(h)) :
            i + 1 \in 1..Len(h) /\ Tail(h)[i] = h[i + 1]
      BY <1>1, <1>4, <3>1, TakeHeld
    <3> QED BY <3>2, <3>3, <3>4, <3>5
  <2>2. \A v \in User : \A i \in 1..Len(s.held[v]) : s.held[v][i].by = v
    BY DEF RInv, UInv, Clean
  <2> HIDE DEF u
  <2>3. Head(h).by = u
    BY <2>1, <2>2
  <2>4. ASSUME NEW v \in User, NEW i \in 1..Len(H[v]) PROVE H[v][i].by = v
    <3> HIDE DEF H
    <3>1. CASE v = u
      <4>1. i + 1 \in 1..Len(h) /\ H[v][i] = h[i + 1]
        BY <2>1, <2>4, <3>1
      <4> QED BY <2>1, <2>2, <3>1, <4>1
    <3>2. CASE v # u
      BY <2>1, <2>2, <2>4, <3>2
    <3> QED BY <3>1, <3>2
  <2> HIDE DEF H
  <2>5. Keeps(s, x) /\ SameFlags(s, x) /\ x.state = s.state
    BY <1>1, <2>4, HoldQueues DEF RInv
  <2>6. RInv(x) /\ UInv(x)
    BY <2>5, KeepsRInv DEF Keeps
  <2>7. Unique(x) /\ Members(x) = Members(s)
    BY <2>5 DEF SameFlags, Unique, Members
  <2>8. x.state # "Reset"
    BY <1>1, <2>5
  <2> HIDE DEF x, h
  <2>9. Keeps(x, HandleClientMessage(x, Head(h)))
    BY <1>2, <2>1, <2>3, <2>6, <2>7, <2>8, HandleClientMessageIs
  <2> QED BY <1>3, <1>4, <2>6, <2>9, KeepsRInv
<1>5. CASE h = <<>>
  <2>1. y \in SessionType /\ Moves(s, y) /\ y.state = "Initialization"
    BY <1>1 DEF SessionType, Moves
  <2> DEFINE w == [y EXCEPT !.state = "Running", !.releasing = FALSE]
  <2>2. s' = y \/ s' = w
    BY <1>3, <1>5
  <2> HIDE DEF y
  <2>3. Moves(y, w)
    BY <2>1 DEF SessionType, Moves
  <2> QED BY <2>1, <2>2, <2>3, MovesKeeps
<1> QED BY <1>4, <1>5

\* A message is put into the hold queue of its sender, or handled.
LEMMA ReceiveRights ==
  ASSUME CInv(s), Unique(s), RInv(s), NEW in \in Input, Receive(in)
  PROVE  RInv(s')
<1>1. /\ s \in SessionType /\ in.by \in Members(s) /\ in.by \in User
  BY MembersType DEF CInv, Receive
<1>2. CASE in.by \notin s.locked
  <2>1. s' = HandleClientMessage(s, in)
    BY <1>2 DEF Receive
  <2>2. s.state = "Reset" /\ in.by = s.initUser /\ in.t \in Stored
          => in.t \in StreamKinds
    BY DEF Receive
  <2>3. Keeps(s, HandleClientMessage(s, in))
    BY <1>1, <2>2, HandleClientMessageIs DEF RInv
  <2> QED BY <2>1, <2>3, KeepsRInv
<1>3. CASE in.by \in s.locked
  <2> DEFINE u == in.by
             h == s.held[u]
             H == [s.held EXCEPT ![u] = Append(h, in)]
             x == [s EXCEPT !.held = H]
  <2>1. s.held \in [User -> Seq(Input)] /\ h \in Seq(Input)
        /\ Len(h) \in Nat
    BY <1>1 DEF SessionType
  <2>2. s' = x
    BY <1>1, <1>3 DEF Receive, SessionType
  <2>3. /\ Append(h, in) \in Seq(Input) /\ Len(Append(h, in)) = Len(h) + 1
        /\ \A i \in 1..Len(h) : Append(h, in)[i] = h[i]
        /\ Append(h, in)[Len(h) + 1] = in
    BY <2>1, AppendProperties
  <2>4. H[u] = Append(h, in) /\ \A v \in User \ {u} : H[v] = s.held[v]
    BY <1>1, <2>1, <2>3
  <2>5. \A v \in User : \A i \in 1..Len(s.held[v]) : s.held[v][i].by = v
    BY DEF RInv, UInv, Clean
  <2> HIDE DEF H
  <2>6. ASSUME NEW v \in User, NEW i \in 1..Len(H[v]) PROVE H[v][i].by = v
    <3>1. CASE v = u
      <4>1. i \in 1..Len(h) \/ i = Len(h) + 1
        BY <2>1, <2>3, <2>4, <2>6, <3>1
      <4>2. CASE i \in 1..Len(h)
        <5>1. H[v][i] = s.held[v][i] /\ i \in 1..Len(s.held[v])
          BY <2>3, <2>4, <3>1, <4>2
        <5> QED BY <2>5, <5>1
      <4>3. CASE i = Len(h) + 1
        BY <2>3, <2>4, <3>1, <4>3
      <4> QED BY <4>1, <4>2, <4>3
    <3>2. CASE v # u
      BY <2>4, <2>5, <2>6, <3>2
    <3> QED BY <3>1, <3>2
  <2>7. Keeps(s, x)
    BY <1>1, <2>6, HoldQueues DEF RInv
  <2> QED BY <2>2, <2>7, KeepsRInv
<1> QED BY <1>2, <1>3

\* Everything the administrator may do to a client.
LEMMA AdminClientRights ==
  ASSUME CInv(s), Unique(s), RInv(s), NEW u \in User, NEW call,
         AdminClient(u, call)
  PROVE  RInv(s')
<1>1. /\ s \in SessionType /\ u \in Members(s) /\ UInv(s)
  BY DEF CInv, AdminClient, RInv
<1>2. s.state # "Shutdown"
  BY <1>1, MembersAlive
<1>3. CASE s' = GrantOp(s, u)
  BY <1>1, <1>3, GrantOpIs DEF RInv
<1>4. CASE s' = RevokeOp(s, u) /\ call = "deop"
  <2>1. "deop" \in AdminKinds
    BY <1>4 DEF AdminClient
  <2>2. UInv(s')
    BY <1>1, <1>2, <1>4, RevokeOpUsers
  <2> QED BY <2>1, <2>2 DEF RInv, AgreeOps, OpsTold, ListsOps, HandsOff
<1>5. ASSUME NEW b \in BOOLEAN, s' = ChangeTrustedStatus(s, u, b)
      PROVE  RInv(s')
  BY <1>1, <1>5, ChangeTrustedStatusIs DEF RInv
<1>6. CASE s' = RemoveUser(s, u)
  BY <1>1, <1>2, <1>6, RemoveUserIs DEF RInv
<1>7. \/ s' = GrantOp(s, u)
      \/ s' = RevokeOp(s, u) /\ call = "deop"
      \/ \E b \in BOOLEAN : s' = ChangeTrustedStatus(s, u, b)
      \/ s' = RemoveUser(s, u)
  BY DEF AdminClient
<1> QED BY <1>3, <1>4, <1>5, <1>6, <1>7

\* Every step keeps the invariant.
LEMMA NextRights ==
  ASSUME CInv(s), Unique(s), RInv(s), [Next]_vars
  PROVE  RInv(s')
<1>1. s \in SessionType /\ UInv(s)
  BY DEF CInv, RInv
<1>2. ASSUME NEW u \in User, Join(u) PROVE RInv(s')
  <2>1. PICK host \in BOOLEAN :
          u \notin Members(s) /\ s' = JoinUser(s, u, host)
    BY <1>2 DEF Join, MayJoin
  <2> QED BY <1>1, <2>1, JoinUserIs
<1>3. ASSUME NEW u \in User, Disconnect(u) PROVE RInv(s')
  <2>1. u \in Members(s) /\ s' = RemoveUser(s, u)
    BY <1>3 DEF Disconnect
  <2>2. s.state # "Shutdown"
    BY <2>1, MembersAlive
  <2> QED BY <1>1, <2>1, <2>2, RemoveUserIs DEF RInv
<1>4. ASSUME NEW in \in Inputs, Receive(in) PROVE RInv(s')
  BY <1>4, InputsType, ReceiveRights
<1>5. CASE ReleaseHeld
  BY <1>5, ReleaseHeldRights
<1>6. ASSUME NEW u \in User, AllSent(u) PROVE RInv(s')
  <2> DEFINE y == [s EXCEPT !.uploading = @ \ {u}]
  <2>1. y \in SessionType /\ SameTold(s, y)
    BY <1>1 DEF SessionType, SameTold, SameRights
  <2>2. s' = SendNextHistoryBatch(y, {u})
    BY <1>6 DEF AllSent
  <2> HIDE DEF y
  <2> QED BY <2>1, <2>2, SendNextTold, SameToldKeeps
<1>7. ASSUME NEW u \in User, Ping(u) PROVE RInv(s')
  BY <1>1, <1>7, DirectToTold, SameToldKeeps DEF Ping
<1>8. ASSUME NEW u \in User, NEW call \in AdminTypes, AdminClient(u, call)
      PROVE  RInv(s')
  BY <1>8, AdminClientRights
<1>9. ASSUME NEW conf \in ConfChoices, AdminConf(conf) PROVE RInv(s')
  <2>1. /\ conf \in Conf /\ "conf" \in AdminKinds
        /\ s' = SetSessionConfig(s, conf, NoUser)
    BY <1>9, ConfChoicesType DEF AdminConf
  <2>2. UInv(s') /\ (AgreeOps(s) => AgreeOps(s'))
    BY <1>1, <2>1, SetSessionConfigIs
  <2> QED BY <2>1, <2>2 DEF RInv, HandsOff
<1>10. CASE AdminKill
  BY <1>1, <1>10, KillSessionIs DEF AdminKill, RInv
<1>11. CASE UNCHANGED vars
  BY <1>11 DEF vars
<1> QED BY <1>2, <1>3, <1>4, <1>5, <1>6, <1>7, <1>8, <1>9, <1>10, <1>11
        DEF Next

-----------------------------------------------------------------------------
(* The theorems.                                                           *)

\* The invariant holds at every moment of a session: what the history tells of
\* the members, of the rights and of the settings is what the server acts on
\* (addToHistory, updateOwnership, serverSideStateMessages), not only while the
\* session runs, and who is not there has no rights (joinUser, removeUser).
THEOREM RightsAreTold == Spec => []RInv(s)
<1>1. Init => RInv(s)
  <2> SUFFICES ASSUME NEW u \in User, s = JoinUser(EmptySession, u, TRUE)
               PROVE  RInv(s)
    BY DEF Init
  <2>1. PICK host \in BOOLEAN : s = JoinUser(EmptySession, u, host)
    OBVIOUS
  <2>2. Members(EmptySession) = {}
    <3>1. EmptySession.clients = <<>>
      BY DEF EmptySession
    <3>2. Len(<<>>) = 0 /\ 1..0 = {}
      OBVIOUS
    <3> QED BY <3>1, <3>2 DEF Members
  <2> QED BY <2>1, <2>2, EmptySessionType, EmptySessionRights, JoinUserIs
<1>2. CInv(s) /\ HInv(s) /\ RInv(s) /\ [Next]_vars => RInv(s)'
  <2> SUFFICES ASSUME CInv(s), HInv(s), RInv(s), [Next]_vars PROVE RInv(s')
    OBVIOUS
  <2> QED BY NextRights DEF HInv, LInv
<1> QED BY <1>1, <1>2, SessionHistoryInOrder, PTL DEF Spec

\* Who has read the history knows who is operator on the server, for every set
\* of users and any limits and settings (changeOpStatus, updateOwnership,
\* serverSideStateMessages, removeUser), if no administrator demotes operators
\* and no image that is uploaded contains a list of its own: with either the
\* runs show that a list can be out of date.
THEOREM OperatorsAreKnown ==
  ASSUME "deop" \notin AdminKinds, "Owner" \notin StreamKinds
  PROVE  Spec => []OpsAgree
<1>1. RInv(s) => OpsAgree
  BY DEF RInv, AgreeOps, OpsTold, Live, ListsOps, OpsAgree, Informed
<1> QED BY <1>1, RightsAreTold, PTL

\* The same for the trusted users, the members and the settings
\* (changeTrustedStatus, updateTrustedUsers, joinUser, removeUser,
\* sendUpdatedSessionProperties), whatever the administrator does.
THEOREM UsersAreKnown ==
  ASSUME "Trusted" \notin StreamKinds
  PROVE  Spec => []UsersAgree
<1>1. RInv(s) => UsersAgree
  BY DEF RInv, UInv, AgreeUsers, UsersTold, Live, ListsTrusted, UsersAgree, Informed
<1> QED BY <1>1, RightsAreTold, PTL

\* A session that an administrator neither takes operators nor settings from
\* is never without an operator, or a way to become one
\* (ensureOperatorExists): whoever leaves, is kicked, or gives up the rights.
THEOREM AlwaysAnOperator ==
  ASSUME "deop" \notin AdminKinds, "conf" \notin AdminKinds
  PROVE  Spec => []OperatorExists
<1>1. RInv(s) => OperatorExists
  BY DEF RInv, HandsOff, HasOp, OperatorExists
<1> QED BY <1>1, RightsAreTold, PTL


-----------------------------------------------------------------------------
(* What a client that is not operator can do.                              *)

\* What NoEscalation says of a message of u, for any two sessions
Harmless(z, y, u) ==
  /\ y.conf = z.conf
  /\ Ops(y) \subseteq Ops(z) \cup (IF "opword" \in z.conf.flags THEN {u} ELSE {})
                             \cup (IF HasOp(z) THEN {} ELSE {Head(y.clients)})
  /\ Ops(z) \cup Trusteds(z) \subseteq Members(y)

\* Who has the same flags has not gained or lost anything.
LEMMA SameFlagsHarmless ==
  ASSUME NEW z, NEW y, NEW u, SameFlags(z, y)
  PROVE  Harmless(z, y, u)
<1>1. Members(y) = Members(z) /\ Ops(y) = Ops(z) /\ y.conf = z.conf
  BY SameFlagsReads
<1>2. Ops(z) \cup Trusteds(z) \subseteq Members(z)
  BY DEF Ops, Trusteds
<1> QED BY <1>1, <1>2 DEF Harmless

\* A deputy's kick: nobody with rights is removed, and only in a session that
\* lacks an operator is anyone promoted.
LEMMA KickIsHarmless ==
  ASSUME NEW z \in SessionType, Unique(z), UInv(z), z.state # "Shutdown",
         NEW in \in Input, in.by \in Members(z), IsDeputy(z, in.by),
         NEW y, y = KickUser(z, in)
  PROVE  Harmless(z, y, in.by)
<1>1. CASE SameTold(z, y)
  BY <1>1, SameFlagsHarmless DEF SameTold, SameRights, SameFlags
<1>2. CASE ~SameTold(z, y)
  <2> DEFINE t == Target(in)
  <2>1. PICK x \in SessionType :
          /\ SameTold(z, x) /\ t \in Members(z) /\ t # in.by
          /\ ~IsOperator(z, t) /\ t \notin z.trusted
          /\ y = RemoveUser(x, t)
    BY <1>2, KickUserWhat
  <2> HIDE DEF t
  <2>2. /\ Members(x) = Members(z) /\ Ops(x) = Ops(z)
        /\ Trusteds(x) = Trusteds(z) /\ x.conf = z.conf
        /\ x.authOps = z.authOps
    BY <2>1, SameRightsReads DEF SameTold, SameRights
  <2>3. Unique(x) /\ x.state # "Shutdown" /\ UInv(x)
    BY <2>1, SameToldKeeps DEF SameTold, SameRights, Unique
  <2>4. Members(x) # {t}
    BY <2>1, <2>2
  <2>5. /\ Members(y) = Members(x) \ {t} /\ y.conf = x.conf
        /\ \/ Ops(y) = Ops(x) \ {t}
           \/ /\ "opword" \notin x.conf.flags /\ x.authOps = {}
              /\ Ops(x) \ {t} = {}
              /\ Ops(y) \subseteq {Head(y.clients)}
    BY <2>1, <2>2, <2>3, <2>4, RemoveUserIs
  <2>6. t \notin Ops(z) /\ t \notin Trusteds(z)
    BY <2>1 DEF Ops, Trusteds
  <2>7. Ops(z) \cup Trusteds(z) \subseteq Members(y)
    BY <2>2, <2>5, <2>6 DEF Ops, Trusteds
  <2>8. CASE Ops(y) = Ops(x) \ {t}
    BY <2>2, <2>5, <2>7, <2>8 DEF Harmless
  <2>9. CASE /\ "opword" \notin x.conf.flags /\ x.authOps = {}
             /\ Ops(x) \ {t} = {}
             /\ Ops(y) \subseteq {Head(y.clients)}
    <3>1. z.clients # <<>>
      BY NotAlone
    <3>2. Ops(z) = {}
      BY <2>2, <2>6, <2>9
    <3>3. ~HasOp(z)
      BY <2>2, <2>9, <3>1, <3>2 DEF HasOp
    <3> QED BY <2>2, <2>5, <2>7, <2>9, <3>3 DEF Harmless
  <2> QED BY <2>5, <2>8, <2>9
<1> QED BY <1>1, <1>2

\* Every message of a member that is not operator.
LEMMA MessageIsHarmless ==
  ASSUME NEW z, CInv(z), Unique(z), UInv(z), NEW in \in Input,
         in.by \in Members(z), ~IsOperator(z, in.by),
         NEW y, y = HandleClientMessage(z, in)
  PROVE  Harmless(z, y, in.by)
<1>1. z \in SessionType /\ Control(z) /\ Resetting(z)
  BY DEF CInv
<1>2. in.by \in User /\ in.by # NoUser
  BY UserAssumption DEF Input
<1>3. z.state \in {"Initialization", "Running", "Reset"}
  BY MembersAlive
<1>4. ASSUME NEW w, SameTold(z, w) PROVE Harmless(z, w, in.by)
  BY <1>4, SameFlagsHarmless DEF SameTold, SameRights, SameFlags
<1>5. /\ Harmless(z, DirectToAll(z), in.by)
      /\ Harmless(z, DirectTo(z, {in.by}), in.by)
      /\ Harmless(z, DirectTo(z, {in.by, Target(in)}), in.by)
      /\ Harmless(z, z, in.by)
  <2>1. SameTold(z, z)
    BY DEF SameTold, SameRights
  <2> QED BY <1>1, <1>4, <2>1, DirectToTold, DirectToAllTold
<1>6. in.t \in {"Draw", "Chat"} => Harmless(z, Store(z, in), in.by)
  <2> SUFFICES ASSUME in.t \in {"Draw", "Chat"}
               PROVE  Harmless(z, Store(z, in), in.by)
    OBVIOUS
  <2>1. in \in Msg
    BY DEF Input, Msg, MsgTypes, Stored
  <2>2. ~(z.state = "Reset" /\ z.initUser = in.by)
    BY <1>1 DEF Resetting, Ops
  <2>3. z.state # "Running" \/ z.initUser = NoUser
    BY <1>1 DEF Control
  <2> DEFINE w == Store(z, in)
  <2>4. w = AddToHistory(z, in)
    BY <1>2, <1>3, <2>2, <2>3, StoreWhere
  <2> HIDE DEF w
  <2>5. SameRights(z, w)
    BY <1>1, <2>1, <2>4, AddToHistoryIs
  <2>6. SameFlags(z, w)
    BY <2>5 DEF SameRights, SameFlags
  <2> QED BY <2>6, SameFlagsHarmless DEF w
<1>7. HandleOwner(z, in) = DirectToAll(z) /\ HandleTrusted(z, in) = DirectToAll(z)
  BY DEF HandleOwner, HandleTrusted
<1>8. Harmless(z, HandleCommand(z, in), in.by)
  <2>1. CASE ~MayRun(z, in.t, in.by)
    BY <1>5, <2>1 DEF HandleCommand
  <2>2. CASE in.t = "gain-op"
    <3>1. CASE "opword" \notin z.conf.flags
      <4>1. HandleCommand(z, in) = DirectTo(z, {in.by})
        BY <2>2, <3>1 DEF HandleCommand
      <4> QED BY <1>5, <4>1
    <3>2. CASE "opword" \in z.conf.flags
      <4> DEFINE w == GrantOp(z, in.by)
      <4>1. HandleCommand(z, in) = w
        BY <2>2, <3>2 DEF HandleCommand, MayRun
      <4>2. /\ w.conf = z.conf /\ Members(w) = Members(z)
            /\ Ops(w) = Ops(z) \cup ({in.by} \cap Members(z))
        BY <1>1, <1>2, GrantOpIs
      <4> HIDE DEF w
      <4>3. Ops(z) \cup Trusteds(z) \subseteq Members(z)
        BY DEF Ops, Trusteds
      <4> QED BY <3>2, <4>1, <4>2, <4>3 DEF Harmless
    <3> QED BY <3>1, <3>2
  <2>3. CASE in.t \in {"kick-user", "ban-user"} /\ MayRun(z, in.t, in.by)
    <3>1. IsDeputy(z, in.by)
      BY <2>3 DEF MayRun
    <3>2. HandleCommand(z, in) = KickUser(z, in)
      BY <2>3 DEF HandleCommand
    <3> QED BY <1>1, <1>3, <3>1, <3>2, KickIsHarmless
  <2>4. MayRun(z, in.t, in.by) => in.t \in {"gain-op", "kick-user", "ban-user"}
    BY DEF MayRun, IsOperator
  <2> QED BY <2>1, <2>2, <2>3, <2>4
<1> QED BY <1>5, <1>6, <1>7, <1>8 DEF HandleClientMessage

\* No message of a client that is not operator changes a setting, removes
\* somebody with rights, or makes an operator, but for the operator password
\* and the promotion in a session without operator (SrvCommand::Mode, kickUser,
\* handleClientMessage): for every set of users and every message they can
\* send, in every state of the session.
THEOREM NobodyEscalates == Spec => NoEscalation
<1>1. ASSUME CInv(s), HInv(s), RInv(s), NEW in \in Inputs,
             ~IsOperator(s, in.by), Receive(in)
      PROVE  Harmless(s, s', in.by)
  <2>1. /\ s \in SessionType /\ Unique(s) /\ UInv(s) /\ in \in Input
        /\ in.by \in Members(s) /\ in.by \in User
    BY <1>1, InputsType, MembersType DEF CInv, HInv, LInv, RInv, Receive
  <2>2. CASE in.by \notin s.locked
    <3>1. s' = HandleClientMessage(s, in)
      BY <1>1, <2>2 DEF Receive
    <3> QED BY <1>1, <2>1, <3>1, MessageIsHarmless
  <2>3. CASE in.by \in s.locked
    <3> DEFINE H == [s.held EXCEPT ![in.by] = Append(@, in)]
    <3>1. s' = [s EXCEPT !.held = H]
      BY <1>1, <2>1, <2>3 DEF Receive, SessionType
    <3> HIDE DEF H
    <3>2. SameFlags(s, s')
      BY <2>1, <3>1 DEF SessionType, SameFlags
    <3> QED BY <3>2, SameFlagsHarmless
  <2> QED BY <2>2, <2>3
<1> DEFINE Step == \A in \in Inputs :
             ~IsOperator(s, in.by) /\ Receive(in) =>
               /\ s'.conf = s.conf
               /\ Ops(s') \subseteq
                    Ops(s) \cup (IF "opword" \in s.conf.flags THEN {in.by} ELSE {})
                           \cup (IF OperatorExists THEN {} ELSE {Head(s'.clients)})
               /\ Ops(s) \cup Trusteds(s) \subseteq Members(s')
<1>2. CInv(s) /\ HInv(s) /\ RInv(s) => Step
  <2>1. OperatorExists <=> HasOp(s)
    BY DEF OperatorExists, HasOp
  <2> QED BY <1>1, <2>1 DEF Harmless
<1> QED BY <1>2, SessionHistoryInOrder, RightsAreTold, PTL DEF NoEscalation


=============================================================================
