--------------------------- MODULE SessionProofs ---------------------------
(* Session's invariants hold for every set of users and every bound.  Each  *)
(* operator of Session takes the session to a session, so there is one lemma *)
(* for each operator, in the order of the calls, and one case per action.   *)
EXTENDS Session, SequenceTheorems, WellFoundedInduction, TLAPS

-----------------------------------------------------------------------------
(* Every operator keeps the type of the session.                           *)

\* The empty sequence has every type (stated once: the backends miss it in
\* large contexts).
LEMMA EmptyType ==
  <<>> \in Seq(Msg) /\ <<>> \in Seq(Input) /\ <<>> \in Seq(User)
OBVIOUS

\* Members are users.
LEMMA MembersType ==
  ASSUME NEW z \in SessionType
  PROVE  Members(z) \in SUBSET User
<1>1. z.clients \in Seq(User)
  BY DEF SessionType
<1> QED BY <1>1 DEF Members

\* Messages made by the server are messages.
LEMMA MType ==
  ASSUME NEW t \in MsgTypes, NEW by \in User \cup {NoUser},
         NEW ids \in SUBSET User, NEW conf \in Conf
  PROVE  M(t, by, ids, conf) \in Msg
BY DEF M, Msg

\* A message about no settings carries none.
LEMMA NoConfType == NoConf \in Conf
BY DEF NoConf, Conf

\* A threshold cut to nine tenths of the size limit is a natural number.
LEMMA WithinLimitType ==
  ASSUME NEW t \in Nat
  PROVE  WithinLimit(t) \in Nat
<1>1. (9 * SizeLimit) \div 10 \in Nat
  BY BoundAssumption
<1> QED BY <1>1 DEF WithinLimit

\* A new session has settings.
LEMMA DefaultConfType == DefaultConf \in Conf
BY BoundAssumption, WithinLimitType DEF DefaultConf, Conf

\* What a sessionconf asks for are settings.
LEMMA ConfChoicesType == ConfChoices \subseteq Conf
BY InputAssumption DEF ConfChoices, Conf

\* What setSessionConfig makes of a request are settings.
LEMMA GrantedType ==
  ASSUME NEW z \in SessionType, NEW conf \in Conf, NEW setter
  PROVE  Granted(z, conf, setter) \in Conf
<1> DEFINE G == Granted(z, conf, setter)
<1>1. /\ conf.flags \in SUBSET ConfFlags /\ conf.maxUsers \in Nat
      /\ conf.threshold \in Nat
  BY DEF Conf
<1>2. WithinLimit(conf.threshold) \in Nat
  BY <1>1, WithinLimitType
<1>3. (CASE conf.maxUsers < 1 -> 1
         [] conf.maxUsers > MaxUsers -> MaxUsers
         [] OTHER -> conf.maxUsers) \in Nat
  BY <1>1, BoundAssumption
<1>4. (IF setter \in Auth \cup {NoUser} THEN conf.flags
       ELSE conf.flags \ ({"authOnly"} \ z.conf.flags)) \in SUBSET ConfFlags
  BY <1>1
<1> QED BY <1>2, <1>3, <1>4 DEF Granted, Conf

\* Operators and trusted users are members.
LEMMA OpsType ==
  ASSUME NEW z \in SessionType
  PROVE  Ops(z) \in SUBSET User /\ Trusteds(z) \in SUBSET User
BY MembersType DEF Ops, Trusteds

\* Telling one client something outside the history (sendDirectMessage) keeps the types.
LEMMA DirectToType ==
  ASSUME NEW z \in SessionType, NEW U
  PROVE  DirectTo(z, U) \in SessionType
BY MembersType DEF DirectTo, SessionType

\* So does telling every client (directToAll).
LEMMA DirectToAllType ==
  ASSUME NEW z \in SessionType
  PROVE  DirectToAll(z) \in SessionType
BY DirectToType DEF DirectToAll

\* The index after the newest history message is a natural number (lastIndex).
LEMMA LastIndexType ==
  ASSUME NEW z \in SessionType
  PROVE  LastIndex(z) \in Int /\ LastIndex(z) + 1 \in Nat
<1>1. z.hist \in Seq(Msg) /\ z.first \in Nat
  BY DEF SessionType
<1>2. Len(z.hist) \in Nat
  BY <1>1
<1> QED BY <1>1, <1>2 DEF LastIndex

\* A batch is a stretch of the history, and its end is an index (getBatch).
LEMMA GetBatchType ==
  ASSUME NEW z \in SessionType, NEW after \in Int
  PROVE  GetBatch(z, after) \in Seq(Msg)
<1>1. z.hist \in Seq(Msg) /\ z.first \in Nat /\ Len(z.hist) \in Nat
  BY DEF SessionType
<1> DEFINE o == IF after - z.first + 1 > 0 THEN after - z.first + 1 ELSE 0
<1>2. o \in Nat
  BY <1>1
<1>3. SubSeq(z.hist, o + 1, Len(z.hist)) \in Seq(Msg)
  BY <1>1, <1>2, SubSeqProperties
<1>4. <<>> \in Seq(Msg)
  OBVIOUS
<1> QED BY <1>3, <1>4 DEF GetBatch

\* Sending a client the next batch, or being told to wait, keeps the types.
LEMMA SendNextHistoryBatchType ==
  ASSUME NEW z \in SessionType, NEW U
  PROVE  SendNextHistoryBatch(z, U) \in SessionType
<1> DEFINE R == Ready(z, U)
           P == [u \in User |-> IF u \in R THEN LastIndex(z) ELSE z.pos[u]]
           S == [u \in User |-> IF u \in R
                                THEN z.seen[u] \o GetBatch(z, z.pos[u])
                                ELSE z.seen[u]]
           T == z.uploading \cup {u \in R : GetBatch(z, z.pos[u]) # <<>>}
<1>1. /\ z.pos \in [User -> Int] /\ z.seen \in [User -> Seq(Msg)]
      /\ z.uploading \in SUBSET User
  BY DEF SessionType
<1>2. R \in SUBSET User
  BY MembersType DEF Ready
<1>3. P \in [User -> Int]
  BY <1>1, LastIndexType
<1>4. ASSUME NEW u \in User
      PROVE  z.seen[u] \o GetBatch(z, z.pos[u]) \in Seq(Msg)
  <2>1. GetBatch(z, z.pos[u]) \in Seq(Msg) /\ z.seen[u] \in Seq(Msg)
    BY <1>1, GetBatchType
  <2> QED BY <2>1, ConcatProperties
<1>5. S \in [User -> Seq(Msg)]
  BY <1>1, <1>4
<1>6. T \in SUBSET User
  BY <1>1, <1>2
<1>7. SendNextHistoryBatch(z, U)
        = [z EXCEPT !.seen = S, !.pos = P, !.uploading = T]
  BY DEF SendNextHistoryBatch, SessionType
<1> HIDE DEF P, S, T
<1> QED BY <1>3, <1>5, <1>6, <1>7, ZenonT(60) DEF SessionType

\* Storing a message, or dropping it when the history is full, keeps the types.
LEMMA AddMessageType ==
  ASSUME NEW z \in SessionType, NEW m \in Msg
  PROVE  AddMessage(z, m) \in SessionType
<1>1. Append(z.hist, m) \in Seq(Msg)
  BY AppendProperties DEF SessionType
<1>2. [z EXCEPT !.hist = Append(@, m)] \in SessionType
  BY <1>1 DEF SessionType
<1> QED BY <1>2, SendNextHistoryBatchType DEF AddMessage

\* The uploading host's position stays an index when his own message is stored.
LEMMA AdvanceHostType ==
  ASSUME NEW z \in SessionType, NEW m \in Msg
  PROVE  AdvanceHost(z, m) \in SessionType
<1>1. CASE z.initUser \notin Members(z)
  <2>1. [z EXCEPT !.noOrigin = TRUE] \in SessionType
    BY DEF SessionType
  <2> QED BY <1>1, <2>1 DEF AdvanceHost
<1>2. CASE z.initUser \in Members(z)
  <2> DEFINE h == z.initUser
  <2>1. h \in User
    BY <1>2, MembersType
  <2>2. /\ z.pos \in [User -> Int] /\ z.seen \in [User -> Seq(Msg)]
        /\ z.uploading \in SUBSET User
    BY DEF SessionType
  <2> DEFINE P == [z.pos EXCEPT ![h] = LastIndex(z)]
             S == [z.seen EXCEPT ![h] =
                     IF m.t # "Draw" \/ m.by = h THEN Append(@, m) ELSE @]
             T == z.uploading \cup (IF m.t # "Draw" THEN {h} ELSE {})
  <2>3. P \in [User -> Int]
    BY <2>1, <2>2, LastIndexType
  <2>4. Append(z.seen[h], m) \in Seq(Msg)
    BY <2>1, <2>2, AppendProperties
  <2>5. S \in [User -> Seq(Msg)]
    BY <2>1, <2>2, <2>4
  <2>6. T \in SUBSET User
    BY <2>1, <2>2
  <2>7. z.state = "Initialization" =>
          AdvanceHost(z, m) = [z EXCEPT !.pos = P, !.seen = S, !.uploading = T]
    BY <1>2 DEF AdvanceHost, SessionType
  <2> HIDE DEF P, S, T
  <2>8. [z EXCEPT !.pos = P, !.seen = S, !.uploading = T] \in SessionType
    BY <2>3, <2>5, <2>6 DEF SessionType
  <2> QED BY <2>7, <2>8 DEF AdvanceHost
<1> QED BY <1>1, <1>2

\* addToHistory as a whole: store, signal, autoreset query.
LEMMA AddToHistoryType ==
  ASSUME NEW z \in SessionType, NEW m \in Msg
  PROVE  AddToHistory(z, m) \in SessionType
<1> DEFINE y == AdvanceHost(AddMessage(z, m), m)
<1>1. y \in SessionType
  BY AddMessageType, AdvanceHostType
<1> HIDE DEF y
<1>2. [y EXCEPT !.autoreset = "Queried"] \in SessionType
  BY <1>1 DEF SessionType
<1>3. QueryAutoReset(y) \in SessionType
  BY <1>1, <1>2, DirectToAllType DEF QueryAutoReset
<1> QED BY <1>3, DirectToAllType DEF AddToHistory, y

\* Setting the operator flag of every client (updateOwnership) keeps the types.
LEMMA SetOperatorsType ==
  ASSUME NEW z \in SessionType, NEW ids \in SUBSET User
  PROVE  SetOperators(z, ids) \in SessionType
<1> DEFINE changed == {u \in Members(z) \ Mods : (u \in ids) # (u \in z.op)}
           O == (z.op \ changed) \cup (changed \cap ids)
           A == (z.authOps \ (changed \cap Auth))
                  \cup (changed \cap ids \cap Auth)
<1>1. O \in SUBSET User /\ A \in SUBSET User
  BY MembersType DEF SessionType
<1>2. SetOperators(z, ids) = IF changed = {} THEN z ELSE
        DirectToAll([z EXCEPT !.op = O, !.authOps = A])
  BY DEF SetOperators, SessionType
<1> HIDE DEF changed, O, A
<1>3. [z EXCEPT !.op = O, !.authOps = A] \in SessionType
  BY <1>1 DEF SessionType
<1> QED BY <1>2, <1>3, DirectToAllType

\* Setting the trusted flag of every client (updateTrustedUsers) keeps the types.
LEMMA SetTrustedType ==
  ASSUME NEW z \in SessionType, NEW ids \in SUBSET User
  PROVE  SetTrusted(z, ids) \in SessionType
<1> DEFINE changed == {u \in Members(z) : (u \in ids) # (u \in z.trusted)}
           O == (z.trusted \ changed) \cup (changed \cap ids)
           A == (z.authTrusted \ (changed \cap Auth))
                  \cup (changed \cap ids \cap Auth)
<1>1. O \in SUBSET User /\ A \in SUBSET User
  BY MembersType DEF SessionType
<1>2. SetTrusted(z, ids) = IF changed = {} THEN z ELSE
        DirectToAll([z EXCEPT !.trusted = O, !.authTrusted = A])
  BY DEF SetTrusted, SessionType
<1> HIDE DEF changed, O, A
<1>3. [z EXCEPT !.trusted = O, !.authTrusted = A] \in SessionType
  BY <1>1 DEF SessionType
<1> QED BY <1>2, <1>3, DirectToAllType

\* Granting operator status and storing the new list keeps the types.
LEMMA GrantOpType ==
  ASSUME NEW z \in SessionType, NEW u \in User
  PROVE  GrantOp(z, u) \in SessionType
<1> DEFINE y == SetOperators(z, Ops(z) \cup {u})
<1>1. y \in SessionType
  BY OpsType, SetOperatorsType
<1>2. M("Owner", NoUser, Ops(y), NoConf) \in Msg
  BY <1>1, OpsType, MType, NoConfType DEF MsgTypes, Stored
<1> QED BY <1>1, <1>2, AddToHistoryType DEF GrantOp

\* Granting or taking trusted status and storing the new list keeps the types.
LEMMA ChangeTrustedStatusType ==
  ASSUME NEW z \in SessionType, NEW u \in User, NEW trusted \in BOOLEAN
  PROVE  ChangeTrustedStatus(z, u, trusted) \in SessionType
<1> DEFINE ids == IF trusted THEN Trusteds(z) \cup {u} ELSE Trusteds(z) \ {u}
           y == SetTrusted(z, ids)
<1>1. ids \in SUBSET User
  BY OpsType
<1>2. y \in SessionType
  BY <1>1, SetTrustedType
<1>3. M("Trusted", NoUser, Trusteds(y), NoConf) \in Msg
  BY <1>2, OpsType, MType, NoConfType DEF MsgTypes, Stored
<1> QED BY <1>2, <1>3, AddToHistoryType DEF ChangeTrustedStatus

\* Promoting the first client when no operator is left keeps the types.
LEMMA EnsureOperatorExistsType ==
  ASSUME NEW z \in SessionType
  PROVE  EnsureOperatorExists(z) \in SessionType
<1>1. z.clients # <<>> => Head(z.clients) \in User
  BY HeadTailProperties DEF SessionType
<1> QED BY <1>1, GrantOpType DEF EnsureOperatorExists

\* Killing the session keeps the types.
LEMMA KillSessionType ==
  ASSUME NEW z \in SessionType
  PROVE  KillSession(z) \in SessionType
<1> DEFINE N == NoClients(z)
<1>1. N \in SessionType
  <2>1. /\ [u \in User |-> <<>>] \in [User -> Seq(Input)]
        /\ [u \in User |-> <<>>] \in [User -> Seq(Msg)]
        /\ [u \in User |-> -1] \in [User -> Int]
    BY EmptyType
  <2>2. z.past \cup Members(z) \in SUBSET User
    BY MembersType DEF SessionType
  <2> DEFINE H == [u \in User |-> <<>>]
             P == [u \in User |-> -1]
             A == z.past \cup Members(z)
             C == <<>>
  <2>3. C \in Seq(User)
    BY EmptyType
  <2>4. N = [z EXCEPT !.clients = C, !.past = A, !.op = {}, !.trusted = {},
                      !.muted = {}, !.locked = {}, !.uploading = {},
                      !.held = H, !.pos = P, !.seen = H]
    BY DEF NoClients, SessionType
  <2> HIDE DEF H, P, A, C, N
  <2>5. /\ H \in [User -> Seq(Input)] /\ H \in [User -> Seq(Msg)]
        /\ P \in [User -> Int] /\ A \in SUBSET User
    BY <2>1, <2>2 DEF H, P, A
  <2> QED BY <2>3, <2>4, <2>5 DEF SessionType
<1> HIDE DEF N
<1>2. [N EXCEPT !.state = "Shutdown", !.releasing = FALSE] \in SessionType
  BY <1>1 DEF SessionType, States
<1> QED BY <1>2 DEF KillSession, N

\* Storing the session's settings (sendUpdatedSessionProperties) keeps the types.
LEMMA SendUpdatedSessionPropertiesType ==
  ASSUME NEW z \in SessionType
  PROVE  SendUpdatedSessionProperties(z) \in SessionType
<1>1. M("Conf", NoUser, {}, z.conf) \in Msg
  BY MType DEF SessionType, MsgTypes
<1>2. AddToHistory(z, M("Conf", NoUser, {}, z.conf)) \in SessionType
  BY <1>1, AddToHistoryType
<1> QED BY <1>2, KillSessionType
        DEF SendUpdatedSessionProperties, AttributeChanged

\* Dropping the closed flag of an empty session keeps the types.
LEMMA ReopenType ==
  ASSUME NEW z \in SessionType
  PROVE  Reopen(z) \in SessionType
<1>1. [z EXCEPT !.conf.flags = @ \ {"closed"}] \in SessionType
  BY DEF SessionType, Conf
<1> QED BY <1>1, SendUpdatedSessionPropertiesType DEF Reopen

\* The state the server puts in front of a reset image is a sequence of messages.
LEMMA ServerSideStateMessagesType ==
  ASSUME NEW z \in SessionType
  PROVE  ServerSideStateMessages(z) \in Seq(Msg)
<1> DEFINE J == [i \in 1..Len(z.clients) |-> M("Join", z.clients[i], {}, NoConf)]
           O == <<M("Owner", NoUser, Ops(z), NoConf)>>
           T == IF Trusteds(z) = {} THEN <<>>
                ELSE <<M("Trusted", NoUser, Trusteds(z), NoConf)>>
<1>1. z.clients \in Seq(User) /\ Len(z.clients) \in Nat
  BY DEF SessionType
<1>2. \A i \in 1..Len(z.clients) : M("Join", z.clients[i], {}, NoConf) \in Msg
  <2> SUFFICES ASSUME NEW i \in 1..Len(z.clients)
               PROVE  M("Join", z.clients[i], {}, NoConf) \in Msg
    OBVIOUS
  <2>1. z.clients[i] \in User
    BY <1>1
  <2> QED BY <2>1, MType, NoConfType DEF MsgTypes
<1>3. J \in Seq(Msg)
  BY <1>1, <1>2
<1>4. /\ M("Owner", NoUser, Ops(z), NoConf) \in Msg
      /\ M("Trusted", NoUser, Trusteds(z), NoConf) \in Msg
  BY OpsType, MType, NoConfType DEF MsgTypes, Stored
<1>5. O \in Seq(Msg) /\ T \in Seq(Msg)
  BY <1>4
<1> HIDE DEF J, O, T
<1>6. (J \o O) \o T \in Seq(Msg)
  BY <1>3, <1>5, ConcatProperties
<1> QED BY <1>6 DEF ServerSideStateMessages, J, O, T

\* Replacing the history by a new one that continues its indices keeps the types.
LEMMA HistoryResetType ==
  ASSUME NEW z \in SessionType, NEW image \in Seq(Msg)
  PROVE  HistoryReset(z, image) \in SessionType
<1>1. Len(image) \in Nat
  OBVIOUS
<1>2. [z EXCEPT !.first = LastIndex(z) + 1, !.hist = image,
                !.base = Len(image)] \in SessionType
  BY <1>1, LastIndexType DEF SessionType
<1> QED BY <1>2, SendNextHistoryBatchType DEF HistoryReset

\* Announcing a reset to every client (onSessionReset) keeps the types.
LEMMA AnnounceResetType ==
  ASSUME NEW z \in SessionType
  PROVE  AnnounceReset(z) \in SessionType
<1> DEFINE S == [u \in User |-> IF u \in Members(z) THEN <<>> ELSE z.seen[u]]
<1>1. S \in [User -> Seq(Msg)]
  BY DEF SessionType
<1>2. AnnounceReset(z)
        = DirectToAll([z EXCEPT !.seen = S, !.autoreset = "NotSent"])
  BY DEF AnnounceReset, SessionType
<1> HIDE DEF S
<1>3. [z EXCEPT !.seen = S, !.autoreset = "NotSent"] \in SessionType
  BY <1>1 DEF SessionType
<1> QED BY <1>2, <1>3, DirectToAllType

\* Performing a reset, or dropping one that is too large, keeps the types.
LEMMA PerformResetType ==
  ASSUME NEW z \in SessionType
  PROVE  PerformReset(z) \in SessionType
<1> DEFINE image == ServerSideStateMessages(z) \o z.resetstream
<1>1. image \in Seq(Msg)
  BY ServerSideStateMessagesType, ConcatProperties DEF SessionType
<1> HIDE DEF image
<1>2. SendUpdatedSessionProperties(AnnounceReset(HistoryReset(z, image)))
        \in SessionType
  BY <1>1, HistoryResetType, AnnounceResetType,
     SendUpdatedSessionPropertiesType
<1> QED BY <1>2, DirectToAllType DEF PerformReset, image

\* The empty reset stream has its type.
LEMMA EmptyStream ==
  ASSUME NEW z \in SessionType
  PROVE  [z EXCEPT !.resetstream = <<>>] \in SessionType
<1> DEFINE E == <<>>
<1>1. E \in Seq(Msg)
  BY EmptyType
<1> HIDE DEF E
<1>2. [z EXCEPT !.resetstream = E] \in SessionType
  BY <1>1 DEF SessionType
<1> QED BY <1>2 DEF E

\* Entering the Running state keeps the types.
LEMMA SwitchToRunningType ==
  ASSUME NEW z \in SessionType
  PROVE  SwitchToRunning(z) \in SessionType
<1> DEFINE y == [z EXCEPT !.initUser = NoUser]
           w == IF z.state = "Reset" /\ z.resetstream # <<>>
                THEN PerformReset(y) ELSE y
<1>1. y \in SessionType
  BY DEF SessionType
<1> HIDE DEF y
<1>2. w \in SessionType
  BY <1>1, PerformResetType
<1> HIDE DEF w
<1> DEFINE v == [w EXCEPT !.resetstream = <<>>]
<1>3. v \in SessionType
  BY <1>2, EmptyStream
<1> HIDE DEF v
<1>4. /\ [v EXCEPT !.state = "Running"] \in SessionType
      /\ [v EXCEPT !.releasing = TRUE] \in SessionType
  BY <1>3 DEF SessionType, States
<1> QED BY <1>4 DEF SwitchToRunning, Unlock, v, w, y

\* Forgetting the resetter and his stream keeps the types.
LEMMA AbortResetType ==
  ASSUME NEW z \in SessionType
  PROVE  AbortReset(z) \in SessionType
<1>1. [z EXCEPT !.resetstream = <<>>] \in SessionType
  BY EmptyStream
<1> QED BY <1>1, SwitchToRunningType, DirectToAllType DEF AbortReset

\* Entering the Reset state keeps the types.
LEMMA ResetSessionType ==
  ASSUME NEW z \in SessionType, NEW u \in User
  PROVE  ResetSession(z, u) \in SessionType
<1>1. [z EXCEPT !.state = "Reset", !.initUser = u, !.resetstream = <<>>]
        \in SessionType
  <2> DEFINE E == <<>>
  <2>1. E \in Seq(Msg)
    BY EmptyType
  <2> HIDE DEF E
  <2>2. [z EXCEPT !.state = "Reset", !.initUser = u, !.resetstream = E]
          \in SessionType
    BY <2>1 DEF SessionType, States
  <2> QED BY <2>2 DEF E
<1> QED BY <1>1, DirectToAllType DEF ResetSession

\* What is left of m_clients when the client at index i is removed.
Without(c, i) ==
  [j \in 1..(Len(c) - 1) |-> IF j < i THEN c[j] ELSE c[j + 1]]

\* The client list without one client is a client list without him.
LEMMA WithoutType ==
  ASSUME NEW c \in Seq(User), NEW i \in 1..Len(c)
  PROVE  Without(c, i) \in Seq(User)
<1>1. Len(c) \in Nat /\ Len(c) - 1 \in Nat
  OBVIOUS
<1>2. ASSUME NEW j \in 1..(Len(c) - 1)
      PROVE  (IF j < i THEN c[j] ELSE c[j + 1]) \in User
  <2>1. j \in 1..Len(c) /\ j + 1 \in 1..Len(c)
    BY <1>1
  <2> QED BY <2>1
<1>3. Without(c, i) \in [1..(Len(c) - 1) -> User]
  BY <1>2 DEF Without
<1> QED BY <1>1, <1>3

\* Taking a client out of the list keeps the types.
LEMMA RemoveClientType ==
  ASSUME NEW z \in SessionType, NEW u \in Members(z)
  PROVE  RemoveClient(z, u) \in SessionType
<1> DEFINE c == z.clients
           i == CHOOSE k \in 1..Len(c) : c[k] = u
           C == Without(c, i)
           A == z.past \cup {u}
           T == (z.uploading \cup (Members(z) \ {u})) \ {u}
           H == [z.held EXCEPT ![u] = <<>>]
           P == [z.pos EXCEPT ![u] = -1]
           S == [z.seen EXCEPT ![u] = <<>>]
<1>1. u \in User /\ Members(z) \in SUBSET User
  BY MembersType
<1>2. c \in Seq(User)
  BY DEF SessionType
<1>3. i \in 1..Len(c)
  BY DEF Members
<1>4. C \in Seq(User)
  BY <1>2, <1>3, WithoutType
<1>5. A \in SUBSET User /\ T \in SUBSET User
  BY <1>1 DEF SessionType
<1>6. /\ z.held \in [User -> Seq(Input)] /\ z.pos \in [User -> Int]
      /\ z.seen \in [User -> Seq(Msg)]
  BY DEF SessionType
<1>7. /\ H \in [User -> Seq(Input)] /\ P \in [User -> Int]
      /\ S \in [User -> Seq(Msg)]
  BY <1>1, <1>6, EmptyType
<1> DEFINE O == z.op \ {u}
           R == z.trusted \ {u}
           U == z.muted \ {u}
           L == z.locked \ {u}
<1>8. /\ O \in SUBSET User /\ R \in SUBSET User
      /\ U \in SUBSET User /\ L \in SUBSET User
  BY DEF SessionType
<1> DEFINE y == [z EXCEPT !.clients = C, !.past = A, !.op = O, !.trusted = R,
                          !.muted = U]
           x == [y EXCEPT !.locked = L, !.uploading = T, !.held = H,
                          !.pos = P, !.seen = S]
<1>9. RemoveClient(z, u) = x
  BY DEF RemoveClient, Without, SessionType
<1> HIDE DEF C, A, T, H, P, S, O, R, U, L
<1>10. y \in SessionType
  BY <1>4, <1>5, <1>8 DEF SessionType
<1> HIDE DEF y
<1>11. x \in SessionType
  BY <1>5, <1>7, <1>8, <1>10 DEF SessionType
<1> QED BY <1>9, <1>11

\* The server's reaction to a changed session (deleting an empty one) keeps the types.
LEMMA AttributeChangedType ==
  ASSUME NEW z \in SessionType
  PROVE  AttributeChanged(z) \in SessionType
BY KillSessionType DEF AttributeChanged

\* removeUser as a whole keeps the types.
LEMMA RemoveUserType ==
  ASSUME NEW z \in SessionType, NEW u
  PROVE  RemoveUser(z, u) \in SessionType
<1> SUFFICES ASSUME u \in Members(z) PROVE RemoveUser(z, u) \in SessionType
  BY DEF RemoveUser
<1> DEFINE gone == RemoveClient(z, u)
           resumed == IF u = z.initUser /\ z.state = "Reset"
                      THEN AbortReset(gone) ELSE gone
           said == AddToHistory(resumed, M("Leave", u, {}, NoConf))
           logged == EnsureOperatorExists(said)
           opened == IF logged.clients = <<>> THEN Reopen(logged) ELSE logged
<1>1. gone \in SessionType
  BY RemoveClientType
<1> HIDE DEF gone
<1>2. resumed \in SessionType
  BY <1>1, AbortResetType
<1> HIDE DEF resumed
<1>3. M("Leave", u, {}, NoConf) \in Msg
  BY MembersType, MType, NoConfType DEF MsgTypes
<1>4. said \in SessionType
  BY <1>2, <1>3, AddToHistoryType
<1> HIDE DEF said
<1>5. logged \in SessionType
  BY <1>4, EnsureOperatorExistsType
<1> HIDE DEF logged
<1>6. opened \in SessionType
  BY <1>5, ReopenType
<1> HIDE DEF opened
<1>7. AttributeChanged(opened) \in SessionType
  BY <1>6, AttributeChangedType
<1> QED BY <1>7 DEF RemoveUser, opened, logged, said, resumed, gone

\* Throwing out a resetter who lost operator status keeps the types.
LEMMA KickResetterType ==
  ASSUME NEW z, NEW y \in SessionType
  PROVE  KickResetter(z, y) \in SessionType
BY RemoveUserType DEF KickResetter

\* Taking operator status, with everything that follows from it, keeps the types.
LEMMA RevokeOpType ==
  ASSUME NEW z \in SessionType, NEW u \in User
  PROVE  RevokeOp(z, u) \in SessionType
<1> DEFINE y == SetOperators(z, Ops(z) \ {u})
<1>1. y \in SessionType
  BY OpsType, SetOperatorsType
<1>2. M("Owner", NoUser, Ops(y), NoConf) \in Msg
  BY <1>1, OpsType, MType, NoConfType DEF MsgTypes, Stored
<1> QED BY <1>1, <1>2, KickResetterType, AddToHistoryType DEF RevokeOp

\* Storing a client's message in the history or in the reset stream keeps the types.
LEMMA StoreType ==
  ASSUME NEW z \in SessionType, NEW m \in Msg
  PROVE  Store(z, m) \in SessionType
<1>1. Append(z.resetstream, m) \in Seq(Msg)
  BY AppendProperties DEF SessionType
<1> DEFINE y == [z EXCEPT !.resetstream = Append(@, m)]
<1>2. y \in SessionType
  BY <1>1 DEF SessionType
<1> HIDE DEF y
<1>3. AddToInitStream(z, m) \in SessionType
  BY <1>2, AddToHistoryType, RemoveUserType DEF AddToInitStream, y
<1> QED BY <1>3, AddToHistoryType DEF Store

\* A client's list of operators, sanitized, applied and stored, keeps the types.
LEMMA HandleOwnerType ==
  ASSUME NEW z \in SessionType, NEW in \in Input
  PROVE  HandleOwner(z, in) \in SessionType
<1> DEFINE y == SetOperators(z, in.ids \cup {in.by})
<1>1. in.by \in User /\ in.ids \in SUBSET User
  BY DEF Input
<1>2. y \in SessionType
  BY <1>1, SetOperatorsType
<1>3. M("Owner", in.by, Ops(y), NoConf) \in Msg
  BY <1>1, <1>2, OpsType, MType, NoConfType DEF MsgTypes, Stored
<1>4. Store(KickResetter(z, y), M("Owner", in.by, Ops(y), NoConf)) \in SessionType
  BY <1>2, <1>3, KickResetterType, StoreType
<1> QED BY <1>4, DirectToAllType DEF HandleOwner

\* So does a client's list of trusted users.
LEMMA HandleTrustedType ==
  ASSUME NEW z \in SessionType, NEW in \in Input
  PROVE  HandleTrusted(z, in) \in SessionType
<1> DEFINE y == SetTrusted(z, in.ids)
<1>1. in.by \in User /\ in.ids \in SUBSET User
  BY DEF Input
<1>2. y \in SessionType
  BY <1>1, SetTrustedType
<1>3. M("Trusted", in.by, Trusteds(y), NoConf) \in Msg
  BY <1>1, <1>2, OpsType, MType, NoConfType DEF MsgTypes, Stored
<1>4. Store(y, M("Trusted", in.by, Trusteds(y), NoConf)) \in SessionType
  BY <1>2, <1>3, StoreType
<1> QED BY <1>4, DirectToAllType DEF HandleTrusted

\* Changing a setting keeps the types.
LEMMA SetSessionConfigType ==
  ASSUME NEW z \in SessionType, NEW conf \in Conf, NEW setter
  PROVE  SetSessionConfig(z, conf, setter) \in SessionType
<1> DEFINE new == Granted(z, conf, setter)
<1>1. new \in Conf
  BY GrantedType
<1> HIDE DEF new
<1>2. [z EXCEPT !.conf = new] \in SessionType
  BY <1>1 DEF SessionType
<1> QED BY <1>2, SendUpdatedSessionPropertiesType, DirectToAllType
        DEF SetSessionConfig, new

\* Kicking or banning a user keeps the types.
LEMMA KickUserType ==
  ASSUME NEW z \in SessionType, NEW in \in Input
  PROVE  KickUser(z, in) \in SessionType
<1> DEFINE target == Target(in)
           ban == in.t = "ban-user"
           b == [z EXCEPT !.banned = @ \cup {target}]
           y == DirectToAll(IF ban THEN b ELSE z)
<1>1. CASE target \in User
  <2>1. b \in SessionType
    BY <1>1 DEF SessionType
  <2> HIDE DEF b
  <2>2. y \in SessionType
    BY <2>1, DirectToAllType
  <2> HIDE DEF y
  <2>3. RemoveUser(y, target) \in SessionType
    BY <2>2, RemoveUserType
  <2>4. DirectTo(z, {in.by}) \in SessionType
    BY DirectToType
  <2> QED BY <2>2, <2>3, <2>4 DEF KickUser, y, b
<1>2. CASE target \notin User
  <2>1. target \notin z.past /\ target \notin Members(z)
    BY <1>2, MembersType DEF SessionType
  <2> QED BY <2>1, DirectToType DEF KickUser
<1> QED BY <1>1, <1>2

\* Muting and lifting a ban keep the types.
LEMMA SmallCommandsType ==
  ASSUME NEW z \in SessionType, NEW in \in Input
  PROVE  /\ ReadyToAutoReset(z) \in SessionType
         /\ RemoveBan(z, Target(in)) \in SessionType
         /\ SetMute(z, in) \in SessionType
<1>1. [z EXCEPT !.autoreset = "Requested"] \in SessionType
  BY DEF SessionType
<1>2. [z EXCEPT !.banned = @ \ {Target(in)}] \in SessionType
  BY DEF SessionType
<1>3. SetMute(z, in) \in SessionType
  <2> DEFINE mt == IF in.t = "mute" THEN z.muted \cup {Target(in)}
                                   ELSE z.muted \ {Target(in)}
             y == [z EXCEPT !.muted = mt]
  <2>1. Target(in) \in Members(z) => mt \in SUBSET User
    BY MembersType DEF SessionType
  <2> HIDE DEF mt
  <2>2. Target(in) \in Members(z) => y \in SessionType
    BY <2>1 DEF SessionType
  <2>3. y = [z EXCEPT !.muted = IF in.t = "mute" THEN @ \cup {Target(in)}
                                                ELSE @ \ {Target(in)}]
    BY DEF SessionType, mt
  <2> HIDE DEF y
  <2> QED BY <2>2, <2>3, DirectToType, DirectToAllType DEF SetMute
<1> QED BY <1>1, <1>2, <1>3, DirectToAllType DEF ReadyToAutoReset, RemoveBan

\* Every operator command keeps the types.
LEMMA HandleCommandType ==
  ASSUME NEW z \in SessionType, NEW in \in Input
  PROVE  HandleCommand(z, in) \in SessionType
<1>1. in.by \in User /\ in.conf \in Conf
  BY DEF Input
<1>2. /\ DirectTo(z, {in.by}) \in SessionType
      /\ DirectToAll(z) \in SessionType
      /\ [z EXCEPT !.resetstream = <<>>] \in SessionType
  BY DirectToType, DirectToAllType, EmptyStream
<1>3. /\ SwitchToRunning(z) \in SessionType
      /\ AbortReset(z) \in SessionType
      /\ SetSessionConfig(z, in.conf, in.by) \in SessionType
  BY <1>1, SwitchToRunningType, AbortResetType, SetSessionConfigType
<1>4. /\ KickUser(z, in) \in SessionType
      /\ GrantOp(z, in.by) \in SessionType
      /\ ResetSession(z, in.by) \in SessionType
      /\ KillSession(z) \in SessionType
  BY <1>1, KickUserType, GrantOpType, ResetSessionType, KillSessionType
<1>5. /\ ReadyToAutoReset(z) \in SessionType
      /\ RemoveBan(z, Target(in)) \in SessionType
      /\ SetMute(z, in) \in SessionType
  BY SmallCommandsType
<1> QED BY <1>2, <1>3, <1>4, <1>5 DEF HandleCommand

\* Whatever a client sends, handling it keeps the types.
LEMMA HandleClientMessageType ==
  ASSUME NEW z \in SessionType, NEW in \in Input
  PROVE  HandleClientMessage(z, in) \in SessionType
<1>1. in.t \in {"Draw", "Chat"} => in \in Msg
  BY DEF Input, Msg, MsgTypes, Stored
<1>2. in.t \in {"Draw", "Chat"} => Store(z, in) \in SessionType
  BY <1>1, StoreType
<1>3. /\ DirectToAll(z) \in SessionType
      /\ DirectTo(z, {in.by, Target(in)}) \in SessionType
  BY DirectToType, DirectToAllType
<1>4. /\ HandleOwner(z, in) \in SessionType
      /\ HandleTrusted(z, in) \in SessionType
      /\ HandleCommand(z, in) \in SessionType
  BY HandleOwnerType, HandleTrustedType, HandleCommandType
<1> QED BY <1>2, <1>3, <1>4 DEF HandleClientMessage

\* A join keeps the types.
LEMMA JoinUserType ==
  ASSUME NEW z \in SessionType, NEW u \in User, NEW host \in BOOLEAN
  PROVE  JoinUser(z, u, host) \in SessionType
<1> DEFINE C == Append(z.clients, u)
           A == z.past \ {u}
           I == IF host THEN u ELSE z.initUser
           L == IF ~host /\ z.state = "Initialization"
                THEN z.locked \cup {u} ELSE z.locked
           T == z.uploading \cup {u}
           y == [z EXCEPT !.clients = C, !.past = A, !.initUser = I,
                          !.locked = L, !.uploading = T]
           joined == AddToHistory(y, M("Join", u, {}, NoConf))
           opped == IF IsOperator(joined, u) \/ u \in joined.authOps
                    THEN GrantOp(joined, u) ELSE joined
           trusted == IF u \in TrustFlag \cup opped.authTrusted
                      THEN ChangeTrustedStatus(opped, u, TRUE) ELSE opped
<1>1. C \in Seq(User)
  BY AppendProperties DEF SessionType
<1>2. /\ A \in SUBSET User /\ I \in User \cup {NoUser}
      /\ L \in SUBSET User /\ T \in SUBSET User
  BY DEF SessionType
<1>3. y = [z EXCEPT
             !.clients = Append(@, u), !.past = @ \ {u},
             !.initUser = IF host THEN u ELSE @,
             !.locked = IF ~host /\ z.state = "Initialization"
                        THEN @ \cup {u} ELSE @,
             !.uploading = @ \cup {u}]
  BY DEF SessionType
<1> HIDE DEF C, A, I, L, T
<1>4. y \in SessionType
  BY <1>1, <1>2 DEF SessionType
<1> HIDE DEF y
<1>5. M("Join", u, {}, NoConf) \in Msg
  BY MType, NoConfType DEF MsgTypes
<1>6. joined \in SessionType
  BY <1>4, <1>5, AddToHistoryType
<1> HIDE DEF joined
<1>7. opped \in SessionType
  BY <1>6, GrantOpType
<1> HIDE DEF opped
<1>8. trusted \in SessionType
  BY <1>7, ChangeTrustedStatusType
<1> HIDE DEF trusted
<1>9. DirectToAll(EnsureOperatorExists(trusted)) \in SessionType
  BY <1>8, EnsureOperatorExistsType, DirectToAllType
<1> QED BY <1>3, <1>9 DEF JoinUser, trusted, opped, joined

\* A new session has its type.
LEMMA EmptySessionType == EmptySession \in SessionType
<1>1. /\ [u \in User |-> <<>>] \in [User -> Seq(Input)]
      /\ [u \in User |-> <<>>] \in [User -> Seq(Msg)]
      /\ [u \in User |-> -1] \in [User -> Int]
  BY EmptyType
<1> QED BY <1>1, EmptyType, DefaultConfType
        DEF EmptySession, SessionType, States

\* The messages of the clients are well formed.
LEMMA InputsType == Inputs \subseteq Input
BY InputAssumption, NoConfType, ConfChoicesType
   DEF Inputs, Input, M, InTypes, Stored, Commands

-----------------------------------------------------------------------------
(* The states of the session: who may upload, who is held back.            *)

\* What the session's state says of the initializing user, of the reset stream
\* and of the clients on hold.  A release goes on only while a client is on
\* hold, and what is held removes nobody: so the loop of switchState ends.
Control(z) ==
  /\ z.state = "Running" => z.initUser = NoUser
  /\ z.state \in {"Initialization", "Running"} => z.resetstream = <<>>
  /\ z.state = "Shutdown" => z.clients = <<>>
  /\ \A u \in User : u \in z.locked \/ z.held[u] # <<>> =>
       u \in Members(z) /\ u \in z.locked /\ z.state = "Initialization"
  /\ \A u \in User : \A i \in 1..Len(z.held[u]) : z.held[u][i].t \notin Removing
  /\ z.releasing =>
       /\ z.state = "Initialization" /\ z.initUser = NoUser
       /\ z.locked # {}

\* A reset has a resetter.
Resetting(z) == z.state = "Reset" => z.initUser \in Ops(z)

\* The inductive invariant
CInv(z) == z \in SessionType /\ Control(z) /\ Resetting(z)

\* y differs from z in nothing that Control and Resetting read, but for more
\* operators.
SameControl(z, y) ==
  /\ y.state = z.state /\ y.initUser = z.initUser /\ y.clients = z.clients
  /\ y.resetstream = z.resetstream /\ y.releasing = z.releasing
  /\ y.locked = z.locked /\ y.held = z.held
  /\ z.op \subseteq y.op

\* A step that leaves state, initUser, locks and membership alone keeps Control and Resetting.
LEMMA SameControlKeeps ==
  ASSUME NEW z, NEW y, SameControl(z, y)
  PROVE  /\ Control(z) => Control(y)
         /\ Resetting(z) => Resetting(y)
<1>1. Members(y) = Members(z)
  BY DEF SameControl, Members
<1>2. Control(z) => Control(y)
  BY <1>1 DEF SameControl, Control
<1>3. Ops(z) \subseteq Ops(y)
  BY <1>1 DEF SameControl, Ops, IsOperator
<1> QED BY <1>2, <1>3 DEF SameControl, Resetting

\* Two such steps in a row are such a step.
LEMMA SameControlTrans ==
  ASSUME NEW x, NEW y, NEW z, SameControl(x, y), SameControl(y, z)
  PROVE  SameControl(x, z)
BY DEF SameControl

\* Telling a client something outside the history does not touch the control state.
LEMMA DirectToSame ==
  ASSUME NEW z \in SessionType, NEW U
  PROVE  SameControl(z, DirectTo(z, U))
BY DEF DirectTo, SameControl, SessionType

\* Nor does telling everyone.
LEMMA DirectToAllSame ==
  ASSUME NEW z \in SessionType
  PROVE  SameControl(z, DirectToAll(z))
BY DirectToSame DEF DirectToAll

\* Nor does sending a client history.
LEMMA SendNextHistoryBatchSame ==
  ASSUME NEW z \in SessionType, NEW U
  PROVE  SameControl(z, SendNextHistoryBatch(z, U))
BY DEF SendNextHistoryBatch, SameControl, SessionType

\* Nor does storing a message.
LEMMA AddToHistorySame ==
  ASSUME NEW z \in SessionType, NEW m \in Msg
  PROVE  SameControl(z, AddToHistory(z, m))
<1> DEFINE x == [z EXCEPT !.hist = Append(@, m)]
           w == AddMessage(z, m)
           v == AdvanceHost(w, m)
<1>1. x \in SessionType /\ SameControl(z, x)
  <2>1. Append(z.hist, m) \in Seq(Msg)
    BY AppendProperties DEF SessionType
  <2> QED BY <2>1 DEF SessionType, SameControl
<1>2. w \in SessionType /\ SameControl(x, w)
  <2> HIDE DEF x
  <2>1. w = SendNextHistoryBatch(x, Members(z))
    BY DEF AddMessage, x
  <2> QED BY <2>1, <1>1, SendNextHistoryBatchSame, SendNextHistoryBatchType
<1> HIDE DEF x, w
<1>3. v \in SessionType /\ SameControl(w, v)
  <2>1. SameControl(w, AdvanceHost(w, m))
    BY <1>2 DEF AdvanceHost, SameControl, SessionType
  <2> QED BY <2>1, <1>2, AdvanceHostType
<1> HIDE DEF v
<1>4. SameControl(v, QueryAutoReset(v))
  <2> DEFINE q == [v EXCEPT !.autoreset = "Queried"]
  <2>1. q \in SessionType /\ SameControl(v, q)
    BY <1>3 DEF SessionType, SameControl
  <2> HIDE DEF q
  <2>2. SameControl(v, DirectToAll(q))
    BY <2>1, DirectToAllSame, SameControlTrans
  <2>3. SameControl(v, v)
    BY DEF SameControl
  <2> QED BY <2>2, <2>3 DEF QueryAutoReset, q
<1>5. SameControl(z, QueryAutoReset(v))
  BY <1>1, <1>2, <1>3, <1>4, SameControlTrans
<1>6. SameControl(z, z)
  BY DEF SameControl
<1> QED BY <1>5, <1>6, DirectToAllSame DEF AddToHistory, v, w

\* A grant takes operator status from nobody.
LEMMA GrantOpSame ==
  ASSUME NEW z \in SessionType, NEW u \in User
  PROVE  SameControl(z, GrantOp(z, u))
<1> DEFINE ids == Ops(z) \cup {u}
           y == SetOperators(z, ids)
<1>1. ids \in SUBSET User /\ y \in SessionType
  BY OpsType, SetOperatorsType
<1>2. SameControl(z, y)
  <2> DEFINE changed == {v \in Members(z) \ Mods : (v \in ids) # (v \in z.op)}
             O == (z.op \ changed) \cup (changed \cap ids)
             A == (z.authOps \ (changed \cap Auth))
                    \cup (changed \cap ids \cap Auth)
             x == [z EXCEPT !.op = O, !.authOps = A]
  <2>1. changed \cap z.op = {}
    BY DEF Ops, IsOperator
  <2>2. z.op \subseteq O
    BY <2>1
  <2>3. O \in SUBSET User /\ A \in SUBSET User
    BY MembersType, <1>1 DEF SessionType
  <2>4. y = IF changed = {} THEN z ELSE DirectToAll(x)
    BY DEF SetOperators, SessionType
  <2> HIDE DEF changed, O, A
  <2>5. x \in SessionType /\ SameControl(z, x)
    BY <2>2, <2>3 DEF SessionType, SameControl
  <2> HIDE DEF x
  <2>6. SameControl(z, DirectToAll(x))
    BY <2>5, DirectToAllSame, SameControlTrans
  <2>7. SameControl(z, z)
    BY DEF SameControl
  <2> HIDE DEF y
  <2> QED BY <2>4, <2>6, <2>7
<1> HIDE DEF y
<1>3. M("Owner", NoUser, Ops(y), NoConf) \in Msg
  BY <1>1, OpsType, MType, NoConfType DEF MsgTypes, Stored
<1>4. SameControl(y, AddToHistory(y, M("Owner", NoUser, Ops(y), NoConf)))
  BY <1>1, <1>3, AddToHistorySame
<1> QED BY <1>2, <1>4, SameControlTrans DEF GrantOp, y

\* Nor does setting trusted flags.
LEMMA SetTrustedSame ==
  ASSUME NEW z \in SessionType, NEW ids \in SUBSET User
  PROVE  SameControl(z, SetTrusted(z, ids))
<1> DEFINE changed == {u \in Members(z) : (u \in ids) # (u \in z.trusted)}
           O == (z.trusted \ changed) \cup (changed \cap ids)
           A == (z.authTrusted \ (changed \cap Auth))
                  \cup (changed \cap ids \cap Auth)
           x == [z EXCEPT !.trusted = O, !.authTrusted = A]
<1>1. O \in SUBSET User /\ A \in SUBSET User
  BY MembersType DEF SessionType
<1>2. SetTrusted(z, ids) = IF changed = {} THEN z ELSE DirectToAll(x)
  BY DEF SetTrusted, SessionType
<1> HIDE DEF changed, O, A
<1>3. x \in SessionType /\ SameControl(z, x)
  BY <1>1 DEF SessionType, SameControl
<1> HIDE DEF x
<1>4. SameControl(z, DirectToAll(x))
  BY <1>3, DirectToAllSame, SameControlTrans
<1>5. SameControl(z, z)
  BY DEF SameControl
<1> QED BY <1>2, <1>4, <1>5

\* Nor does changing one user's trusted status.
LEMMA ChangeTrustedStatusSame ==
  ASSUME NEW z \in SessionType, NEW u \in User, NEW trusted \in BOOLEAN
  PROVE  SameControl(z, ChangeTrustedStatus(z, u, trusted))
<1> DEFINE ids == IF trusted THEN Trusteds(z) \cup {u} ELSE Trusteds(z) \ {u}
           y == SetTrusted(z, ids)
<1>1. ids \in SUBSET User
  BY OpsType
<1>2. y \in SessionType /\ SameControl(z, y)
  BY <1>1, SetTrustedType, SetTrustedSame
<1>3. ChangeTrustedStatus(z, u, trusted)
        = AddToHistory(y, M("Trusted", NoUser, Trusteds(y), NoConf))
  BY DEF ChangeTrustedStatus
<1> HIDE DEF y
<1>4. M("Trusted", NoUser, Trusteds(y), NoConf) \in Msg
  BY <1>2, OpsType, MType, NoConfType DEF MsgTypes, Stored
<1>5. SameControl(y, AddToHistory(y, M("Trusted", NoUser, Trusteds(y), NoConf)))
  BY <1>2, <1>4, AddToHistorySame
<1> QED BY <1>2, <1>3, <1>5, SameControlTrans

\* Making somebody operator removes nobody and disturbs no reset.
LEMMA EnsureOperatorExistsSame ==
  ASSUME NEW z \in SessionType
  PROVE  SameControl(z, EnsureOperatorExists(z))
<1>1. z.clients # <<>> => Head(z.clients) \in User
  BY HeadTailProperties DEF SessionType
<1>2. SameControl(z, z)
  BY DEF SameControl
<1> QED BY <1>1, <1>2, GrantOpSame DEF EnsureOperatorExists

\* A step that leaves the control alone keeps the invariant.
LEMMA SameKeepsCInv ==
  ASSUME NEW z, CInv(z), NEW y \in SessionType, SameControl(z, y)
  PROVE  CInv(y)
BY SameControlKeeps DEF CInv

\* killSession removes everyone, whatever the state.
LEMMA KillSessionCInv ==
  ASSUME NEW z \in SessionType, z.state # "Shutdown" \/ CInv(z)
  PROVE  CInv(KillSession(z))
<1>1. CASE z.state = "Shutdown"
  BY <1>1 DEF KillSession
<1>2. CASE z.state # "Shutdown"
  <2> DEFINE y == KillSession(z)
  <2>1. y \in SessionType
    BY KillSessionType
  <2>2. /\ y.state = "Shutdown" /\ y.releasing = FALSE /\ y.locked = {}
        /\ y.held = [u \in User |-> <<>>] /\ y.clients = <<>>
    BY <1>2 DEF KillSession, NoClients, SessionType
  <2> HIDE DEF y
  <2>3. \A u \in User : y.held[u] = <<>>
    BY <2>2
  <2>4. \A u \in User : Len(y.held[u]) = 0
    <3>1. Len(<<>>) = 0
      OBVIOUS
    <3> QED BY <2>3, <3>1
  <2>5. Control(y)
    BY <2>2, <2>3, <2>4 DEF Control
  <2> QED BY <2>1, <2>2, <2>5 DEF CInv, Resetting, y
<1> QED BY <1>1, <1>2

\* The server's reaction to a changed session keeps the invariant.
LEMMA AttributeChangedCInv ==
  ASSUME NEW z, CInv(z)
  PROVE  CInv(AttributeChanged(z))
BY KillSessionCInv DEF AttributeChanged, CInv

\* Storing the settings keeps the invariant.
LEMMA SendUpdatedSessionPropertiesCInv ==
  ASSUME NEW z, CInv(z)
  PROVE  CInv(SendUpdatedSessionProperties(z))
<1>1. z \in SessionType
  BY DEF CInv
<1> DEFINE y == AddToHistory(z, M("Conf", NoUser, {}, z.conf))
<1>2. M("Conf", NoUser, {}, z.conf) \in Msg
  BY <1>1, MType DEF SessionType, MsgTypes
<1>3. CInv(y)
  BY <1>1, <1>2, AddToHistoryType, AddToHistorySame, SameKeepsCInv
<1> QED BY <1>3, AttributeChangedCInv DEF SendUpdatedSessionProperties

\* Dropping the closed flag keeps the invariant.
LEMMA ReopenCInv ==
  ASSUME NEW z, CInv(z)
  PROVE  CInv(Reopen(z))
<1> DEFINE y == [z EXCEPT !.conf.flags = @ \ {"closed"}]
<1>1. y \in SessionType /\ SameControl(z, y)
  BY DEF CInv, SessionType, Conf, SameControl
<1> HIDE DEF y
<1>2. CInv(y)
  BY <1>1, SameKeepsCInv
<1> QED BY <1>2, SendUpdatedSessionPropertiesCInv DEF Reopen, y

\* A reset replaces the history and leaves the rest of the session; it shuts
\* down no session that has members.
LEMMA PerformResetSame ==
  ASSUME NEW z \in SessionType, z.clients # <<>>
  PROVE  SameControl(z, PerformReset(z))
<1> DEFINE image == ServerSideStateMessages(z) \o z.resetstream
           r == [z EXCEPT !.first = LastIndex(z) + 1, !.hist = image,
                          !.base = Len(image)]
           h == HistoryReset(z, image)
           a == AnnounceReset(h)
           c == AddToHistory(a, M("Conf", NoUser, {}, a.conf))
<1>1. image \in Seq(Msg)
  BY ServerSideStateMessagesType, ConcatProperties DEF SessionType
<1> HIDE DEF image
<1>0. Len(image) \in Nat
  BY <1>1
<1>2. r \in SessionType /\ SameControl(z, r)
  BY <1>0, <1>1, LastIndexType DEF SessionType, SameControl
<1>3. h = SendNextHistoryBatch(r, Members(z))
  BY DEF HistoryReset
<1> HIDE DEF r, h
<1>4. h \in SessionType /\ SameControl(z, h)
  BY <1>2, <1>3, SendNextHistoryBatchType, SendNextHistoryBatchSame,
     SameControlTrans
<1>5. a \in SessionType /\ SameControl(h, a)
  <2> DEFINE S == [u \in User |-> IF u \in Members(h) THEN <<>> ELSE h.seen[u]]
             x == [h EXCEPT !.seen = S, !.autoreset = "NotSent"]
  <2>1. S \in [User -> Seq(Msg)]
    BY <1>4, EmptyType DEF SessionType
  <2>2. a = DirectToAll(x)
    BY <1>4 DEF AnnounceReset, SessionType
  <2> HIDE DEF S
  <2>3. x \in SessionType /\ SameControl(h, x)
    BY <1>4, <2>1 DEF SessionType, SameControl
  <2> HIDE DEF x
  <2> QED BY <2>2, <2>3, DirectToAllType, DirectToAllSame, SameControlTrans
<1> HIDE DEF a
<1>6. c \in SessionType /\ SameControl(a, c)
  <2>1. M("Conf", NoUser, {}, a.conf) \in Msg
    BY <1>5, MType DEF SessionType, MsgTypes
  <2> QED BY <2>1, <1>5, AddToHistoryType, AddToHistorySame
<1>7. SendUpdatedSessionProperties(a) = AttributeChanged(c)
  BY DEF SendUpdatedSessionProperties
<1> HIDE DEF c
<1>8. SameControl(z, c)
  BY <1>4, <1>5, <1>6, SameControlTrans
<1>9. AttributeChanged(c) = c
  BY <1>8 DEF SameControl, AttributeChanged
<1>10. SameControl(z, SendUpdatedSessionProperties(a))
  BY <1>7, <1>8, <1>9
<1>11. SameControl(z, DirectToAll(z))
  BY DirectToAllSame
<1> QED BY <1>10, <1>11 DEF PerformReset, image, h, a

\* switchState(Running) ends a reset, or begins to release the clients on hold.
LEMMA SwitchToRunningCInv ==
  ASSUME NEW z \in SessionType, Control(z), ~z.releasing,
         z.state \in {"Initialization", "Reset"},
         z.state = "Reset" /\ z.resetstream # <<>> => z.clients # <<>>
  PROVE  CInv(SwitchToRunning(z))
<1> DEFINE y == [z EXCEPT !.initUser = NoUser]
           w == IF z.state = "Reset" /\ z.resetstream # <<>>
                THEN PerformReset(y) ELSE y
           v == [w EXCEPT !.resetstream = <<>>]
<1>1. /\ y \in SessionType /\ y.initUser = NoUser
      /\ y.state = z.state /\ y.clients = z.clients
      /\ y.releasing = z.releasing /\ y.locked = z.locked /\ y.held = z.held
  BY DEF SessionType
<1> HIDE DEF y
<1>2. w \in SessionType
  BY <1>1, PerformResetType
<1>3. /\ w.initUser = NoUser /\ w.state = z.state /\ w.clients = z.clients
      /\ w.releasing = z.releasing /\ w.locked = z.locked /\ w.held = z.held
  <2>1. CASE z.state = "Reset" /\ z.resetstream # <<>>
    <3>1. SameControl(y, PerformReset(y))
      BY <1>1, <2>1, PerformResetSame
    <3> QED BY <1>1, <2>1, <3>1 DEF SameControl
  <2>2. CASE ~(z.state = "Reset" /\ z.resetstream # <<>>)
    BY <1>1, <2>2
  <2> QED BY <2>1, <2>2
<1> HIDE DEF w
<1>4. /\ v \in SessionType /\ v.resetstream = <<>>
      /\ v.initUser = NoUser /\ v.state = z.state /\ v.clients = z.clients
      /\ v.releasing = FALSE /\ v.locked = z.locked /\ v.held = z.held
  <2>1. v \in SessionType
    BY <1>2, EmptyStream
  <2>2. /\ v.resetstream = <<>>
        /\ v.initUser = w.initUser /\ v.state = w.state
        /\ v.clients = w.clients /\ v.releasing = w.releasing
        /\ v.locked = w.locked /\ v.held = w.held
    BY <1>2 DEF SessionType
  <2>3. z.releasing = FALSE
    BY DEF SessionType
  <2> QED BY <2>1, <2>2, <2>3, <1>3
<1>5. SwitchToRunning(z) = Unlock(v)
  BY DEF SwitchToRunning, v, w, y
<1> HIDE DEF v
<1>6. Members(v) = Members(z) /\ v.locked \in SUBSET User
  BY <1>4 DEF Members, SessionType
<1>7. CASE v.locked \cap Members(v) = {}
  <2> DEFINE x == [v EXCEPT !.state = "Running"]
  <2>1. /\ x \in SessionType /\ x.state = "Running" /\ x.initUser = NoUser
        /\ x.resetstream = <<>> /\ x.releasing = FALSE
        /\ x.clients = v.clients /\ x.locked = v.locked /\ x.held = v.held
    BY <1>4, ZenonT(60) DEF SessionType, States
  <2>2. \A u \in User : u \notin z.locked /\ z.held[u] = <<>>
    BY <1>4, <1>6, <1>7 DEF Control
  <2>3. Control(x)
    BY <2>1, <2>2, <1>4 DEF Control
  <2>4. Unlock(v) = x
    BY <1>7 DEF Unlock
  <2> QED BY <1>5, <2>1, <2>3, <2>4 DEF CInv, Resetting
<1>8. CASE v.locked \cap Members(v) # {}
  <2> DEFINE x == [v EXCEPT !.releasing = TRUE]
  <2>1. /\ x \in SessionType /\ x.state = z.state /\ x.initUser = NoUser
        /\ x.resetstream = <<>> /\ x.locked = v.locked /\ x.held = v.held
        /\ x.clients = v.clients
    BY <1>4 DEF SessionType
  <2>2. z.state = "Initialization"
    BY <1>4, <1>6, <1>8 DEF Control
  <2>3. Members(x) = Members(z)
    BY <2>1, <1>4 DEF Members
  <2>4. Control(x)
    BY <2>1, <2>2, <2>3, <1>4, <1>8 DEF Control
  <2>5. Unlock(v) = x
    BY <1>8 DEF Unlock
  <2> QED BY <1>5, <2>1, <2>2, <2>4, <2>5 DEF CInv, Resetting
<1> QED BY <1>7, <1>8

\* init-cancel, and the end of a reset whose resetter is gone.
LEMMA AbortResetCInv ==
  ASSUME NEW z \in SessionType, Control(z), ~z.releasing,
         z.state \in {"Initialization", "Reset"}
  PROVE  CInv(AbortReset(z))
<1> DEFINE y == [z EXCEPT !.resetstream = <<>>]
<1>1. /\ y \in SessionType /\ y.resetstream = <<>> /\ y.state = z.state
      /\ y.initUser = z.initUser /\ y.clients = z.clients
      /\ y.releasing = z.releasing /\ y.locked = z.locked /\ y.held = z.held
  <2>1. y \in SessionType
    BY EmptyStream
  <2> QED BY <2>1 DEF SessionType
<1> HIDE DEF y
<1>2. Members(y) = Members(z)
  BY <1>1 DEF Members
<1>3. Control(y)
  BY <1>1, <1>2 DEF Control
<1>4. CInv(SwitchToRunning(y))
  BY <1>1, <1>3, SwitchToRunningCInv
<1>5. CInv(DirectToAll(SwitchToRunning(y)))
  BY <1>4, DirectToAllType, DirectToAllSame, SameKeepsCInv DEF CInv
<1> QED BY <1>5 DEF AbortReset, y

\* Removing one client leaves the others.
LEMMA WithoutMembers ==
  ASSUME NEW c \in Seq(User), NEW i \in 1..Len(c), NEW k \in 1..Len(c), k # i
  PROVE  \E j \in 1..Len(Without(c, i)) : Without(c, i)[j] = c[k]
<1>1. Len(c) \in Nat /\ Len(c) - 1 \in Nat
  OBVIOUS
<1>2. Without(c, i) \in Seq(User) /\ Len(Without(c, i)) = Len(c) - 1
  BY <1>1, WithoutType DEF Without
<1>3. CASE k < i
  <2>1. k \in 1..(Len(c) - 1)
    BY <1>1, <1>3
  <2>2. Without(c, i)[k] = c[k]
    BY <2>1, <1>3 DEF Without
  <2> QED BY <2>1, <2>2, <1>2
<1>4. CASE k > i
  <2>1. k - 1 \in 1..(Len(c) - 1) /\ ~(k - 1 < i) /\ (k - 1) + 1 = k
    BY <1>1, <1>4
  <2>2. Without(c, i)[k - 1] = c[k]
    BY <2>1 DEF Without
  <2> QED BY <2>1, <2>2, <1>2
<1> QED BY <1>3, <1>4

\* Taking a client out of the list keeps Control, whoever he is.
LEMMA RemoveClientControl ==
  ASSUME NEW z \in SessionType, NEW u \in Members(z), Control(z),
         ~z.releasing
  PROVE  /\ Control(RemoveClient(z, u))
         /\ ~RemoveClient(z, u).releasing
         /\ RemoveClient(z, u).state = z.state
         /\ RemoveClient(z, u).initUser = z.initUser
         /\ Ops(z) \ {u} \subseteq Ops(RemoveClient(z, u))
<1> DEFINE y == RemoveClient(z, u)
           i == CHOOSE k \in 1..Len(z.clients) : z.clients[k] = u
<1>1. /\ y \in SessionType
      /\ y.state = z.state /\ y.initUser = z.initUser
      /\ y.resetstream = z.resetstream /\ y.releasing = z.releasing
      /\ y.clients = Without(z.clients, i)
      /\ y.op = z.op \ {u} /\ y.locked = z.locked \ {u}
      /\ y.held = [z.held EXCEPT ![u] = <<>>]
  <2>1. y \in SessionType
    BY RemoveClientType
  <2> QED BY <2>1, ZenonT(60) DEF RemoveClient, Without, SessionType
<1>2. z.clients \in Seq(User) /\ i \in 1..Len(z.clients) /\ z.clients[i] = u
  BY DEF Members, SessionType
<1> HIDE DEF y, i
<1>3. ASSUME NEW v \in Members(z) \ {u} PROVE v \in Members(y)
  <2>1. PICK k \in 1..Len(z.clients) : z.clients[k] = v
    BY DEF Members
  <2>2. k # i
    BY <2>1, <1>2
  <2>3. \E j \in 1..Len(y.clients) : y.clients[j] = v
    BY <2>1, <2>2, <1>1, <1>2, WithoutMembers
  <2> QED BY <2>3 DEF Members
<1>4. u \in User /\ z.held \in [User -> Seq(Input)]
  BY MembersType DEF SessionType
<1>5. y.held[u] = <<>> /\ \A v \in User \ {u} : y.held[v] = z.held[v]
  BY <1>1, <1>4
<1>6. Len(y.held[u]) = 0
  BY <1>5
<1>7. Control(y)
  <2>1. ASSUME NEW v \in User, v \in y.locked \/ y.held[v] # <<>>
        PROVE  v \in Members(y) /\ v \in y.locked /\ y.state = "Initialization"
    <3>1. v # u /\ (v \in z.locked \/ z.held[v] # <<>>)
      BY <2>1, <1>1, <1>5
    <3> QED BY <3>1, <1>1, <1>3 DEF Control
  <2>2. ASSUME NEW v \in User, NEW k \in 1..Len(y.held[v])
        PROVE  y.held[v][k].t \notin Removing
    <3>1. CASE v = u
      BY <3>1, <1>6
    <3>2. CASE v # u
      BY <3>2, <1>5 DEF Control
    <3> QED BY <3>1, <3>2
  <2>3. z.state # "Shutdown"
    <3>1. Len(z.clients) # 0
      BY <1>2
    <3>2. z.clients # <<>>
      BY <3>1
    <3> QED BY <3>2 DEF Control
  <2> QED BY <2>1, <2>2, <2>3, <1>1 DEF Control
<1>8. Ops(z) \ {u} \subseteq Ops(y)
  BY <1>1, <1>3 DEF Ops, IsOperator
<1> QED BY <1>1, <1>7, <1>8 DEF y

\* removeUser: whoever leaves, also the resetter, leaves a session in order.
LEMMA RemoveUserCInv ==
  ASSUME NEW z \in SessionType, NEW u \in Members(z), Control(z),
         ~z.releasing,
         z.state = "Reset" /\ z.initUser # u => z.initUser \in Ops(z)
  PROVE  CInv(RemoveUser(z, u))
<1> DEFINE gone == RemoveClient(z, u)
           resumed == IF u = z.initUser /\ z.state = "Reset"
                      THEN AbortReset(gone) ELSE gone
           said == AddToHistory(resumed, M("Leave", u, {}, NoConf))
           logged == EnsureOperatorExists(said)
           opened == IF logged.clients = <<>> THEN Reopen(logged) ELSE logged
<1>1. /\ gone \in SessionType /\ Control(gone) /\ ~gone.releasing
      /\ gone.state = z.state /\ gone.initUser = z.initUser
      /\ Ops(z) \ {u} \subseteq Ops(gone)
  BY RemoveClientType, RemoveClientControl
<1> HIDE DEF gone
<1>2. CInv(resumed)
  <2>1. CASE u = z.initUser /\ z.state = "Reset"
    BY <2>1, <1>1, AbortResetCInv
  <2>2. CASE ~(u = z.initUser /\ z.state = "Reset")
    BY <2>2, <1>1 DEF CInv, Resetting
  <2> QED BY <2>1, <2>2
<1> HIDE DEF resumed
<1>3. M("Leave", u, {}, NoConf) \in Msg
  BY MembersType, MType, NoConfType DEF MsgTypes
<1>4. CInv(said)
  BY <1>2, <1>3, AddToHistoryType, AddToHistorySame, SameKeepsCInv DEF CInv
<1> HIDE DEF said
<1>5. CInv(logged)
  BY <1>4, EnsureOperatorExistsType, EnsureOperatorExistsSame, SameKeepsCInv
     DEF CInv
<1> HIDE DEF logged
<1>6. CInv(opened)
  BY <1>5, ReopenCInv
<1> HIDE DEF opened
<1>7. CInv(AttributeChanged(opened))
  BY <1>6, AttributeChangedCInv
<1> QED BY <1>7 DEF RemoveUser, opened, logged, said, resumed, gone

\* updateOwnership: the resetter either keeps operator status or is kicked.
LEMMA KickResetterCInv ==
  ASSUME NEW z, CInv(z), z.state = "Reset" => ~z.releasing,
         NEW ids \in SUBSET User
  PROVE  CInv(KickResetter(z, SetOperators(z, ids)))
<1> DEFINE y == SetOperators(z, ids)
<1>1. z \in SessionType /\ Control(z) /\ Resetting(z)
  BY DEF CInv
<1>2. /\ y \in SessionType /\ y.state = z.state /\ y.initUser = z.initUser
      /\ y.clients = z.clients /\ y.resetstream = z.resetstream
      /\ y.releasing = z.releasing /\ y.locked = z.locked /\ y.held = z.held
  <2>1. y \in SessionType
    BY <1>1, SetOperatorsType
  <2> QED BY <2>1, <1>1, ZenonT(60) DEF SetOperators, DirectToAll, DirectTo, SessionType
<1> HIDE DEF y
<1>3. Members(y) = Members(z)
  BY <1>2 DEF Members
<1>4. Control(y)
  BY <1>1, <1>2, <1>3 DEF Control
<1>5. CASE z.state = "Reset" /\ ~IsOperator(y, z.initUser)
  <2>1. z.initUser \in Members(z) /\ IsOperator(z, z.initUser)
    BY <1>1, <1>5 DEF Resetting, Ops
  <2>2. CInv(RemoveUser(y, z.initUser))
    BY <2>1, <1>2, <1>3, <1>4, <1>5, RemoveUserCInv
  <2> QED BY <2>1, <2>2, <1>5 DEF KickResetter, y
<1>6. CASE z.state = "Reset" /\ IsOperator(y, z.initUser)
  <2>1. Resetting(y)
    BY <1>1, <1>2, <1>3, <1>6 DEF Resetting, Ops
  <2>2. CInv(y)
    BY <2>1, <1>2, <1>4 DEF CInv
  <2> QED BY <2>2, <1>6 DEF KickResetter, y
<1>7. CASE z.state # "Reset"
  <2>1. CInv(y)
    BY <1>2, <1>4, <1>7 DEF CInv, Resetting
  <2> QED BY <2>1, <1>7 DEF KickResetter, y
<1> QED BY <1>5, <1>6, <1>7

\* deop: the resetter may be the one who loses operator status.
LEMMA RevokeOpCInv ==
  ASSUME NEW z, CInv(z), ~z.releasing, NEW u \in User
  PROVE  CInv(RevokeOp(z, u))
<1> DEFINE ids == Ops(z) \ {u}
           y == SetOperators(z, ids)
           k == KickResetter(z, y)
<1>1. z \in SessionType /\ ids \in SUBSET User
  BY OpsType DEF CInv
<1> HIDE DEF ids
<1>2. y \in SessionType /\ CInv(k)
  BY <1>1, SetOperatorsType, KickResetterCInv
<1> HIDE DEF y
<1>3. M("Owner", NoUser, Ops(y), NoConf) \in Msg
  BY <1>2, OpsType, MType, NoConfType DEF MsgTypes, Stored
<1> HIDE DEF k
<1>4. CInv(AddToHistory(k, M("Owner", NoUser, Ops(y), NoConf)))
  BY <1>2, <1>3, AddToHistoryType, AddToHistorySame, SameKeepsCInv DEF CInv
<1> QED BY <1>4 DEF RevokeOp, k, y, ids

\* The end of handleClientMessage: what the initializing user sends is added
\* to the history or to the reset stream, and one who sends too much is
\* removed, as the resetter of a reset that is still in order.
LEMMA StoreCInv ==
  ASSUME NEW z, CInv(z), NEW m \in Msg, m.by # NoUser
  PROVE  CInv(Store(z, m))
<1>1. z \in SessionType /\ Control(z) /\ Resetting(z)
  BY DEF CInv
<1>2. CInv(AddToHistory(z, m))
  BY <1>1, AddToHistoryType, AddToHistorySame, SameKeepsCInv
<1> DEFINE y == [z EXCEPT !.resetstream = Append(@, m)]
<1>3. ASSUME z.initUser = m.by, z.state = "Reset"
      PROVE  CInv(y) /\ CInv(RemoveUser(y, z.initUser))
  <2>1. Append(z.resetstream, m) \in Seq(Msg)
    BY <1>1, AppendProperties DEF SessionType
  <2>2. /\ y \in SessionType
        /\ y.state = z.state /\ y.initUser = z.initUser
        /\ y.clients = z.clients /\ y.releasing = z.releasing
        /\ y.locked = z.locked /\ y.held = z.held /\ y.op = z.op
    BY <1>1, <2>1 DEF SessionType
  <2> HIDE DEF y
  <2>3. Members(y) = Members(z) /\ Ops(y) = Ops(z)
    BY <2>2 DEF Members, Ops, IsOperator
  <2>4. Control(y) /\ Resetting(y) /\ ~y.releasing
    BY <1>1, <1>3, <2>2, <2>3 DEF Control, Resetting
  <2>5. z.initUser \in Members(y)
    BY <1>1, <1>3, <2>3 DEF Resetting, Ops
  <2> QED BY <2>2, <2>4, <2>5, RemoveUserCInv DEF CInv, Resetting
<1> HIDE DEF y
<1>4. z.initUser = m.by => CInv(AddToInitStream(z, m))
  BY <1>2, <1>3 DEF AddToInitStream, y
<1> QED BY <1>2, <1>4 DEF Store

\* MSG_SESSION_OWNER
LEMMA HandleOwnerCInv ==
  ASSUME NEW z, CInv(z), NEW in \in Input
  PROVE  CInv(HandleOwner(z, in))
<1> DEFINE ids == in.ids \cup {in.by}
           y == SetOperators(z, ids)
           k == KickResetter(z, y)
<1>1. /\ z \in SessionType /\ in.by \in User /\ ids \in SUBSET User
      /\ in.by # NoUser
  BY UserAssumption DEF CInv, Input
<1>2. z.state = "Reset" => ~z.releasing
  BY DEF CInv, Control
<1> HIDE DEF ids
<1>3. y \in SessionType /\ CInv(k)
  BY <1>1, <1>2, SetOperatorsType, KickResetterCInv
<1> HIDE DEF y, k
<1> DEFINE m == M("Owner", in.by, Ops(y), NoConf)
<1>4. m \in Msg /\ m.by = in.by
  <2>1. m \in Msg
    BY <1>1, <1>3, OpsType, MType, NoConfType DEF MsgTypes, Stored
  <2>2. m.by = in.by
    BY DEF M
  <2> QED BY <2>1, <2>2
<1> HIDE DEF m
<1>5. CInv(Store(k, m))
  BY <1>1, <1>3, <1>4, StoreCInv
<1>6. CInv(DirectToAll(z))
  BY <1>1, DirectToAllType, DirectToAllSame, SameKeepsCInv
<1> QED BY <1>5, <1>6 DEF HandleOwner, m, k, y, ids

\* MSG_TRUSTED_USERS
LEMMA HandleTrustedCInv ==
  ASSUME NEW z, CInv(z), NEW in \in Input
  PROVE  CInv(HandleTrusted(z, in))
<1> DEFINE y == SetTrusted(z, in.ids)
<1>1. /\ z \in SessionType /\ in.by \in User /\ in.ids \in SUBSET User
      /\ in.by # NoUser
  BY UserAssumption DEF CInv, Input
<1>2. y \in SessionType /\ CInv(y)
  BY <1>1, SetTrustedType, SetTrustedSame, SameKeepsCInv
<1> HIDE DEF y
<1> DEFINE m == M("Trusted", in.by, Trusteds(y), NoConf)
<1>3. m \in Msg /\ m.by = in.by
  <2>1. m \in Msg
    BY <1>1, <1>2, OpsType, MType, NoConfType DEF MsgTypes, Stored
  <2>2. m.by = in.by
    BY DEF M
  <2> QED BY <2>1, <2>2
<1> HIDE DEF m
<1>4. CInv(Store(y, m))
  BY <1>1, <1>2, <1>3, StoreCInv
<1>5. CInv(DirectToAll(z))
  BY <1>1, DirectToAllType, DirectToAllSame, SameKeepsCInv
<1> QED BY <1>4, <1>5 DEF HandleTrusted, m, y

\* setSessionConfig may only shut an empty session down.
LEMMA SetSessionConfigCInv ==
  ASSUME NEW z, CInv(z), NEW conf \in Conf, NEW setter
  PROVE  CInv(SetSessionConfig(z, conf, setter))
<1> DEFINE new == Granted(z, conf, setter)
           y == [z EXCEPT !.conf = new]
<1>1. z \in SessionType /\ new \in Conf
  BY GrantedType DEF CInv
<1> HIDE DEF new
<1>2. y \in SessionType /\ SameControl(z, y)
  BY <1>1 DEF SessionType, SameControl
<1> HIDE DEF y
<1> DEFINE x == SendUpdatedSessionProperties(y)
<1>3. CInv(x)
  BY <1>2, SameKeepsCInv, SendUpdatedSessionPropertiesCInv
<1> HIDE DEF x
<1>4. CInv(DirectToAll(x))
  BY <1>3, DirectToAllType, DirectToAllSame, SameKeepsCInv DEF CInv
<1> QED BY <1>4 DEF SetSessionConfig, x, y, new

\* kickUser may remove the resetter too.
LEMMA KickUserCInv ==
  ASSUME NEW z, CInv(z), ~z.releasing, NEW in \in Input
  PROVE  CInv(KickUser(z, in))
<1> DEFINE target == Target(in)
           b == [z EXCEPT !.banned = @ \cup {target}]
           x == IF in.t = "ban-user" THEN b ELSE z
           y == DirectToAll(x)
<1>1. z \in SessionType /\ Control(z) /\ Resetting(z)
  BY DEF CInv
<1>2. CInv(DirectTo(z, {in.by}))
  BY <1>1, DirectToType, DirectToSame, SameKeepsCInv
<1>3. CASE target \in User
  <2>1. b \in SessionType /\ SameControl(z, b) /\ SameControl(z, z)
    BY <1>1, <1>3 DEF SessionType, SameControl
  <2> HIDE DEF b
  <2>2. x \in SessionType /\ SameControl(z, x)
    BY <2>1, <1>1
  <2> HIDE DEF x
  <2>3. y \in SessionType /\ SameControl(z, y)
    BY <2>2, DirectToAllType, DirectToAllSame, SameControlTrans
  <2> HIDE DEF y
  <2>4. CInv(y)
    BY <2>3, SameKeepsCInv
  <2>5. Members(y) = Members(z) /\ ~y.releasing
    BY <2>3 DEF SameControl, Members
  <2>6. target \in Members(z) => CInv(RemoveUser(y, target))
    BY <2>4, <2>5, RemoveUserCInv DEF CInv, Resetting
  <2> QED BY <2>4, <2>6, <1>2 DEF KickUser, y, x, b
<1>4. CASE target \notin User
  <2>1. target \notin z.past /\ target \notin Members(z)
    BY <1>1, <1>4, MembersType DEF SessionType
  <2> QED BY <2>1, <1>2 DEF KickUser
<1> QED BY <1>3, <1>4

\* readyToAutoReset, removeBan and setMute touch nothing the invariant reads.
LEMMA SmallCommandsCInv ==
  ASSUME NEW z, CInv(z), NEW in \in Input
  PROVE  /\ CInv(ReadyToAutoReset(z))
         /\ CInv(RemoveBan(z, Target(in)))
         /\ CInv(SetMute(z, in))
<1>1. z \in SessionType
  BY DEF CInv
<1>2. /\ ReadyToAutoReset(z) \in SessionType
      /\ RemoveBan(z, Target(in)) \in SessionType
      /\ SetMute(z, in) \in SessionType
  BY <1>1, SmallCommandsType
<1>3. SameControl(z, ReadyToAutoReset(z))
  BY <1>1 DEF ReadyToAutoReset, DirectToAll, DirectTo, SameControl, SessionType
<1>4. SameControl(z, RemoveBan(z, Target(in)))
  BY <1>1 DEF RemoveBan, DirectToAll, DirectTo, SameControl, SessionType
<1>5. SameControl(z, SetMute(z, in))
  BY <1>1 DEF SetMute, DirectToAll, DirectTo, SameControl, SessionType
<1> QED BY <1>2, <1>3, <1>4, <1>5, SameKeepsCInv

\* resetSession: the operator who asks becomes the resetter.
LEMMA ResetSessionCInv ==
  ASSUME NEW z, CInv(z), z.state = "Running", NEW u \in Ops(z)
  PROVE  CInv(ResetSession(z, u))
<1>1. z \in SessionType /\ Control(z) /\ u \in User
  BY OpsType DEF CInv
<1> DEFINE E == <<>>
           y == [z EXCEPT !.state = "Reset", !.initUser = u,
                          !.resetstream = E]
<1>2. E \in Seq(Msg)
  BY EmptyType
<1> HIDE DEF E
<1>3. /\ y \in SessionType /\ y.state = "Reset" /\ y.initUser = u
      /\ y.clients = z.clients /\ y.releasing = z.releasing
      /\ y.locked = z.locked /\ y.held = z.held /\ y.op = z.op
  BY <1>1, <1>2 DEF SessionType, States
<1> HIDE DEF y
<1>4. Members(y) = Members(z) /\ Ops(y) = Ops(z)
  BY <1>3 DEF Members, Ops, IsOperator
<1>5. Control(y) /\ Resetting(y)
  BY <1>1, <1>3, <1>4 DEF Control, Resetting
<1>6. CInv(DirectToAll(y))
  BY <1>3, <1>5, DirectToAllType, DirectToAllSame, SameKeepsCInv DEF CInv
<1> QED BY <1>6 DEF ResetSession, y, E

\* A session with members has not been shut down.
LEMMA MembersAlive ==
  ASSUME NEW z, CInv(z), Members(z) # {}
  PROVE  z.state \in {"Initialization", "Running", "Reset"} /\ z.clients # <<>>
<1>1. z.state \in States
  BY DEF CInv, SessionType
<1>2. Len(<<>>) = 0
  OBVIOUS
<1>3. z.clients # <<>>
  BY <1>2 DEF Members
<1> QED BY <1>1, <1>3 DEF CInv, Control, States

\* Every command keeps the session in order: of a member at any time, and of
\* a client that is being released, unless the command removes somebody.
LEMMA HandleCommandCInv ==
  ASSUME NEW z, CInv(z), NEW in \in Input,
         z.releasing => in.t \notin Removing,
         ~z.releasing => in.by \in Members(z)
  PROVE  CInv(HandleCommand(z, in))
<1>1. z \in SessionType /\ Control(z) /\ Resetting(z)
  BY DEF CInv
<1>2. in.by \in User /\ in.by # NoUser /\ in.conf \in Conf
  BY UserAssumption DEF Input
<1>3. CInv(DirectTo(z, {in.by})) /\ CInv(DirectToAll(z))
  BY <1>1, DirectToType, DirectToSame, DirectToAllType, DirectToAllSame,
     SameKeepsCInv
<1>4. ASSUME in.by = z.initUser
      PROVE  /\ ~z.releasing /\ z.clients # <<>>
             /\ z.state \in {"Initialization", "Reset"}
  BY <1>1, <1>2, <1>4, MembersAlive DEF Control
<1>5. ASSUME in.by = z.initUser
      PROVE  /\ CInv([z EXCEPT !.resetstream = <<>>])
             /\ CInv(SwitchToRunning(z))
             /\ CInv(AbortReset(z))
  <2>1. CInv(SwitchToRunning(z)) /\ CInv(AbortReset(z))
    BY <1>1, <1>4, <1>5, SwitchToRunningCInv, AbortResetCInv
  <2> DEFINE y == [z EXCEPT !.resetstream = <<>>]
  <2>2. y \in SessionType
    BY <1>1, EmptyStream
  <2>3. /\ y.resetstream = <<>> /\ y.state = z.state
        /\ y.initUser = z.initUser /\ y.clients = z.clients
        /\ y.releasing = z.releasing /\ y.locked = z.locked
        /\ y.held = z.held /\ y.op = z.op
    BY <1>1 DEF SessionType
  <2> HIDE DEF y
  <2>4. Members(y) = Members(z) /\ Ops(y) = Ops(z)
    BY <2>3 DEF Members, Ops, IsOperator
  <2>5. Control(y) /\ Resetting(y)
    BY <1>1, <2>3, <2>4 DEF Control, Resetting
  <2>6. CInv(y)
    BY <2>2, <2>5 DEF CInv
  <2> QED BY <2>1, <2>6 DEF y
<1>6. CInv(SetSessionConfig(z, in.conf, in.by))
  BY <1>2, SetSessionConfigCInv
<1>7. in.t \in {"kick-user", "ban-user"} => CInv(KickUser(z, in))
  BY KickUserCInv DEF Removing
<1>8. CInv(GrantOp(z, in.by))
  BY <1>1, <1>2, GrantOpType, GrantOpSame, SameKeepsCInv
<1>9. in.t = "reset-session" /\ MayRun(z, in.t, in.by) /\ z.state = "Running"
      => CInv(ResetSession(z, in.by))
  <2> SUFFICES ASSUME in.t = "reset-session", MayRun(z, in.t, in.by),
                      z.state = "Running"
               PROVE  CInv(ResetSession(z, in.by))
    OBVIOUS
  <2>1. ~z.releasing
    BY <1>1 DEF Control
  <2>2. in.by \in Ops(z)
    BY <2>1 DEF MayRun, Ops
  <2> QED BY <2>2, ResetSessionCInv
<1>10. CInv(KillSession(z))
  BY <1>1, KillSessionCInv
<1>11. /\ CInv(ReadyToAutoReset(z))
       /\ CInv(RemoveBan(z, Target(in)))
       /\ CInv(SetMute(z, in))
  BY SmallCommandsCInv
<1> QED BY <1>3, <1>5, <1>6, <1>7, <1>8, <1>9, <1>10, <1>11
        DEF HandleCommand

\* The same for every message.
LEMMA HandleClientMessageCInv ==
  ASSUME NEW z, CInv(z), NEW in \in Input,
         z.releasing => in.t \notin Removing,
         ~z.releasing => in.by \in Members(z)
  PROVE  CInv(HandleClientMessage(z, in))
<1>1. z \in SessionType /\ in.by # NoUser
  BY UserAssumption DEF CInv, Input
<1>2. in.t \in {"Draw", "Chat"} => in \in Msg
  BY DEF Input, Msg, MsgTypes, Stored
<1>3. in.t \in {"Draw", "Chat"} => CInv(Store(z, in))
  BY <1>1, <1>2, StoreCInv
<1>4. CInv(DirectToAll(z)) /\ CInv(DirectTo(z, {in.by, Target(in)}))
  BY <1>1, DirectToType, DirectToSame, DirectToAllType, DirectToAllSame,
     SameKeepsCInv
<1>5. /\ CInv(HandleOwner(z, in)) /\ CInv(HandleTrusted(z, in))
      /\ CInv(HandleCommand(z, in))
  BY HandleOwnerCInv, HandleTrustedCInv, HandleCommandCInv
<1> QED BY <1>3, <1>4, <1>5 DEF HandleClientMessage

\* joinUser: a guest of a session that is being initialized is put on hold.
LEMMA JoinUserCInv ==
  ASSUME NEW z, CInv(z), ~z.releasing, z.state # "Shutdown",
         NEW u \in User, u \notin Members(z), NEW host \in BOOLEAN,
         host => z.state = "Initialization"
  PROVE  CInv(JoinUser(z, u, host))
<1> DEFINE C == Append(z.clients, u)
           A == z.past \ {u}
           I == IF host THEN u ELSE z.initUser
           L == IF ~host /\ z.state = "Initialization"
                THEN z.locked \cup {u} ELSE z.locked
           T == z.uploading \cup {u}
           y == [z EXCEPT !.clients = C, !.past = A, !.initUser = I,
                          !.locked = L, !.uploading = T]
           joined == AddToHistory(y, M("Join", u, {}, NoConf))
           opped == IF IsOperator(joined, u) \/ u \in joined.authOps
                    THEN GrantOp(joined, u) ELSE joined
           trusted == IF u \in TrustFlag \cup opped.authTrusted
                      THEN ChangeTrustedStatus(opped, u, TRUE) ELSE opped
           last == EnsureOperatorExists(trusted)
<1>0. z \in SessionType /\ Control(z) /\ Resetting(z) /\ z.clients \in Seq(User)
  BY DEF CInv, SessionType
<1>1. /\ C \in Seq(User) /\ Len(C) = Len(z.clients) + 1
      /\ C[Len(C)] = u
      /\ \A i \in 1..Len(z.clients) : C[i] = z.clients[i]
  BY <1>0, AppendProperties
<1>2. /\ A \in SUBSET User /\ I \in User \cup {NoUser}
      /\ L \in SUBSET User /\ T \in SUBSET User
  BY <1>0 DEF SessionType
<1>3. y = [z EXCEPT
             !.clients = Append(@, u), !.past = @ \ {u},
             !.initUser = IF host THEN u ELSE @,
             !.locked = IF ~host /\ z.state = "Initialization"
                        THEN @ \cup {u} ELSE @,
             !.uploading = @ \cup {u}]
  BY <1>0 DEF SessionType
<1> HIDE DEF C, A, T
<1>4. /\ y \in SessionType /\ y.state = z.state /\ y.initUser = I
      /\ y.clients = C /\ y.resetstream = z.resetstream
      /\ y.releasing = z.releasing /\ y.locked = L /\ y.held = z.held
      /\ y.op = z.op
  <2> HIDE DEF I, L
  <2> QED BY <1>0, <1>1, <1>2 DEF SessionType
<1> HIDE DEF y
<1>5. Members(z) \subseteq Members(y) /\ u \in Members(y)
  <2>1. Len(z.clients) \in Nat /\ Len(C) \in 1..Len(C)
    BY <1>0, <1>1
  <2> QED BY <2>1, <1>0, <1>1, <1>4 DEF Members
<1>6. Control(y)
  <2>1. /\ y.state = "Running" => y.initUser = NoUser
        /\ y.state \in {"Initialization", "Running"} => y.resetstream = <<>>
        /\ y.state = "Shutdown" => y.clients = <<>>
        /\ ~y.releasing
    BY <1>0, <1>4 DEF Control
  <2>2. ASSUME NEW v \in User, v \in y.locked \/ y.held[v] # <<>>
        PROVE  v \in Members(y) /\ v \in y.locked /\ y.state = "Initialization"
    BY <2>2, <1>0, <1>4, <1>5 DEF Control
  <2>3. \A v \in User : \A i \in 1..Len(y.held[v]) :
           y.held[v][i].t \notin Removing
    BY <1>0, <1>4 DEF Control
  <2> QED BY <2>1, <2>2, <2>3 DEF Control
<1>7. Resetting(y)
  BY <1>0, <1>4, <1>5 DEF Resetting, Ops, IsOperator
<1>8. CInv(y)
  BY <1>4, <1>6, <1>7 DEF CInv
<1> HIDE DEF I, L
<1>9. CInv(joined)
  <2>1. M("Join", u, {}, NoConf) \in Msg
    BY MType, NoConfType DEF MsgTypes
  <2> QED BY <1>8, <2>1, AddToHistoryType, AddToHistorySame, SameKeepsCInv
          DEF CInv
<1> HIDE DEF joined
<1>10. CInv(opped)
  BY <1>9, GrantOpType, GrantOpSame, SameKeepsCInv DEF CInv
<1> HIDE DEF opped
<1>11. CInv(trusted)
  BY <1>10, ChangeTrustedStatusType, ChangeTrustedStatusSame, SameKeepsCInv
     DEF CInv
<1> HIDE DEF trusted
<1>12. CInv(last)
  BY <1>11, EnsureOperatorExistsType, EnsureOperatorExistsSame, SameKeepsCInv
     DEF CInv
<1> HIDE DEF last
<1>13. CInv(DirectToAll(last))
  BY <1>12, DirectToAllType, DirectToAllSame, SameKeepsCInv DEF CInv
<1> QED BY <1>3, <1>13 DEF JoinUser, last, trusted, opped, joined

\* A session before its host joins is in order.
LEMMA EmptySessionCInv == CInv(EmptySession)
<1>1. EmptySession \in SessionType
  BY EmptySessionType
<1>2. /\ EmptySession.state = "Initialization" /\ ~EmptySession.releasing
      /\ EmptySession.locked = {} /\ EmptySession.resetstream = <<>>
      /\ EmptySession.held = [u \in User |-> <<>>]
  BY DEF EmptySession
<1>3. Len(<<>>) = 0
  OBVIOUS
<1>4. \A u \in User : EmptySession.held[u] = <<>>
                      /\ Len(EmptySession.held[u]) = 0
  BY <1>2, <1>3
<1> QED BY <1>1, <1>2, <1>4 DEF CInv, Control, Resetting

-----------------------------------------------------------------------------
(* The actions.                                                            *)

\* The loop of switchState finds a client to unlock.
LEMMA NextLockedIsLocked ==
  ASSUME CInv(s), s.releasing
  PROVE  NextLocked \in s.locked /\ NextLocked \in Members(s)
<1>1. s \in SessionType /\ Control(s)
  BY DEF CInv
<1>2. s.clients \in Seq(User) /\ s.locked \in SUBSET User
  BY <1>1 DEF SessionType
<1> DEFINE at == {i \in 1..Len(s.clients) : s.clients[i] \in s.locked}
           R == {ss \in Nat \X Nat : ss[1] < ss[2]}
<1>3. PICK u \in User : u \in s.locked
  BY <1>1, <1>2 DEF Control
<1>4. u \in Members(s)
  BY <1>1, <1>3 DEF Control
<1>5. at # {} /\ at \subseteq Nat
  BY <1>2, <1>3, <1>4 DEF Members
<1>6. IsWellFoundedOn(R, Nat)
  BY NatLessThanWellFounded DEF OpToRel
<1> HIDE DEF R
<1>7. PICK k \in at : \A j \in at : ~(<<j, k>> \in R)
  BY <1>5, <1>6, WFMin
<1>8. ASSUME NEW j \in 1..(k - 1) PROVE s.clients[j] \notin s.locked
  <2>1. j \in Nat /\ k \in Nat /\ k \in 1..Len(s.clients)
        /\ Len(s.clients) \in Nat /\ j < k
    BY <1>2, <1>5, <1>8
  <2>2. <<j, k>> \in R
    BY <2>1 DEF R
  <2>3. j \in 1..Len(s.clients)
    BY <2>1, <1>8
  <2> QED BY <2>2, <2>3, <1>7
<1>9. \E i \in 1..Len(s.clients) :
        /\ s.clients[i] \in s.locked
        /\ \A j \in 1..(i - 1) : s.clients[j] \notin s.locked
  BY <1>8
<1> DEFINE P(i) == /\ s.clients[i] \in s.locked
                   /\ \A j \in 1..(i - 1) : s.clients[j] \notin s.locked
           n == CHOOSE i \in 1..Len(s.clients) : P(i)
<1>10. n \in 1..Len(s.clients) /\ s.clients[n] \in s.locked
  BY <1>9
<1>11. NextLocked = s.clients[n]
  BY DEF NextLocked
<1> HIDE DEF n
<1> QED BY <1>10, <1>11 DEF Members

\* The loop takes the first message out of a hold queue: what is left removes
\* nobody either.
LEMMA TakeHeld ==
  ASSUME CInv(s), s.releasing, NEW u, u = NextLocked,
         NEW h, h = s.held[u], h # <<>>,
         NEW H, H = [s.held EXCEPT ![u] = Tail(h)],
         NEW x, x = [s EXCEPT !.held = H]
  PROVE  /\ u \in User /\ h \in Seq(Input)
         /\ Head(h) \in Input /\ Head(h) = h[1] /\ 1 \in 1..Len(h)
         /\ Head(h).t \notin Removing
         /\ H[u] = Tail(h) /\ \A v \in User \ {u} : H[v] = s.held[v]
         /\ \A i \in 1..Len(Tail(h)) :
              i + 1 \in 1..Len(h) /\ Tail(h)[i] = h[i + 1]
         /\ CInv(x) /\ x.releasing
<1>1. s \in SessionType /\ Control(s) /\ Resetting(s) /\ s.releasing
  BY DEF CInv
<1>2. u \in s.locked /\ u \in Members(s) /\ u \in User
  BY <1>1, NextLockedIsLocked, MembersType
<1>3. h \in Seq(Input) /\ s.held \in [User -> Seq(Input)]
  BY <1>1, <1>2 DEF SessionType
<1>4. /\ Head(h) \in Input /\ Tail(h) \in Seq(Input)
      /\ Len(Tail(h)) = Len(h) - 1
      /\ \A i \in 1..Len(Tail(h)) : Tail(h)[i] = h[i + 1]
      /\ Head(h) = h[1]
  BY <1>3, HeadTailProperties
<1>5. Len(h) \in Nat /\ Len(h) >= 1 /\ 1 \in 1..Len(h)
  BY <1>3
<1>6. Head(h).t \notin Removing
  BY <1>1, <1>2, <1>4, <1>5 DEF Control
<1>7. /\ H \in [User -> Seq(Input)] /\ H[u] = Tail(h)
      /\ \A v \in User \ {u} : H[v] = s.held[v]
  BY <1>2, <1>3, <1>4
<1>8. \A i \in 1..Len(Tail(h)) : i + 1 \in 1..Len(h) /\ Tail(h)[i] = h[i + 1]
  BY <1>4, <1>5
<1>9. /\ x \in SessionType /\ x.state = s.state /\ x.initUser = s.initUser
      /\ x.resetstream = s.resetstream /\ x.clients = s.clients
      /\ x.releasing = s.releasing /\ x.locked = s.locked /\ x.held = H
  BY <1>1, <1>7, ZenonT(60) DEF SessionType
<1>10. Members(x) = Members(s)
  BY <1>9 DEF Members
<1>11. ASSUME NEW v \in User, NEW i \in 1..Len(H[v])
       PROVE  H[v][i].t \notin Removing
  <2>1. CASE v = u
    <3>1. i + 1 \in 1..Len(h) /\ H[v][i] = h[i + 1]
      BY <1>7, <1>8, <1>11, <2>1
    <3> QED BY <1>1, <1>2, <3>1 DEF Control
  <2>2. CASE v # u
    BY <1>1, <1>7, <2>2 DEF Control
  <2> QED BY <2>1, <2>2
<1>12. ASSUME NEW v \in User, v \in x.locked \/ x.held[v] # <<>>
       PROVE  v \in Members(x) /\ v \in x.locked /\ x.state = "Initialization"
  <2>1. v = u \/ v \in s.locked \/ s.held[v] # <<>>
    BY <1>7, <1>9, <1>12
  <2> QED BY <1>1, <1>2, <1>9, <1>10, <2>1 DEF Control
<1>13. Control(x)
  BY <1>1, <1>9, <1>11, <1>12 DEF Control
<1>14. CInv(x) /\ x.releasing
  BY <1>1, <1>9, <1>13 DEF CInv, Resetting, Control
<1> QED BY <1>2, <1>3, <1>4, <1>5, <1>6, <1>7, <1>8, <1>14

\* A step of the release handles one held message, which removes nobody, or
\* unlocks one client; the last one makes the session run.
LEMMA ReleaseHeldCInv ==
  ASSUME CInv(s), ReleaseHeld
  PROVE  CInv(s')
<1> DEFINE u == NextLocked
           h == s.held[u]
           y == [s EXCEPT !.locked = @ \ {u}]
           H == [s.held EXCEPT ![u] = Tail(h)]
           x == [s EXCEPT !.held = H]
<1>1. s \in SessionType /\ Control(s) /\ Resetting(s) /\ s.releasing
  BY DEF CInv, ReleaseHeld
<1>2. u \in s.locked /\ u \in Members(s) /\ u \in User
  BY <1>1, NextLockedIsLocked, MembersType
<1>3. s' = IF h # <<>> THEN HandleClientMessage(x, Head(h))
           ELSE IF y.locked \cap Members(y) # {} THEN y
           ELSE [y EXCEPT !.state = "Running", !.releasing = FALSE]
  BY <1>1 DEF ReleaseHeld, SessionType
<1> HIDE DEF u
<1>4. h \in Seq(Input) /\ s.held \in [User -> Seq(Input)]
  BY <1>1, <1>2 DEF SessionType
<1>5. CASE h # <<>>
  <2>1. /\ Head(h) \in Input /\ Head(h).t \notin Removing
        /\ CInv(x) /\ x.releasing
    BY <1>1, <1>5, TakeHeld DEF u
  <2> HIDE DEF x, h
  <2>2. CInv(HandleClientMessage(x, Head(h)))
    BY <2>1, HandleClientMessageCInv
  <2> QED BY <1>3, <1>5, <2>2
<1>6. CASE h = <<>>
  <2>1. /\ y \in SessionType /\ y.state = s.state /\ y.initUser = s.initUser
        /\ y.resetstream = s.resetstream /\ y.clients = s.clients
        /\ y.releasing = s.releasing /\ y.locked = s.locked \ {u}
        /\ y.held = s.held
    BY <1>1 DEF SessionType
  <2> HIDE DEF y
  <2>2. Members(y) = Members(s)
    BY <2>1 DEF Members
  <2>3. /\ s.state = "Initialization" /\ s.initUser = NoUser
        /\ s.resetstream = <<>>
    BY <1>1 DEF Control
  <2>4. ASSUME NEW v \in User, v \in y.locked \/ y.held[v] # <<>>
        PROVE  v \in Members(y) /\ v \in y.locked
    <3>1. v # u
      BY <1>6, <2>1, <2>4
    <3> QED BY <3>1, <2>1, <2>2, <2>4, <1>1 DEF Control
  <2>5. CASE y.locked \cap Members(y) # {}
    <3>1. Control(y)
      BY <1>1, <2>1, <2>3, <2>4, <2>5 DEF Control
    <3> QED BY <3>1, <2>1, <2>3, <2>5, <1>3, <1>6 DEF CInv, Resetting
  <2>6. CASE y.locked \cap Members(y) = {}
    <3> DEFINE w == [y EXCEPT !.state = "Running", !.releasing = FALSE]
    <3>1. /\ w \in SessionType /\ w.state = "Running" /\ w.initUser = NoUser
          /\ w.resetstream = <<>> /\ w.releasing = FALSE
          /\ w.locked = y.locked /\ w.held = y.held
      BY <2>1, <2>3 DEF SessionType, States
    <3>2. s' = w
      BY <2>6, <1>3, <1>6
    <3> HIDE DEF w
    <3>3. \A v \in User : v \notin y.locked /\ y.held[v] = <<>>
      BY <2>4, <2>6
    <3>4. Control(w)
      BY <1>1, <2>1, <3>1, <3>3 DEF Control
    <3> QED BY <3>1, <3>2, <3>4 DEF CInv, Resetting
  <2> QED BY <2>5, <2>6
<1> QED BY <1>5, <1>6

\* A message is put into the hold queue of its sender, unless it removes
\* somebody, or is handled.
LEMMA ReceiveCInv ==
  ASSUME CInv(s), NEW in \in Input, Receive(in)
  PROVE  CInv(s')
<1>1. /\ s \in SessionType /\ Control(s) /\ Resetting(s)
      /\ ~s.releasing /\ in.by \in Members(s) /\ in.by \in User
  BY MembersType DEF CInv, Receive, Idle
<1>2. CASE in.by \notin s.locked
  <2>1. s' = HandleClientMessage(s, in)
    BY <1>2 DEF Receive
  <2> QED BY <2>1, <1>1, HandleClientMessageCInv
<1>3. CASE in.by \in s.locked
  <2> DEFINE u == in.by
             h == s.held[u]
             H == [s.held EXCEPT ![u] = Append(h, in)]
             x == [s EXCEPT !.held = H]
  <2>1. s.held \in [User -> Seq(Input)] /\ h \in Seq(Input)
        /\ Len(h) \in Nat
    BY <1>1 DEF SessionType
  <2>2. s' = x /\ in.t \notin Removing
    BY <1>1, <1>3 DEF Receive, SessionType
  <2>3. /\ Append(h, in) \in Seq(Input) /\ Len(Append(h, in)) = Len(h) + 1
        /\ \A i \in 1..Len(h) : Append(h, in)[i] = h[i]
        /\ Append(h, in)[Len(h) + 1] = in
    BY <2>1, AppendProperties
  <2>4. /\ H \in [User -> Seq(Input)] /\ H[u] = Append(h, in)
        /\ \A v \in User \ {u} : H[v] = s.held[v]
    BY <1>1, <2>1, <2>3
  <2> HIDE DEF H, h
  <2>5. /\ x \in SessionType /\ x.state = s.state /\ x.initUser = s.initUser
        /\ x.resetstream = s.resetstream /\ x.clients = s.clients
        /\ x.releasing = s.releasing /\ x.locked = s.locked /\ x.held = H
        /\ x.op = s.op
    BY <1>1, <2>4 DEF SessionType
  <2> HIDE DEF x
  <2>6. Members(x) = Members(s) /\ Ops(x) = Ops(s)
    BY <2>5 DEF Members, Ops, IsOperator
  <2>7. ASSUME NEW v \in User, NEW i \in 1..Len(H[v])
        PROVE  H[v][i].t \notin Removing
    <3>1. CASE v = u
      <4>1. i \in 1..Len(h) \/ i = Len(h) + 1
        BY <3>1, <2>1, <2>3, <2>4, <2>7
      <4>2. CASE i \in 1..Len(h)
        BY <4>2, <3>1, <2>3, <2>4, <1>1 DEF Control, h
      <4>3. CASE i = Len(h) + 1
        BY <4>3, <3>1, <2>2, <2>3, <2>4
      <4> QED BY <4>1, <4>2, <4>3
    <3>2. CASE v # u
      BY <3>2, <2>4, <1>1 DEF Control
    <3> QED BY <3>1, <3>2
  <2>8. ASSUME NEW v \in User, v \in x.locked \/ x.held[v] # <<>>
        PROVE  v \in Members(x) /\ v \in x.locked /\ x.state = "Initialization"
    <3>1. v = u \/ v \in s.locked \/ s.held[v] # <<>>
      BY <2>4, <2>5, <2>8
    <3> QED BY <3>1, <1>1, <1>3, <2>5, <2>6 DEF Control
  <2>9. Control(x)
    BY <1>1, <2>5, <2>7, <2>8 DEF Control
  <2>10. Resetting(x)
    BY <1>1, <2>5, <2>6 DEF Resetting
  <2> QED BY <2>2, <2>5, <2>9, <2>10 DEF CInv
<1> QED BY <1>2, <1>3

\* Everything the administrator may do to a client.
LEMMA AdminClientCInv ==
  ASSUME CInv(s), NEW u \in User, NEW call, AdminClient(u, call)
  PROVE  CInv(s')
<1>1. /\ s \in SessionType /\ Control(s) /\ Resetting(s)
      /\ ~s.releasing /\ u \in Members(s)
  BY DEF CInv, AdminClient, Idle
<1>2. CASE s' = GrantOp(s, u)
  BY <1>1, <1>2, GrantOpType, GrantOpSame, SameKeepsCInv
<1>3. CASE s' = RevokeOp(s, u)
  BY <1>1, <1>3, RevokeOpCInv
<1>4. ASSUME NEW b \in BOOLEAN, s' = ChangeTrustedStatus(s, u, b)
      PROVE  CInv(s')
  BY <1>1, <1>4, ChangeTrustedStatusType, ChangeTrustedStatusSame,
     SameKeepsCInv
<1>5. CASE s' = RemoveUser(s, u)
  BY <1>1, <1>5, RemoveUserCInv DEF Resetting
<1> QED BY <1>2, <1>3, <1>4, <1>5 DEF AdminClient

\* The connection of a client writes, or is given something to write.
LEMMA ConnectionCInv ==
  ASSUME CInv(s), NEW u \in User, AllSent(u) \/ Ping(u)
  PROVE  CInv(s')
<1>1. s \in SessionType
  BY DEF CInv
<1> DEFINE y == [s EXCEPT !.uploading = @ \ {u}]
<1>2. y \in SessionType /\ SameControl(s, y)
  BY <1>1 DEF SessionType, SameControl
<1> HIDE DEF y
<1>3. CInv(SendNextHistoryBatch(y, {u}))
  BY <1>2, SendNextHistoryBatchType, SendNextHistoryBatchSame,
     SameControlTrans, SameKeepsCInv
<1>4. CInv(DirectTo(s, {u}))
  BY <1>1, DirectToType, DirectToSame, SameKeepsCInv
<1> QED BY <1>3, <1>4 DEF AllSent, Ping, y

\* CInv is an inductive invariant of the session.
THEOREM SessionInOrder == Spec => []CInv(s)
<1>1. Init => CInv(s)
  <2> SUFFICES ASSUME NEW host \in User,
                      s = JoinUser(EmptySession, host, TRUE)
               PROVE  CInv(s)
    BY DEF Init
  <2>1. Members(EmptySession) = {}
    <3>1. EmptySession.clients = <<>>
      BY DEF EmptySession
    <3>2. Len(<<>>) = 0
      OBVIOUS
    <3>3. 1..0 = {}
      OBVIOUS
    <3> QED BY <3>1, <3>2, <3>3 DEF Members
  <2>2. EmptySession.state = "Initialization" /\ ~EmptySession.releasing
    BY DEF EmptySession
  <2> QED BY <2>1, <2>2, EmptySessionCInv, JoinUserCInv
<1>2. CInv(s) /\ [Next]_vars => CInv(s)'
  <2> SUFFICES ASSUME CInv(s), [Next]_vars PROVE CInv(s')
    OBVIOUS
  <2>1. ASSUME NEW u \in User, Join(u) PROVE CInv(s')
    <3>1. /\ ~s.releasing /\ u \notin Members(s) /\ s.state # "Shutdown"
          /\ s' = JoinUser(s, u, FALSE)
      BY <2>1 DEF Join, Idle, MayJoin
    <3> QED BY <3>1, JoinUserCInv
  <2>2. ASSUME NEW u \in User, Disconnect(u) PROVE CInv(s')
    BY <2>2, RemoveUserCInv DEF Disconnect, Idle, CInv, Resetting
  <2>3. ASSUME NEW in \in Inputs, Receive(in) PROVE CInv(s')
    BY <2>3, InputsType, ReceiveCInv
  <2>4. CASE ReleaseHeld
    BY <2>4, ReleaseHeldCInv
  <2>5. ASSUME NEW u \in User, AllSent(u) \/ Ping(u) PROVE CInv(s')
    BY <2>5, ConnectionCInv
  <2>6. ASSUME NEW u \in User, NEW call \in AdminTypes, AdminClient(u, call)
        PROVE  CInv(s')
    BY <2>6, AdminClientCInv
  <2>7. ASSUME NEW conf \in ConfChoices, AdminConf(conf) PROVE CInv(s')
    <3>1. conf \in Conf
      BY ConfChoicesType
    <3> QED BY <3>1, <2>7, SetSessionConfigCInv DEF AdminConf
  <2>8. CASE AdminKill
    BY <2>8, KillSessionCInv DEF AdminKill, CInv
  <2>9. CASE UNCHANGED vars
    BY <2>9 DEF vars
  <2> QED BY <2>1, <2>2, <2>3, <2>4, <2>5, <2>6, <2>7, <2>8, <2>9 DEF Next
<1> QED BY <1>1, <1>2, PTL DEF Spec

\* Every field of the session keeps its type: in particular every list of a
\* message names users, and every position stays an index.
THEOREM TypeCorrect == Spec => []TypeOK
<1>1. CInv(s) => TypeOK
  BY DEF CInv, TypeOK
<1> QED BY <1>1, SessionInOrder, PTL

\* Whatever the users, the operators and the administrator do, a session in
\* the Reset state has a resetter that is logged in and operator, and a
\* running session diverts nobody's messages (switchState, removeUser,
\* updateOwnership).
THEOREM ResetterIsPresent == Spec => []ResetterPresent
<1>1. CInv(s) => ResetterPresent
  BY DEF CInv, Control, Resetting, ResetterPresent
<1> QED BY <1>1, SessionInOrder, PTL

\* No client is left on hold once the session runs (joinUser, switchState,
\* setHoldLocked), and no message in a hold queue that is never released.
THEOREM NobodyLeftOnHold == Spec => []HeldOnlyInInit
<1>1. CInv(s) => HeldOnlyInInit
  BY DEF CInv, Control, HeldOnlyInInit
<1> QED BY <1>1, SessionInOrder, PTL

=============================================================================
