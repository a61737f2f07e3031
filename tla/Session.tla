------------------------------ MODULE Session ------------------------------
(***************************************************************************)
(* One session of the dedicated (thin) server: server::Session and          *)
(* server::ThinSession, the SessionHistory they fill, and the               *)
(* ThinServerClient objects that are logged in.                             *)
(*                                                                         *)
(* The server is single threaded, so one handler runs to its end before the *)
(* next event; handlers call each other deeply (a SessionOwner message can  *)
(* kick the resetter, which aborts the reset, which logs a leave, which can *)
(* name a new operator).  The session is therefore one record, s, each C++  *)
(* method is an operator from record to record, and an action applies the   *)
(* operator of the handler that the event calls.                            *)
(*                                                                         *)
(* A user stands for a name, the address it connects from and the ID that   *)
(* IdQueue gives the name (module IdQueue models how).  Every message has    *)
(* length 1, so a size in bytes is a number of messages.                    *)
(***************************************************************************)
EXTENDS Integers, Sequences

CONSTANTS
  User,            \* the people who may connect
  NoUser,          \* m_initUser = -1, and context ID 0 (the server)
  Mods,            \* the users with a moderator account (Client::isModerator)
  Auth,            \* the users with an account (Client::isAuthenticated)
  TrustFlag,       \* the accounts with the TRUSTED flag
  SizeLimit,       \* SessionSizeLimit, 0 when unlimited
  ResetThreshold,  \* AutoresetThreshold, 0 when disabled
  MaxUsers,        \* the most users a session may be opened for (254)
  InKinds,         \* the kinds of message the clients send
  StreamKinds,     \* the kinds a client mixes into a reset it uploads
  AdminKinds,      \* the JSON API calls the administrator makes
  FlagChoices,     \* what a sessionconf command may ask for: the flags,
  MaxUsersChoices, \* ... the number of users
  ThresholdChoices \* ... and the reset threshold

ConfFlags == {"closed", "authOnly", "persistent", "opword", "deputies"}

\* Messages that end in the history, or in the stream of an uploaded reset
Stored == {"Draw", "Chat", "Owner", "Trusted"}
\* Server commands (opcommands.cpp) and the direct kinds of chat
Commands == {"ready-to-autoreset", "init-begin", "init-complete",
             "init-cancel", "sessionconf", "kick-user", "ban-user",
             "gain-op", "reset-session", "kill-session", "remove-ban",
             "mute", "unmute"}
InTypes == Stored \cup Commands \cup {"PrivateChat", "BypassChat"}
MsgTypes == Stored \cup {"Join", "Leave", "Conf"}
AdminTypes == {"op", "deop", "trust", "untrust", "kick", "conf", "kill"}

ASSUME UserAssumption ==
  /\ NoUser \notin User
  /\ Mods \subseteq Auth /\ Auth \subseteq User /\ TrustFlag \subseteq Auth

ASSUME BoundAssumption ==
  /\ SizeLimit \in Nat /\ ResetThreshold \in Nat
  /\ MaxUsers \in Nat \ {0}

ASSUME InputAssumption ==
  /\ InKinds \subseteq InTypes /\ StreamKinds \subseteq Stored
  /\ AdminKinds \subseteq AdminTypes
  /\ FlagChoices \subseteq SUBSET ConfFlags
  /\ MaxUsersChoices \subseteq Nat /\ ThresholdChoices \subseteq Nat

VARIABLE s

vars == <<s>>

\* The settings of a session: m_closed and what SessionHistory keeps of them
Conf == [flags     : SUBSET ConfFlags,
         maxUsers  : Nat,              \* SessionHistory::maxUsers
         threshold : Nat]              \* SessionHistory::autoResetThreshold

\* What a message carries that is about no settings
NoConf == [flags |-> {}, maxUsers |-> 0, threshold |-> 0]

ConfChoices == [flags : FlagChoices, maxUsers : MaxUsersChoices,
                threshold : ThresholdChoices]

\* A message: its type, its context ID, the IDs it lists (or its target) and
\* the session settings it carries.
Msg == [t : MsgTypes, by : User \cup {NoUser}, ids : SUBSET User, conf : Conf]
Input == [t : InTypes, by : User, ids : SUBSET User, conf : Conf]

M(t, by, ids, conf) == [t |-> t, by |-> by, ids |-> ids, conf |-> conf]

States == {"Initialization", "Running", "Reset", "Shutdown"}

SessionType ==
  [state       : States,
   initUser    : User \cup {NoUser},  \* m_initUser
   clients     : Seq(User),           \* m_clients, in the order of joining
   past        : SUBSET User,         \* m_pastClients
   resetstream : Seq(Msg),            \* m_resetstream
   releasing   : BOOLEAN,             \* inside the setHoldLocked(false) loop
   conf        : Conf,                \* the settings
   hist        : Seq(Msg),            \* SessionHistory: the stored messages
   first       : Nat,                 \* m_firstIndex
   base        : Nat,                 \* m_autoResetBaseSize
   banned      : SUBSET User,         \* m_banlist
   authOps     : SUBSET User,         \* accounts that are operators (m_ops)
   authTrusted : SUBSET User,         \* accounts that are trusted (m_trusted)
   autoreset   : {"NotSent", "Queried", "Requested"},
   op          : SUBSET User,         \* Client::Private::isOperator ...
   trusted     : SUBSET User,
   muted       : SUBSET User,
   locked      : SUBSET User,         \* ... isHoldLocked
   held        : [User -> Seq(Input)],\* ... holdqueue
   pos         : [User -> Int],       \* ThinServerClient::m_historyPosition
   uploading   : SUBSET User,         \* MessageQueue::isUploading
   seen        : [User -> Seq(Msg)],  \* see below
   noOrigin    : BOOLEAN]             \* Q_ASSERT(origin) has failed

(***************************************************************************)
(* seen[u] is what has been written to u's connection (or is u's own) of     *)
(* the history since u joined or was last told to reset: the connection is  *)
(* FIFO, so it is what u's canvas is built from.  It is not program state.   *)
(***************************************************************************)

Members(z) == {z.clients[i] : i \in 1..Len(z.clients)}
IsOperator(z, u) == u \in z.op \/ u \in Mods
Ops(z) == {u \in Members(z) : IsOperator(z, u)}
Trusteds(z) == {u \in Members(z) : u \in z.trusted}
IsDeputy(z, u) ==
  ~IsOperator(z, u) /\ u \in z.trusted /\ "deputies" \in z.conf.flags
LastIndex(z) == z.first + Len(z.hist) - 1
IsOutOfSpace(z) == SizeLimit > 0 /\ Len(z.hist) >= SizeLimit

\* Session::isClosed
IsClosed(z) == \/ "closed" \in z.conf.flags
               \/ Len(z.clients) >= z.conf.maxUsers
               \/ z.state \notin {"Initialization", "Running"}

\* A message written to the clients U outside the history.
DirectTo(z, U) == [z EXCEPT !.uploading = @ \cup (U \cap Members(z))]
DirectToAll(z) == DirectTo(z, Members(z))

-----------------------------------------------------------------------------
(* SessionHistory and the clients that read it.                            *)

\* Mutant: one message too early, the one the client was sent last
GetBatchAgain(z, after) ==
  LET offset == IF after - z.first > 0 THEN after - z.first ELSE 0
  IN  IF after >= LastIndex(z) THEN <<>>
      ELSE SubSeq(z.hist, offset + 1, Len(z.hist))

\* InMemoryHistory::getBatch
GetBatch(z, after) ==
  LET offset == IF after - z.first + 1 > 0 THEN after - z.first + 1 ELSE 0
  IN  IF after >= LastIndex(z) THEN <<>>
      ELSE SubSeq(z.hist, offset + 1, Len(z.hist))

\* Mutant: without "if session state is Running"
ReadyInAnyState(z, U) == {u \in U \cap Members(z) : u \notin z.uploading}

\* ThinServerClient::sendNextHistoryBatch, run by every client of U.
Ready(z, U) == {u \in U \cap Members(z) :
                  u \notin z.uploading /\ z.state = "Running"}

SendNextHistoryBatch(z, U) ==
  LET R == Ready(z, U) IN
  [z EXCEPT
    !.seen = [u \in User |-> IF u \in R THEN @[u] \o GetBatch(z, z.pos[u])
                                        ELSE @[u]],
    !.pos = [u \in User |-> IF u \in R THEN LastIndex(z) ELSE @[u]],
    !.uploading = @ \cup {u \in R : GetBatch(z, z.pos[u]) # <<>>}]

\* SessionHistory::addMessage once there is space; the signal
\* newMessagesAvailable is connected to every member's sendNextHistoryBatch.
AddMessage(z, m) ==
  SendNextHistoryBatch([z EXCEPT !.hist = Append(@, m)], Members(z))

\* Mutant: the origin is not looked for, and is sent whatever is stored
AdvanceHostUnchecked(z, m) ==
  IF z.state # "Initialization" THEN z
  ELSE [z EXCEPT
         !.pos[z.initUser] = LastIndex(z),
         !.seen[z.initUser] = Append(@, m),
         !.uploading = @ \cup {z.initUser}]

\* The hosting user skips the history it uploads, and is sent the rest.
AdvanceHost(z, m) ==
  IF z.state # "Initialization" THEN z
  ELSE IF z.initUser \notin Members(z) THEN [z EXCEPT !.noOrigin = TRUE]
  ELSE [z EXCEPT
         !.pos[z.initUser] = LastIndex(z),
         !.seen[z.initUser] =
            IF m.t # "Draw" \/ m.by = z.initUser THEN Append(@, m) ELSE @,
         !.uploading = @ \cup (IF m.t # "Draw" THEN {z.initUser} ELSE {})]

\* A threshold is at most nine tenths of the size limit.
WithinLimit(t) ==
  LET cap == (9 * SizeLimit) \div 10
  IN  IF SizeLimit > 0 /\ cap < t THEN cap ELSE t

\* SessionHistory::effectiveAutoResetThreshold
EffectiveThreshold(z) ==
  IF z.conf.threshold = 0 THEN 0
  ELSE WithinLimit(z.conf.threshold + z.base)

IsTooLong(z) ==
  EffectiveThreshold(z) > 0 /\ Len(z.hist) > EffectiveThreshold(z)

\* Mutant: the size of the last reset counts twice
QueryAutoResetLater(z) ==
  IF z.autoreset = "NotSent" /\ IsTooLong([z EXCEPT !.base = 2 * @])
  THEN DirectToAll([z EXCEPT !.autoreset = "Queried"])
  ELSE z

\* The end of ThinSession::addToHistory
QueryAutoReset(z) ==
  IF z.autoreset = "NotSent" /\ IsTooLong(z)
  THEN DirectToAll([z EXCEPT !.autoreset = "Queried"])
  ELSE z

\* ThinSession::addToHistory
AddToHistory(z, m) ==
  IF z.state = "Shutdown" THEN z
  ELSE IF IsOutOfSpace(z) THEN DirectToAll(z)
  ELSE QueryAutoReset(AdvanceHost(AddMessage(z, m), m))

-----------------------------------------------------------------------------
(* Who is operator and who is trusted.                                     *)

\* The loop of Session::updateOwnership: the members in ids become operators,
\* the others lose it; moderators are operators whatever the list says.
SetOperators(z, ids) ==
  LET changed == {u \in Members(z) \ Mods : (u \in ids) # (u \in z.op)}
      y == [z EXCEPT
             !.op = (@ \ changed) \cup (changed \cap ids),
             !.authOps = (@ \ (changed \cap Auth))
                            \cup (changed \cap ids \cap Auth)]
  IN  IF changed = {} THEN z ELSE DirectToAll(y)

\* Session::updateTrustedUsers
SetTrusted(z, ids) ==
  LET changed == {u \in Members(z) : (u \in ids) # (u \in z.trusted)}
      y == [z EXCEPT
             !.trusted = (@ \ changed) \cup (changed \cap ids),
             !.authTrusted = (@ \ (changed \cap Auth))
                                \cup (changed \cap ids \cap Auth)]
  IN  IF changed = {} THEN z ELSE DirectToAll(y)

\* Mutant: the new list is not distributed
GrantOpSilently(z, u) == SetOperators(z, Ops(z) \cup {u})

\* Session::changeOpStatus(u, true): a grant never kicks the resetter
GrantOp(z, u) ==
  LET y == SetOperators(z, Ops(z) \cup {u})
  IN  AddToHistory(y, M("Owner", NoUser, Ops(y), NoConf))

\* Session::changeTrustedStatus
ChangeTrustedStatus(z, u, trusted) ==
  LET y == SetTrusted(z, IF trusted THEN Trusteds(z) \cup {u}
                                    ELSE Trusteds(z) \ {u})
  IN  AddToHistory(y, M("Trusted", NoUser, Trusteds(y), NoConf))

\* Mutant: nobody is promoted
LeaveWithoutOperator(z) == z

\* Session::ensureOperatorExists
EnsureOperatorExists(z) ==
  IF \/ "opword" \in z.conf.flags
     \/ z.authOps # {}
     \/ Ops(z) # {}
     \/ z.clients = <<>>
  THEN z
  ELSE GrantOp(z, Head(z.clients))

-----------------------------------------------------------------------------
(* The state of the session: initialization, reset, shutdown.              *)

NoClients(z) ==
  [z EXCEPT !.clients = <<>>, !.past = @ \cup Members(z), !.op = {},
            !.trusted = {}, !.muted = {}, !.locked = {}, !.uploading = {},
            !.held = [u \in User |-> <<>>], !.pos = [u \in User |-> -1],
            !.seen = [u \in User |-> <<>>]]

\* Session::killSession
KillSession(z) ==
  IF z.state = "Shutdown" THEN z
  ELSE [NoClients(z) EXCEPT !.state = "Shutdown", !.releasing = FALSE]

\* SessionServer::onSessionAttributeChanged
AttributeChanged(z) ==
  IF z.clients = <<>> /\ "persistent" \notin z.conf.flags
  THEN KillSession(z) ELSE z

\* Mutant: the new settings are not distributed
SendNoSessionProperties(z) == AttributeChanged(z)

\* Session::sendUpdatedSessionProperties
SendUpdatedSessionProperties(z) ==
  AttributeChanged(AddToHistory(z, M("Conf", NoUser, {}, z.conf)))

\* Session::setClosed(false)
Reopen(z) ==
  IF "closed" \in z.conf.flags
  THEN SendUpdatedSessionProperties([z EXCEPT !.conf.flags = @ \ {"closed"}])
  ELSE z

\* Mutant: the trusted users are not listed
StateWithoutTrusted(z) ==
  [i \in 1..Len(z.clients) |-> M("Join", z.clients[i], {}, NoConf)]
    \o <<M("Owner", NoUser, Ops(z), NoConf)>>

\* Session::serverSideStateMessages
ServerSideStateMessages(z) ==
  [i \in 1..Len(z.clients) |-> M("Join", z.clients[i], {}, NoConf)]
    \o <<M("Owner", NoUser, Ops(z), NoConf)>>
    \o (IF Trusteds(z) = {} THEN <<>>
        ELSE <<M("Trusted", NoUser, Trusteds(z), NoConf)>>)

\* Mutant: the new history takes the indices of the old one
HistoryResetInPlace(z, image) ==
  SendNextHistoryBatch([z EXCEPT !.hist = image, !.base = Len(image)],
                       Members(z))

\* SessionHistory::reset once the new history is known to fit
HistoryReset(z, image) ==
  SendNextHistoryBatch(
    [z EXCEPT !.first = LastIndex(z) + 1, !.hist = image,
              !.base = Len(image)],
    Members(z))

\* Mutant: without onSessionReset
AnnounceResetOnly(z) ==
  DirectToAll([z EXCEPT
    !.seen = [u \in User |-> IF u \in Members(z) THEN <<>> ELSE @[u]]])

\* The RESET command (the clients drop what they have) and
\* ThinSession::onSessionReset
AnnounceReset(z) ==
  DirectToAll([z EXCEPT
    !.seen = [u \in User |-> IF u \in Members(z) THEN <<>> ELSE @[u]],
    !.autoreset = "NotSent"])

\* The uploaded reset replaces the history (Session::switchState)
PerformReset(z) ==
  LET image == ServerSideStateMessages(z) \o z.resetstream IN
  IF SizeLimit > 0 /\ Len(image) > SizeLimit
  THEN DirectToAll(z)
  ELSE SendUpdatedSessionProperties(AnnounceReset(HistoryReset(z, image)))

\* Mutant: the clients on hold are forgotten
RunAtOnce(z) == [z EXCEPT !.state = "Running"]

\* The end of Session::switchState(Running): the clients are unlocked.  The
\* messages they held back are handled, one by one, by ReleaseHeld below.
Unlock(z) ==
  IF z.locked \cap Members(z) = {} THEN [z EXCEPT !.state = "Running"]
  ELSE [z EXCEPT !.releasing = TRUE]

\* Session::switchState(Running)
SwitchToRunning(z) ==
  LET y == [z EXCEPT !.initUser = NoUser]
      w == IF z.state = "Reset" /\ z.resetstream # <<>>
           THEN PerformReset(y) ELSE y
  IN  Unlock([w EXCEPT !.resetstream = <<>>])

\* Session::abortReset
AbortReset(z) ==
  DirectToAll(SwitchToRunning([z EXCEPT !.resetstream = <<>>]))

\* Session::resetSession, with switchState(Reset)
ResetSession(z, u) ==
  DirectToAll([z EXCEPT !.state = "Reset", !.initUser = u,
                        !.resetstream = <<>>])

-----------------------------------------------------------------------------
(* Users leave.                                                            *)

\* A session with u taken off m_clients: the connection, and all that the
\* Client object knew, is gone; the others are told ("Left session").
RemoveClient(z, u) ==
  LET c == z.clients
      i == CHOOSE k \in 1..Len(c) : c[k] = u
      rest == [j \in 1..(Len(c) - 1) |-> IF j < i THEN c[j] ELSE c[j + 1]]
      others == Members(z) \ {u}
  IN  [z EXCEPT
        !.clients = rest, !.past = @ \cup {u},
        !.op = @ \ {u}, !.trusted = @ \ {u}, !.muted = @ \ {u},
        !.locked = @ \ {u}, !.uploading = (@ \cup others) \ {u},
        !.held[u] = <<>>, !.pos[u] = -1, !.seen[u] = <<>>]

\* Session::removeUser: u disconnected, or Client::disconnectClient
RemoveUser(z, u) ==
  LET gone == RemoveClient(z, u)
      resumed == IF u = z.initUser /\ z.state = "Reset"
                 THEN AbortReset(gone) ELSE gone
      logged == EnsureOperatorExists(
                  AddToHistory(resumed, M("Leave", u, {}, NoConf)))
      opened == IF logged.clients = <<>> THEN Reopen(logged) ELSE logged
  IN  IF u \in Members(z) THEN AttributeChanged(opened) ELSE z

\* Mutant: the resetter may go on uploading
KeepResetter(z, y) == y

\* The end of Session::updateOwnership: z is the session before the list was
\* applied, y the session after.  A resetter who lost operator status may
\* still have parts of the image in flight, and is disconnected.
KickResetter(z, y) ==
  IF /\ z.state = "Reset" /\ z.initUser \in Members(z)
     /\ IsOperator(z, z.initUser) /\ ~IsOperator(y, z.initUser)
  THEN RemoveUser(y, z.initUser)
  ELSE y

\* Session::changeOpStatus(u, false).  The list is the one updateOwnership
\* made before it disconnected the resetter.
RevokeOp(z, u) ==
  LET y == SetOperators(z, Ops(z) \ {u})
  IN  AddToHistory(KickResetter(z, y), M("Owner", NoUser, Ops(y), NoConf))

-----------------------------------------------------------------------------
(* Messages of the clients.                                                *)

\* Session::addToInitStream
AddToInitStream(z, m) ==
  LET y == [z EXCEPT !.resetstream = Append(@, m)]
  IN  IF z.state = "Initialization" THEN AddToHistory(z, m)
      ELSE IF z.state # "Reset" THEN z
      ELSE IF SizeLimit > 0 /\ Len(y.resetstream) > SizeLimit
      THEN RemoveUser(y, z.initUser) ELSE y

\* The end of Session::handleClientMessage
Store(z, m) ==
  IF z.initUser = m.by THEN AddToInitStream(z, m) ELSE AddToHistory(z, m)

\* Mutant: what is stored is the list the client sent
HandleOwnerAsSent(z, in) ==
  LET y == SetOperators(z, in.ids \cup {in.by})
  IN  IF ~IsOperator(z, in.by) THEN DirectToAll(z)
      ELSE Store(KickResetter(z, y), M("Owner", in.by, in.ids, NoConf))

\* MSG_SESSION_OWNER and MSG_TRUSTED_USERS.  What is stored is the list of
\* those members that really have the status now.
HandleOwner(z, in) ==
  LET y == SetOperators(z, in.ids \cup {in.by})
  IN  IF ~IsOperator(z, in.by) THEN DirectToAll(z)
      ELSE Store(KickResetter(z, y), M("Owner", in.by, Ops(y), NoConf))

HandleTrusted(z, in) ==
  LET y == SetTrusted(z, in.ids)
  IN  IF ~IsOperator(z, in.by) THEN DirectToAll(z)
      ELSE Store(y, M("Trusted", in.by, Trusteds(y), NoConf))

\* The user a command is about
Target(in) == CHOOSE v \in in.ids : TRUE

\* ThinSession::readyToAutoReset: the first operator to answer
ReadyToAutoReset(z) ==
  IF z.autoreset = "Queried"
  THEN DirectToAll([z EXCEPT !.autoreset = "Requested"]) ELSE z

\* The settings that a request for conf leads to: only a user with an account
\* locks out those without, and the numbers are kept within their bounds
\* (setMaxUsers, setAutoResetThreshold).
Granted(z, conf, setter) ==
  [flags |-> IF setter \in Auth \cup {NoUser} THEN conf.flags
             ELSE conf.flags \ ({"authOnly"} \ z.conf.flags),
   maxUsers |-> CASE conf.maxUsers < 1 -> 1
                  [] conf.maxUsers > MaxUsers -> MaxUsers
                  [] OTHER -> conf.maxUsers,
   threshold |-> WithinLimit(conf.threshold)]

\* Session::setSessionConfig; the setter is NoUser for the administrator
SetSessionConfig(z, conf, setter) ==
  DirectToAll(SendUpdatedSessionProperties(
    [z EXCEPT !.conf = Granted(z, conf, setter)]))

\* kickUser of opcommands.cpp
KickUser(z, in) ==
  LET target == Target(in)
      ban == in.t = "ban-user"
      y == DirectToAll(IF ban THEN [z EXCEPT !.banned = @ \cup {target}]
                              ELSE z)
      error == DirectTo(z, {in.by})
      protected == \/ target \notin Members(z)
                   \/ target = in.by
                   \/ target \in Mods
                   \/ /\ IsDeputy(z, in.by)
                      /\ IsOperator(z, target) \/ target \in z.trusted
  IN  IF ban /\ target \in z.past
      THEN IF target \in Mods THEN error ELSE y
      ELSE IF protected THEN error
      ELSE RemoveUser(y, target)

\* removeBan, setMute
RemoveBan(z, target) ==
  IF target \in z.banned
  THEN DirectToAll([z EXCEPT !.banned = @ \ {target}]) ELSE z

SetMute(z, in) ==
  LET target == Target(in)
      y == [z EXCEPT !.muted = IF in.t = "mute" THEN @ \cup {target}
                                                ELSE @ \ {target}]
  IN  IF target \notin Members(z) THEN DirectTo(z, {in.by})
      ELSE IF y.muted = z.muted THEN z ELSE DirectToAll(y)

\* Mutant: deputies may run every command of the operators
MayRunAsDeputy(z, t, u) ==
  \/ t = "gain-op"
  \/ t = "kill-session" /\ u \in Mods
  \/ t # "kill-session" /\ (IsOperator(z, u) \/ IsDeputy(z, u))

\* The mode of a command (SrvCommand::Mode)
MayRun(z, t, u) ==
  \/ t = "gain-op"
  \/ t \in {"kick-user", "ban-user"} /\ (IsOperator(z, u) \/ IsDeputy(z, u))
  \/ t = "kill-session" /\ u \in Mods
  \/ t \notin {"kick-user", "ban-user", "kill-session"} /\ IsOperator(z, u)

\* handleClientServerCommand
HandleCommand(z, in) ==
  LET u == in.by IN
  IF ~MayRun(z, in.t, u) THEN DirectTo(z, {u})
  ELSE CASE in.t = "ready-to-autoreset" -> ReadyToAutoReset(z)
         [] in.t = "init-begin" ->
              IF u # z.initUser THEN DirectToAll(z)
              ELSE [z EXCEPT !.resetstream = <<>>]
         [] in.t = "init-complete" ->
              IF u # z.initUser THEN DirectToAll(z) ELSE SwitchToRunning(z)
         [] in.t = "init-cancel" ->
              IF u # z.initUser THEN DirectToAll(z) ELSE AbortReset(z)
         [] in.t = "sessionconf" -> SetSessionConfig(z, in.conf, u)
         [] in.t \in {"kick-user", "ban-user"} -> KickUser(z, in)
         [] in.t = "gain-op" ->
              IF "opword" \notin z.conf.flags THEN DirectTo(z, {u})
              ELSE GrantOp(z, u)
         [] in.t = "reset-session" ->
              IF z.state # "Running" THEN DirectTo(z, {u})
              ELSE ResetSession(z, u)
         [] in.t = "kill-session" -> KillSession(z)
         [] in.t = "remove-ban" -> RemoveBan(z, Target(in))
         [] in.t \in {"mute", "unmute"} -> SetMute(z, in)
         [] OTHER -> z

\* Session::handleClientMessage
HandleClientMessage(z, in) ==
  CASE in.t = "Draw" -> Store(z, in)
    [] in.t = "Chat" -> IF in.by \in z.muted THEN z ELSE Store(z, in)
    [] in.t = "BypassChat" -> IF in.by \in z.muted THEN z ELSE DirectToAll(z)
    [] in.t = "PrivateChat" ->
         IF Target(in) \in Members(z) THEN DirectTo(z, {in.by, Target(in)})
         ELSE z
    [] in.t = "Owner" -> HandleOwner(z, in)
    [] in.t = "Trusted" -> HandleTrusted(z, in)
    [] OTHER -> HandleCommand(z, in)

-----------------------------------------------------------------------------
(* Users join.                                                             *)

\* Session::joinUser
JoinUser(z, u, host) ==
  LET y == [z EXCEPT
             !.clients = Append(@, u), !.past = @ \ {u},
             !.initUser = IF host THEN u ELSE @,
             !.locked = IF ~host /\ z.state = "Initialization"
                        THEN @ \cup {u} ELSE @,
             !.uploading = @ \cup {u}]
      joined == AddToHistory(y, M("Join", u, {}, NoConf))
      opped == IF IsOperator(joined, u) \/ u \in joined.authOps
               THEN GrantOp(joined, u) ELSE joined
      trusted == IF u \in TrustFlag \cup opped.authTrusted
                 THEN ChangeTrustedStatus(opped, u, TRUE) ELSE opped
  IN  DirectToAll(EnsureOperatorExists(trusted))

\* What LoginHandler::handleJoinMessage lets in
MayJoin(z, u) ==
  /\ u \notin Members(z)
  /\ z.state # "Shutdown"
  /\ \/ u \in Mods
     \/ /\ u \notin z.banned
        /\ ~IsClosed(z)
        /\ "authOnly" \in z.conf.flags => u \in Auth

\* The settings of a new session: the constructors of InMemoryHistory and
\* ThinSession
DefaultConf == [flags |-> {}, maxUsers |-> MaxUsers,
                threshold |-> WithinLimit(ResetThreshold)]

EmptySession ==
  [state |-> "Initialization", initUser |-> NoUser, clients |-> <<>>,
   past |-> {}, resetstream |-> <<>>, releasing |-> FALSE,
   conf |-> DefaultConf,
   hist |-> <<>>, first |-> 0, base |-> 0, banned |-> {}, authOps |-> {},
   authTrusted |-> {}, autoreset |-> "NotSent", op |-> {}, trusted |-> {},
   muted |-> {}, locked |-> {}, held |-> [u \in User |-> <<>>],
   pos |-> [u \in User |-> -1], uploading |-> {},
   seen |-> [u \in User |-> <<>>], noOrigin |-> FALSE]

-----------------------------------------------------------------------------
(* The specification.                                                      *)

\* LoginHandler::handleHostMessage creates the session and joins its host.
Init == \E host \in User : s = JoinUser(EmptySession, host, TRUE)

\* Between two events, and not inside the loop of setHoldLocked(false)
Idle == ~s.releasing

Join(u) == Idle /\ MayJoin(s, u) /\ s' = JoinUser(s, u, FALSE)

\* The connection of u is lost, or closed by u
Disconnect(u) == Idle /\ u \in Members(s) /\ s' = RemoveUser(s, u)

Removing == {"kick-user", "ban-user", "kill-session"}

\* Client::receiveMessages.  The one who uploads a reset sends the kinds of
\* StreamKinds only.  A held message that removes users would change m_clients
\* under the loop that releases it, and is left out.
Receive(in) ==
  /\ Idle /\ in.by \in Members(s)
  /\ s.state = "Reset" /\ in.by = s.initUser /\ in.t \in Stored
       => in.t \in StreamKinds
  /\ IF in.by \in s.locked
     THEN /\ in.t \notin Removing
          /\ s' = [s EXCEPT !.held[in.by] = Append(@, in)]
     ELSE s' = HandleClientMessage(s, in)

\* Client::setHoldLocked(false), called for one client after the other by
\* switchState, which sets m_state last.
NextLocked ==
  s.clients[CHOOSE i \in 1..Len(s.clients) :
              /\ s.clients[i] \in s.locked
              /\ \A j \in 1..(i - 1) : s.clients[j] \notin s.locked]

ReleaseHeld ==
  LET u == NextLocked
      y == [s EXCEPT !.locked = @ \ {u}]
  IN  /\ s.releasing
      /\ s' = IF s.held[u] # <<>>
              THEN HandleClientMessage([s EXCEPT !.held[u] = Tail(@)],
                                       Head(s.held[u]))
              ELSE IF y.locked \cap Members(y) # {} THEN y
              ELSE [y EXCEPT !.state = "Running", !.releasing = FALSE]

\* Mutant: the client does not ask for more
AllSentAndDone(u) ==
  /\ Idle /\ u \in s.uploading
  /\ s' = [s EXCEPT !.uploading = @ \ {u}]

\* MessageQueue::allSent: the connection of u has written all it had
AllSent(u) ==
  /\ Idle /\ u \in s.uploading
  /\ s' = SendNextHistoryBatch([s EXCEPT !.uploading = @ \ {u}], {u})

\* u pings the server every 15 seconds and is sent a pong
Ping(u) == Idle /\ u \in Members(s) /\ s' = DirectTo(s, {u})

\* Client::callJsonApi and Session::callJsonApi
AdminClient(u, call) ==
  /\ Idle /\ u \in Members(s) /\ call \in AdminKinds
  /\ \/ call = "op" /\ u \notin s.op /\ s' = GrantOp(s, u)
     \/ call = "deop" /\ u \in s.op /\ s' = RevokeOp(s, u)
     \/ /\ call = "trust" /\ u \notin s.trusted
        /\ s' = ChangeTrustedStatus(s, u, TRUE)
     \/ /\ call = "untrust" /\ u \in s.trusted
        /\ s' = ChangeTrustedStatus(s, u, FALSE)
     \/ call = "kick" /\ s' = RemoveUser(s, u)

AdminConf(conf) ==
  /\ Idle /\ "conf" \in AdminKinds /\ s.state # "Shutdown"
  /\ s' = SetSessionConfig(s, conf, NoUser)

\* ... and SessionServer::cleanupSessions, when the session has been idle
AdminKill == Idle /\ "kill" \in AdminKinds /\ s' = KillSession(s)

\* The messages a client may send
Inputs ==
  {M(t, u, ids, NoConf) :
     t \in InKinds \cap {"Owner", "Trusted"}, u \in User, ids \in SUBSET User}
  \cup
  {M(t, u, {v}, NoConf) :
     t \in InKinds \cap {"kick-user", "ban-user", "remove-ban", "mute",
                         "unmute", "PrivateChat"},
     u \in User, v \in User}
  \cup
  {M(t, u, {}, conf) :
     t \in InKinds \cap {"sessionconf"}, u \in User, conf \in ConfChoices}
  \cup
  {M(t, u, {}, NoConf) :
     t \in InKinds \cap {"Draw", "Chat", "BypassChat", "ready-to-autoreset",
                         "init-begin", "init-complete", "init-cancel",
                         "gain-op", "reset-session", "kill-session"},
     u \in User}

Next ==
  \/ \E u \in User : Join(u)
  \/ \E u \in User : Disconnect(u)
  \/ \E in \in Inputs : Receive(in)
  \/ ReleaseHeld
  \/ \E u \in User : AllSent(u)
  \/ \E u \in User : Ping(u)
  \/ \E u \in User, call \in AdminTypes : AdminClient(u, call)
  \/ \E conf \in ConfChoices : AdminConf(conf)
  \/ AdminKill

Spec == Init /\ [][Next]_vars

\* What keeps the server going: connections write what they are given, and
\* clients ping (libclient/net/tcpserver.cpp); switchState's loop ends.
Fairness ==
  /\ WF_vars(ReleaseHeld)
  /\ \A u \in User : WF_vars(AllSent(u)) /\ WF_vars(Ping(u))

FairSpec == Spec /\ Fairness

-----------------------------------------------------------------------------
(* Properties.                                                             *)

\* Every field of the session has its type.
TypeOK == s \in SessionType

\* m_initUser and m_state agree (Session::switchState, removeUser and
\* updateOwnership): while a reset is uploaded the user who uploads it is
\* logged in and operator, so that the reset can be completed or cancelled;
\* and in the running state nobody's messages are diverted to a reset stream,
\* of which nothing is left.
ResetterPresent ==
  /\ s.state = "Reset" => s.initUser \in Ops(s)
  /\ s.state = "Running" => s.initUser = NoUser /\ s.resetstream = <<>>

\* A client is hold-locked during the initialization only (joinUser,
\* setHoldLocked): what it sends later is never left in its hold queue.
HeldOnlyInInit ==
  \A u \in User : u \in s.locked \/ s.held[u] # <<>> =>
    u \in Members(s) /\ s.state = "Initialization"

\* A client's canvas is built from a prefix of the session history, without
\* gap, repetition or remains of a history that was reset, whatever was
\* uploading, resetting or initializing meanwhile (sendNextHistoryBatch,
\* getBatch, setHistoryPosition, SessionHistory::reset).  Only a host who left
\* during the initialization and came back has no such prefix: it is locked.
IsPrefixAt(hist, last, seq) ==
  /\ last <= Len(hist)
  /\ seq = SubSeq(hist, 1, last)

StreamIsPrefix ==
  \A u \in Members(s) :
    \/ u = s.initUser /\ u \in s.locked
    \/ IsPrefixAt(s.hist, s.pos[u] - s.first + 1, s.seen[u])

\* The indices of SessionHistory only grow (addMessage, reset), so that a
\* client's position, which is an index, never denotes a message it has not
\* been sent.
IndexGrows == [][s'.first >= s.first /\ LastIndex(s') >= LastIndex(s)]_vars

\* What a client knows of the operators, the trusted users, the members and
\* the settings when it has read all of the history (canvas::AclFilter,
\* canvas::UserListModel): the last list, less those who left since.
LeftAfter(hist, i) ==
  {hist[j].by : j \in {k \in (i + 1)..Len(hist) : hist[k].t = "Leave"}}
ListedBy(hist, t) ==
  LET at == {i \in 1..Len(hist) : hist[i].t = t}
      i == CHOOSE k \in at : \A j \in at : j <= k
  IN  IF at = {} THEN {} ELSE hist[i].ids \ LeftAfter(hist, i)
JoinedBy(hist) ==
  {hist[i].by : i \in {k \in 1..Len(hist) :
                         /\ hist[k].t = "Join"
                         /\ hist[k].by \notin LeftAfter(hist, k)}}
ConfOf(hist) ==
  LET at == {i \in 1..Len(hist) : hist[i].t = "Conf"}
      i == CHOOSE k \in at : \A j \in at : j <= k
  IN  IF at = {} THEN DefaultConf ELSE hist[i].conf

\* The clients know it: the history has not run out of space, and no client
\* holds back or replaces what it says
Informed == s.state = "Running" /\ ~IsOutOfSpace(s)

\* Who reads the history knows who is operator on the server: changeOpStatus,
\* the filtered SessionOwner messages, and serverSideStateMessages after a
\* reset keep the lists of the clients and the flags of the server the same.
OpsAgree == Informed => ListedBy(s.hist, "Owner") = Ops(s)

\* The same for the trusted users, the users and the session settings.
UsersAgree ==
  Informed => /\ ListedBy(s.hist, "Trusted") = Trusteds(s)
              /\ JoinedBy(s.hist) = Members(s)
              /\ ConfOf(s.hist) = s.conf

\* ensureOperatorExists: "If there is a way to gain OP status without being
\* explicitly granted, it's OK for the session to not have any operators for a
\* while" - and otherwise it always has one while anyone is there.
OperatorExists ==
  \/ "opword" \in s.conf.flags \/ s.authOps # {} \/ s.clients = <<>>
  \/ Ops(s) # {}

\* A message of a client that is not operator changes no setting and makes no
\* operator except, with the operator password, its sender; and it removes
\* neither an operator nor a trusted user, though a deputy may kick and ban
\* (SrvCommand::Mode, kickUser, handleClientMessage).  Only where the
\* administrator has left a session without the operator it must have, a
\* deputy's kick ends that: ensureOperatorExists promotes the oldest member,
\* which may be the deputy itself.
NoEscalation ==
  [][\A in \in Inputs :
       ~IsOperator(s, in.by) /\ Receive(in) =>
         /\ s'.conf = s.conf
         /\ Ops(s') \subseteq
              Ops(s) \cup (IF "opword" \in s.conf.flags THEN {in.by} ELSE {})
                     \cup (IF OperatorExists THEN {} ELSE {Head(s'.clients)})
         /\ Ops(s) \cup Trusteds(s) \subseteq Members(s')]_vars

\* A history with space left that is longer than the effective threshold has
\* had its operators asked for a reset (addToHistory): whichever came last of
\* the message that made it long, the sessionconf that lowered or enabled the
\* threshold (setAutoResetThreshold), and the reset that forgot the query and
\* moved the threshold (onSessionReset, m_autoResetBaseSize).
AutoResetQueried ==
  ~IsOutOfSpace(s) /\ IsTooLong(s) => s.autoreset # "NotSent"

\* The operators are asked once in the life of a history, and only when it is
\* too long; one of them is requested to reset it, once; and nothing but the
\* reset takes that back, not even a threshold that is raised meanwhile.  The
\* new history begins unasked, or asked because it is too long again
\* (addToHistory, readyToAutoReset, onSessionReset).
AskedOnce ==
  [][IF s.autoreset = "NotSent" \/ s'.first # s.first
     THEN \/ s'.autoreset = "NotSent"
          \/ s'.autoreset = "Queried" /\ IsTooLong(s')
     ELSE s'.autoreset \in {s.autoreset, "Requested"}]_vars

\* A member that stays is brought up to date again and again
\* (sendNextHistoryBatch on allSent and on newMessagesAvailable), even when
\* the session left the initialization or a reset without any signal.
CaughtUp ==
  \A u \in User :
    []<>(\/ u \notin Members(s)
         \/ s.state # "Running"
         \/ s.pos[u] = LastIndex(s))

=============================================================================
