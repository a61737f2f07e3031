---------------------------- MODULE LoginHandler ----------------------------
(***************************************************************************)
(* One connection to the server, from the greeting to the session:          *)
(* server::LoginHandler, the identity it gives to the Client, the queries   *)
(* to the external authentication server, whose answers come whenever they  *)
(* come, and the MessageQueue that everything is sent through.              *)
(*                                                                         *)
(* What a session decides about a client that wants in is in module Session; *)
(* here a host or join command carries the outcome.                         *)
(***************************************************************************)
EXTENDS MessageQueue

CONSTANTS
  Name,          \* user names
  NoName,        \* a client that has not identified itself
  Registered,    \* the names with an account on this server
  BannedNames,   \* the accounts that are banned
  Hosts,         \* the names whose account has the HOST flag
  Configs,       \* the settings a server may start with
  MaxCommands,   \* bound: commands the client sends
  MaxNews,       \* bound: session announcements, history batches and pings
  MaxChanges     \* bound: changes of the configuration

\* AllowGuests, UseExtAuth, ExtAuthFallback, ExtAuthHost and AllowGuestHosts
Settings == {"guests", "extAuth", "fallback", "extAuthHost", "guestHosts"}

ASSUME NameAssumption ==
  /\ Configs \subseteq SUBSET Settings
  /\ NoName \notin Name /\ Registered \subseteq Name
  /\ BannedNames \subseteq Registered /\ Hosts \subseteq Name
  /\ {MaxCommands, MaxNews, MaxChanges} \subseteq Nat

VARIABLES
  z,       \* the connection
  config,  \* the settings of ServerConfig that are on
  count    \* commands, news and changes so far

vars == <<z, config, count>>

Kinds == {"Greeting", "TlsStart", "NeedPassword", "NeedExtAuth", "IdentOk",
          "Sessions", "Accepted", "Error", "Disconnect", "Pong", "History"}
Message == [k : Kinds, n : Nat]

(***************************************************************************)
(* nonce counts the nonces that were generated: m_extauth_nonce is the       *)
(* latest.  asked is all that was given to the queue before it was closed,   *)
(* pongs excepted, and received is what has reached the client.             *)
(***************************************************************************)
TypeOK ==
  /\ z \in [state    : {"WaitForSecure", "WaitForIdent", "WaitForLogin"},
            nonce    : 0..MaxCommands,
            hostPrivilege : BOOLEAN,
            complete : BOOLEAN,
            handler  : {"live", "leaving", "deleted"},
            name     : Name \cup {NoName},
            auth     : {"none", "internal", "external"},
            inSession : BOOLEAN,
            queries  : Seq(Name),
            queue    : [outbox : Seq(Message), wire : Seq(Message),
                        ignoreIncoming : BOOLEAN, closeWhenReady : BOOLEAN],
            open     : BOOLEAN,
            asked    : Seq(Message),
            received : Seq(Message)]
  /\ config \subseteq Settings
  /\ count \in [commands : 0..MaxCommands, news : 0..MaxNews,
                changes : 0..MaxChanges]

-----------------------------------------------------------------------------
(* What the client is sent.                                                *)

Numbered(y, ks) ==
  [i \in 1..Len(ks) |-> [k |-> ks[i], n |-> Len(y.asked) + i]]

\* Client::sendDirectMessage and the history batches
Deliver(y, ks) ==
  [y EXCEPT !.queue = Send(@, Numbered(y, ks)),
            !.asked = IF y.queue.closeWhenReady THEN @
                      ELSE @ \o Numbered(y, ks)]

\* LoginHandler::send
Reply(y, k) == IF y.complete THEN y ELSE Deliver(y, <<k>>)

\* Client::disconnectClient; loggedOff takes the client out of its session.
DisconnectClient(y) ==
  LET m == [k |-> "Disconnect", n |-> Len(y.asked) + 1]
  IN  [y EXCEPT !.queue = SendDisconnect(@, m),
                !.asked = IF y.queue.closeWhenReady THEN @ ELSE Append(@, m),
                !.inSession = FALSE]

SendError(y) == DisconnectClient(Reply(y, "Error"))

-----------------------------------------------------------------------------
(* Identification.                                                         *)

\* authLoginOk, with announceServerInfo
AuthLoginOk(y, name, auth, allowHost) ==
  Reply(Reply([y EXCEPT !.name = name, !.auth = auth,
                        !.hostPrivilege = name \in Hosts /\ allowHost,
                        !.state = "WaitForLogin"],
              "IdentOk"), "Sessions")

\* Mutant: it was checked when the client identified itself
GuestLoginUnchecked(y, name) ==
  Reply(Reply([y EXCEPT !.name = name, !.state = "WaitForLogin"], "IdentOk"),
        "Sessions")

GuestLogin(y, name) ==
  IF "guests" \notin config THEN SendError(y)
  ELSE Reply(Reply([y EXCEPT !.name = name, !.state = "WaitForLogin"],
                   "IdentOk"), "Sessions")

RequestExtAuth(y) == Reply([y EXCEPT !.nonce = @ + 1], "NeedExtAuth")

\* The account is not found on this server.  A token is for one nonce, and for
\* the name the authentication server knows the user by; 0 is no token.
IdentUnknown(y, cmd) ==
  CASE "extAuth" \in config /\ cmd.token > 0 ->
         IF cmd.token = y.nonce THEN AuthLoginOk(y, cmd.as, "external", "extAuthHost" \in config)
         ELSE SendError(y)
    [] "extAuth" \in config /\ cmd.token = 0 ->
         IF "guests" \in config
         THEN [y EXCEPT !.queries = Append(@, cmd.name)]
         ELSE RequestExtAuth(y)
    [] "extAuth" \notin config /\ "guests" \in config ->
         GuestLogin(y, cmd.name)
    [] OTHER ->
         IF cmd.password = "none" THEN Reply(y, "NeedPassword")
         ELSE SendError(y)

\* handleIdentMessage
HandleIdent(y, cmd) ==
  CASE cmd.name \notin Registered -> IdentUnknown(y, cmd)
    [] cmd.name \in Registered /\ cmd.token > 0 -> SendError(y)
    [] cmd.name \in BannedNames /\ cmd.token = 0 -> SendError(y)
    [] OTHER ->
         CASE cmd.password = "none" -> Reply(y, "NeedPassword")
           [] cmd.password = "bad" -> SendError(y)
           [] cmd.password = "good" -> AuthLoginOk(y, cmd.name, "internal", TRUE)

-----------------------------------------------------------------------------
(* Hosting and joining.                                                    *)

\* handleHostMessage, handleJoinMessage; cmd.ok: nothing else stands against it
EnterSession(y, cmd) ==
  IF \/ ~cmd.ok
     \/ cmd.c = "host" /\ "guestHosts" \notin config /\ ~y.hostPrivilege
  THEN SendError(y)
  ELSE [Reply(y, "Accepted") EXCEPT !.complete = TRUE, !.inSession = TRUE,
                                    !.handler = "leaving"]

\* handleLoginMessage
HandleLoginMessage(y, cmd) ==
  CASE y.state = "WaitForSecure" ->
         IF cmd.c = "startTls"
         THEN [Reply(y, "TlsStart") EXCEPT !.state = "WaitForIdent"]
         ELSE SendError(y)
    [] y.state = "WaitForIdent" ->
         IF cmd.c = "ident" THEN HandleIdent(y, cmd) ELSE DisconnectClient(y)
    [] y.state = "WaitForLogin" ->
         CASE cmd.c \in {"host", "join"} -> EnterSession(y, cmd)
           [] cmd.c = "report" -> y
           [] OTHER -> DisconnectClient(y)

\* One round of Client::receiveMessages.  What a member sends is the business
\* of its session.
HandleMessage(y, cmd) ==
  IF y.inSession \/ y.handler = "deleted" THEN y
  ELSE HandleLoginMessage(y, cmd)

Plain(c, ok) == [c |-> c, name |-> NoName, password |-> "none", token |-> 0,
                 as |-> NoName, ok |-> ok]
Ident(name, password, token, as) ==
  [c |-> "ident", name |-> name, password |-> password, token |-> token,
   as |-> as, ok |-> TRUE]

\* The commands a client may send; it has a token for each nonce it was told.
Commands ==
  {Plain(c, TRUE) : c \in {"startTls", "report", "other"}}
  \cup {Plain(c, ok) : c \in {"host", "join"}, ok \in BOOLEAN}
  \cup {Ident(name, password, 0, NoName) :
          name \in Name, password \in {"none", "good", "bad"}}
  \cup {Ident(name, "none", token, as) :
          name \in Name, token \in 1..z.nonce, as \in Name}

-----------------------------------------------------------------------------
(* The events.                                                             *)

News == /\ count.news < MaxNews
        /\ count' = [count EXCEPT !.news = @ + 1]

\* MessageQueue::readData: two commands may arrive together, and the second is
\* handled even when the first has the client disconnected.
ReadData(cmds) ==
  /\ z.open /\ ~z.queue.ignoreIncoming
  /\ count.commands + Len(cmds) <= MaxCommands
  /\ count' = [count EXCEPT !.commands = @ + Len(cmds)]
  /\ z' = IF Len(cmds) = 1 THEN HandleMessage(z, cmds[1])
          ELSE HandleMessage(HandleMessage(z, cmds[1]), cmds[2])
  /\ UNCHANGED config

\* ... or a ping, which is answered at once
ReadPing ==
  /\ z.open /\ ~z.queue.ignoreIncoming /\ News
  /\ z' = [z EXCEPT !.queue = SendNow(@, [k |-> "Pong", n |-> 0])]
  /\ UNCHANGED config

\* Mutant: the name is taken from the answer
AuthAnswerNamed(y, name, answer) ==
  CASE y.state # "WaitForIdent" -> SendError(y)
    [] OTHER ->
         CASE answer = "guest" -> GuestLogin(y, answer)
           [] answer = "auth" -> RequestExtAuth(y)
           [] answer = "fail" /\ "fallback" \in config -> GuestLogin(y, name)
           [] OTHER -> SendError(y)

\* Mutant: whatever has happened since the query
AuthAnswerInAnyState(y, name, answer) ==
  CASE answer = "guest" -> GuestLogin(y, name)
    [] answer = "auth" -> RequestExtAuth(y)
    [] answer = "fail" /\ "fallback" \in config -> GuestLogin(y, name)
    [] OTHER -> SendError(y)

\* The answer of the authentication server (extAuthGuestLogin's lambda)
AuthAnswer(y, name, answer) ==
  CASE y.state # "WaitForIdent" -> SendError(y)
    [] OTHER ->
         CASE answer = "guest" -> GuestLogin(y, name)
           [] answer = "auth" -> RequestExtAuth(y)
           [] answer = "fail" /\ "fallback" \in config -> GuestLogin(y, name)
           [] OTHER -> SendError(y)

\* The queries are answered in any order, or fail; the lambda lives as long as
\* the handler.
QueryFinished(i, answer) ==
  /\ z.handler # "deleted" /\ i \in 1..Len(z.queries)
  /\ z.nonce < MaxCommands
  /\ z' = AuthAnswer([z EXCEPT !.queries = SubSeq(@, 1, i - 1)
                                         \o SubSeq(@, i + 1, Len(@))],
                     z.queries[i], answer)
  /\ UNCHANGED <<config, count>>

\* deleteLater
DeleteHandler ==
  /\ z.handler = "leaving"
  /\ z' = [z EXCEPT !.handler = "deleted", !.queries = <<>>]
  /\ UNCHANGED <<config, count>>

\* announceSession, announceSessionEnd
AnnounceSession ==
  /\ z.open /\ z.handler # "deleted" /\ z.state = "WaitForLogin" /\ News
  /\ z' = Reply(z, "Sessions")
  /\ UNCHANGED config

\* ThinServerClient::sendNextHistoryBatch
SendHistory ==
  /\ z.inSession /\ ~IsUploading(z.queue) /\ News
  /\ z' = Deliver(z, <<"History", "History">>)
  /\ UNCHANGED config

\* The session, or the administrator, throws the client out.
Kick ==
  /\ z.open /\ z.inSession
  /\ z' = DisconnectClient(z)
  /\ UNCHANGED <<config, count>>

\* The socket has sent what it had; after a Disconnect it closes
\* (disconnectFromHost), and with it the client goes (socketDisconnect).
SocketWrites ==
  LET closed == z.queue.closeWhenReady
  IN  /\ z.open /\ IsUploading(z.queue)
      /\ z' = [z EXCEPT !.received = @ \o z.queue.wire,
                        !.queue = DataWritten(@), !.open = ~closed,
                        !.handler = IF closed THEN "deleted" ELSE @,
                        !.queries = IF closed THEN <<>> ELSE @,
                        !.inSession = @ /\ ~closed]
      /\ UNCHANGED <<config, count>>

\* The connection is lost, or idle for too long (checkIdleTimeout).
Lose ==
  /\ z.open
  /\ z' = [z EXCEPT !.open = FALSE, !.handler = "deleted", !.queries = <<>>,
                    !.inSession = FALSE, !.queue = NewQueue]
  /\ UNCHANGED <<config, count>>

\* The administrator changes a setting.
Configure(setting) ==
  /\ count.changes < MaxChanges
  /\ config' = IF setting \in config THEN config \ {setting}
               ELSE config \cup {setting}
  /\ count' = [count EXCEPT !.changes = @ + 1]
  /\ UNCHANGED z

\* startLoginProcess; the server has a certificate, or has not
Init ==
  /\ config \in Configs
  /\ count = [commands |-> 0, news |-> 0, changes |-> 0]
  /\ \E hasSsl \in BOOLEAN : z = Deliver(
       [state |-> IF hasSsl THEN "WaitForSecure" ELSE "WaitForIdent",
        nonce |-> 0, hostPrivilege |-> FALSE, complete |-> FALSE,
        handler |-> "live", name |-> NoName, auth |-> "none",
        inSession |-> FALSE, queries |-> <<>>, queue |-> NewQueue,
        open |-> TRUE, asked |-> <<>>, received |-> <<>>],
       <<"Greeting">>)

Answers == {"guest", "auth", "outgroup", "fail"}

Next ==
  \/ \E c \in Commands : ReadData(<<c>>)
  \/ \E c, d \in Commands : ReadData(<<c, d>>)
  \/ ReadPing
  \/ \E i \in 1..Len(z.queries), answer \in Answers : QueryFinished(i, answer)
  \/ DeleteHandler
  \/ AnnounceSession
  \/ SendHistory
  \/ Kick
  \/ SocketWrites
  \/ Lose
  \/ \E setting \in Settings : Configure(setting)

Spec == Init /\ [][Next]_vars

\* The socket sends what it has.
FairSpec == Spec /\ WF_vars(SocketWrites)

-----------------------------------------------------------------------------
(* Properties.                                                             *)

\* Who a client is is decided once: after the login neither a late answer of
\* the authentication server nor a second query changes its name, its account
\* or its right to host (the check of m_state in extAuthGuestLogin).
IdentityIsFinal ==
  [][z.state = "WaitForLogin" =>
       <<z'.state, z'.name, z'.auth, z'.hostPrivilege>>
         = <<z.state, z.name, z.auth, z.hostPrivilege>>]_vars

\* A guest logs in only while the server admits guests, which may have changed
\* since it identified itself, and under no name that has an account here,
\* however many queries are answered, in whatever order (guestLogin,
\* handleIdentMessage).  Accounts are not added in this model: the name is not
\* looked up again when the answer comes.
GuestsAreAdmitted ==
  [][z.state # "WaitForLogin" /\ z'.state = "WaitForLogin" =>
       \/ z'.auth # "none"
       \/ "guests" \in config /\ z'.name \notin Registered]_vars

\* What a sequence of messages tells, pongs aside, is from "asked" and in its
\* order: a message carries its number there.
Told(msgs) == {i \in 1..Len(msgs) : msgs[i].k # "Pong"}
InOrder(msgs, asked) ==
  /\ \A i \in Told(msgs) : msgs[i].n \in 1..Len(asked) /\ msgs[i] = asked[msgs[i].n]
  /\ \A i, j \in Told(msgs) : i < j => msgs[i].n < msgs[j].n
\* What is to be sent of it: up to the first Disconnect
Due(asked) ==
  LET at == {i \in 1..Len(asked) : asked[i].k = "Disconnect"}
  IN  IF at = {} THEN asked
      ELSE SubSeq(asked, 1, CHOOSE i \in at : \A j \in at : i <= j)

\* The connection is a queue: nothing is lost, repeated or reordered but pongs,
\* and of what follows a Disconnect nothing is sent, also when more is given to
\* the queue while the Disconnect waits in it or is on its way (writeData,
\* sendNow, sendDisconnect).
QueueIsFifo ==
  LET sent == z.received \o z.queue.wire
      all == sent \o z.queue.outbox
      due == Due(z.asked)
  IN  z.open => /\ InOrder(all, z.asked)
                /\ \A i \in Told(sent) : sent[i].n <= Len(due)
                /\ \A n \in 1..Len(due) : \E i \in Told(all) : all[i] = due[n]

\* A client that is disconnected, refused or kicked, is gone in the end, after
\* it has been sent what was queued for it (dataWritten, writeData).
DisconnectCloses == z.queue.ignoreIncoming ~> ~z.open

=============================================================================
