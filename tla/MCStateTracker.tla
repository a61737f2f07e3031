--------------------------- MODULE MCStateTracker ---------------------------
(***************************************************************************)
(* Instances of StateTracker for TLC: two users, a with a slow connection  *)
(* and b next to the server.                                               *)
(*                                                                         *)
(* A client's canvas depends only on the order of what it sends and what   *)
(* it receives.  A message it sends before it receives another may as well *)
(* be sent before the server orders that other one, so that the server's   *)
(* messages arrive at once and only the way to the server takes time: a    *)
(* behaviour of Spec has, for each client, the same history of sends and   *)
(* receives as some behaviour of MCSpec.  The clients of Prompt have no    *)
(* delay in either direction: they stand for the server's order itself.    *)
(***************************************************************************)
EXTENDS StateTracker

CONSTANTS a, b,
  Prompt   \* the clients whose connection has no delay

Users == {a, b}

Drawing == {"UndoPoint", "Draw"}
Undoing == {"Undo", "Redo"}

(* Who sends what.                                                          *)
LocalUndoes  == (a :> Drawing \cup Undoing) @@ (b :> Drawing \cup {"Resize"})
RemoteUndoes == (a :> Drawing) @@ (b :> Drawing \cup Undoing \cup {"SoftReset"})
RemoteUndoesOnce == (a :> Drawing) @@ (b :> Drawing \cup {"Undo"})
OnlyOneDraws == (a :> {}) @@ (b :> Drawing \cup Undoing)

(* Where: b on one spot, a there and elsewhere.                             *)
Places == (a :> Spot) @@ (b :> {CHOOSE x \in Spot : TRUE})

(* How much.                                                                *)
Send32 == (a :> 3) @@ (b :> 2)
Send25 == (a :> 2) @@ (b :> 5)
Send23 == (a :> 2) @@ (b :> 3)
Send08 == (a :> 0) @@ (b :> 8)

Unread == {c \in Client : read[c] < Len(log)}
Late == {c \in Prompt : sent[c] # <<>>}

MCNext ==
  \/ \E c \in Client : Unread = {} /\ Late = {} /\ SendMessage(c)
  \/ \E c \in Client : Unread = {} /\ Late = {} /\ SetLocalDrawingInProgress(c)
  \/ \E c \in Client : Unread = {} /\ Late \subseteq {c} /\ AddToHistory(c)
  \/ \E c \in Unread : c = (CHOOSE d \in Unread : TRUE) /\ Receive(c)

MCSpec == Init /\ [][MCNext]_vars
=============================================================================
