----------------------------- MODULE HistoryLog -----------------------------
(***************************************************************************)
(* What a session history promises to the clients that read it             *)
(* (server::SessionHistory): one ordered log.  It grows at its end; a reset *)
(* replaces it by a log with higher indices; a restart of the server keeps  *)
(* at least the part that had been made safe.  What a reader has received   *)
(* is at every moment a prefix of the log, and only a reset, a restart or   *)
(* its own leaving takes anything of it away.                               *)
(*                                                                         *)
(* Sequences of any length may be added in one step: Session answers one    *)
(* message with several, FiledHistory adds them one at a time.              *)
(***************************************************************************)
EXTENDS Integers, Sequences

CONSTANT Reader

VARIABLES
  log,    \* the messages, in the order everyone sees
  first,  \* the index of the first of them
  safe,   \* how many of them survive a crash
  got     \* what each reader has received since it started to read

vars == <<log, first, safe, got>>

\* s is a prefix of t
Begins(s, t) == Len(s) <= Len(t) /\ s = SubSeq(t, 1, Len(s))

Init ==
  /\ first = 0 /\ safe = 0
  /\ \A r \in Reader : Begins(got[r], log)

\* Messages are added, written to disk, and delivered.
Extend ==
  /\ first' = first
  /\ Begins(log, log')
  /\ safe <= safe' /\ safe' <= Len(log')
  /\ \A r \in Reader :
       /\ Begins(got'[r], log')
       /\ Begins(got[r], got'[r]) \/ got'[r] = <<>>

\* The log is reset: no index of the old one is used again.
Replace ==
  /\ first' >= first + Len(log)
  /\ safe' <= Len(log')
  /\ \A r \in Reader : Begins(got'[r], log')

\* The server stops: nothing that was safe is lost, and nobody reads.
Restart ==
  /\ first' = 0
  /\ \E n \in safe..Len(log) : log' = SubSeq(log, 1, n) /\ safe' = n
  /\ \A r \in Reader : got'[r] = <<>>

Next == Extend \/ Replace \/ Restart

Spec == Init /\ [][Next]_vars

=============================================================================
