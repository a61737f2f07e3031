----------------------------- MODULE SessionLog -----------------------------
(* The history of a Session, as its members read it, is a HistoryLog.       *)
EXTENDS Session

\* Who reads the history: a member, but not a host who left during the
\* initialization and came back, as long as it is held.
IsReader(u) == u \in Members(s) /\ ~(u = s.initUser /\ u \in s.locked)

\* The history of this module lives in memory: none of it is safe.
Log == INSTANCE HistoryLog WITH
         Reader <- User, log <- s.hist, first <- s.first, safe <- 0,
         got <- [u \in User |-> IF IsReader(u) THEN s.seen[u] ELSE <<>>]

\* Session, ThinSession and ThinServerClient give their members one ordered
\* log (addToHistory, SessionHistory::reset, sendNextHistoryBatch): it grows at
\* its end or is replaced by one with higher indices, what a member has been
\* sent is always a prefix of it, and nothing of that is ever taken back or
\* sent twice, whatever is initialized, reset, held back or full meanwhile.
IsHistoryLog == Log!Spec

=============================================================================
