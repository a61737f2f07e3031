----------------------------- MODULE MCSession -----------------------------
(* Bounds for model checking Session; each bound stops a counter that the  *)
(* program does not bound.                                                 *)
EXTENDS SessionLog, TLC

CONSTANTS
  MaxFirst,   \* resets: the largest index of the first message
  MaxHist,    \* the length of the history, when SizeLimit is 0
  MaxStream,  \* the length of an uploaded reset
  MaxHeld     \* the messages a hold-locked client sends

InBounds(z) ==
  /\ z.first <= MaxFirst
  /\ Len(z.hist) <= MaxHist
  /\ Len(z.resetstream) <= MaxStream
  /\ \A u \in User : Len(z.held[u]) <= MaxHeld

\* Users with the same rights are interchangeable in runs without liveness
Symmetry == Permutations(User \ Auth)

\* The view of a run that is about the state and the rights of the session.
\* Nothing but the delivery of the history reads the fields of the delivery,
\* and the other fields evolve with the length of the history, whatever is in
\* it and wherever its indices start; of its contents the properties read what
\* it tells a client, and what it tells with one more message follows from
\* that and the message.  (MaxFirst must be out of reach then.)
RightsView ==
  [session |-> [f \in DOMAIN s \ {"pos", "seen", "uploading", "noOrigin",
                                   "hist", "first"} |-> s[f]],
   length  |-> Len(s.hist),
   tells   |-> <<ListedBy(s.hist, "Owner"), ListedBy(s.hist, "Trusted"),
                 JoinedBy(s.hist), ConfOf(s.hist)>>]

MCNext == Next /\ InBounds(s')
MCSpec == Init /\ [][MCNext]_vars
MCFairSpec == MCSpec /\ Fairness

=============================================================================
