------------------------------ MODULE IdQueue ------------------------------
(***************************************************************************)
(* The context IDs of a session: server::IdQueue with the methods of        *)
(* Session that use it (assignId, joinUser, removeUser).  Every message of   *)
(* the protocol names its user by this one-byte ID, so two members with one  *)
(* ID would be one user to every client.  The queue holds each ID once, the  *)
(* ones given out or freed last at its end; the program has 254 IDs.        *)
(***************************************************************************)
EXTENDS Integers, Sequences, FiniteSets

CONSTANTS
  Name,      \* the usernames
  Mods,      \* the names of moderators, who may join a full session
  LastId,    \* LAST_ID; FIRST_ID is 1 and 0 is no ID
  MaxUsers   \* SessionHistory::maxUsers, at most LAST_ID (setMaxUsers)

ASSUME NameAssumption == IsFiniteSet(Name) /\ Mods \subseteq Name
ASSUME IdAssumption ==
  /\ LastId \in Nat /\ LastId >= 2
  /\ MaxUsers \in 1..LastId

VARIABLES
  ids,       \* IdQueue::m_ids
  nameIds,   \* IdQueue::m_nameIds, 0 for a name it does not hold
  userId,    \* the ID of each member of the session, 0 for the others
  freed      \* the ID freed last, 0 at first: not program state

vars == <<ids, nameIds, userId, freed>>

Id == 1..LastId

Members == {n \in Name : userId[n] # 0}
InUse == {userId[n] : n \in Members}

\* Mutants: id is appended but stays where it was; and an off-by-one
ReserveTwice(q, id) == Append(q, id)
ReserveNeighbour(q, id) ==
  LET k == CHOOSE i \in 1..Len(q) : q[i] = id
  IN  [i \in 1..Len(q) |-> IF i = Len(q) THEN id
                           ELSE IF i <= k THEN q[i] ELSE q[i + 1]]

\* IdQueue::reserveId: id moves to the back
ReserveId(q, id) ==
  LET k == CHOOSE i \in 1..Len(q) : q[i] = id
  IN  [i \in 1..Len(q) |-> IF i = Len(q) THEN id
                           ELSE IF i < k THEN q[i] ELSE q[i + 1]]

\* IdQueue::nextId, called k times
Rotate(q, k) ==
  [i \in 1..Len(q) |-> IF i + k <= Len(q) THEN q[i + k]
                                          ELSE q[i + k - Len(q)]]

\* Session::assignId draws IDs until one is free.  After 256 draws, 2 more
\* than there are IDs, it gives up and keeps the ID it drew last.
FreeAt == {i \in 1..Len(ids) : ids[i] \notin InUse}
Draws == IF FreeAt = {} THEN 2
         ELSE CHOOSE i \in FreeAt : \A j \in FreeAt : i <= j

\* Mutant: the former ID of a name is not looked for among the members
FormerId(n) == IF nameIds[n] = 0 THEN ids[Draws] ELSE nameIds[n]

\* Session::assignId as a function of what it finds: the ID of name n ...
AssignedId(n) ==
  IF nameIds[n] = 0 \/ nameIds[n] \in InUse THEN ids[Draws] ELSE nameIds[n]

\* ... and the queue it leaves
AssignedQueue(n) ==
  IF nameIds[n] = 0 \/ nameIds[n] \in InUse THEN Rotate(ids, Draws) ELSE ids

\* LoginHandler::handleHostMessage: the host chooses its ID
Init ==
  \E host \in Name, id \in Id :
    /\ ids = ReserveId([i \in Id |-> i], id)
    /\ nameIds = [n \in Name |-> IF n = host THEN id ELSE 0]
    /\ userId = [n \in Name |-> IF n = host THEN id ELSE 0]
    /\ freed = 0

\* The users LoginHandler::handleJoinMessage lets in, as far as IDs matter:
\* a session that has MaxUsers members is closed to all but moderators.
MayJoin(n) == n \in Mods \/ Cardinality(Members) < MaxUsers

\* handleJoinMessage: assignId, then joinUser with setIdForName
Join(n) ==
  LET id == AssignedId(n) IN
  /\ userId[n] = 0
  /\ MayJoin(n)
  /\ ids' = ReserveId(AssignedQueue(n), id)
  /\ nameIds' = [nameIds EXCEPT ![n] = id]
  /\ userId' = [userId EXCEPT ![n] = id]
  /\ UNCHANGED freed

\* Mutant: without reserveId
LeaveAtOnce(n) ==
  /\ userId[n] # 0
  /\ userId' = [userId EXCEPT ![n] = 0]
  /\ freed' = userId[n]
  /\ UNCHANGED <<ids, nameIds>>

\* Session::removeUser
Leave(n) ==
  /\ userId[n] # 0
  /\ ids' = ReserveId(ids, userId[n])
  /\ userId' = [userId EXCEPT ![n] = 0]
  /\ freed' = userId[n]
  /\ UNCHANGED nameIds

Next == \E n \in Name : Join(n) \/ Leave(n)

Spec == Init /\ [][Next]_vars

-----------------------------------------------------------------------------

\* The queue holds every ID exactly once, whatever was drawn and reserved: the
\* Q_ASSERT(found) of reserveId, and what makes the 256 draws of assignId meet
\* every ID.
QueueIsPermutation ==
  /\ ids \in [Id -> Id]
  /\ \A i, j \in Id : ids[i] = ids[j] => i = j
  /\ \A id \in Id : \E i \in Id : ids[i] = id

TypeOK ==
  /\ ids \in [Id -> Id]
  /\ nameIds \in [Name -> 0..LastId]
  /\ userId \in [Name -> 0..LastId]
  /\ freed \in 0..LastId

\* No two members have the same ID (assignId: "shouldn't happen, since we
\* don't let new users in if the session is full").
UniqueIds ==
  \A m, n \in Members : userId[m] = userId[n] => m = n

\* removeUser: "Try not to reuse the ID right away".  A name that is not given
\* its own former ID is given the ID freed last only when no other is free.
NoHastyReuse ==
  [][\A n \in Name :
       /\ userId[n] = 0 /\ userId'[n] # 0
       /\ userId'[n] # nameIds[n] /\ userId'[n] = freed
       => Id \subseteq InUse \cup {freed}]_vars

=============================================================================
