--------------------------- MODULE IdQueueProofs ---------------------------
(* For every number of names and of IDs: the queue stays a permutation, and *)
(* the IDs of the members are unique as long as moderators cannot fill up   *)
(* the session beyond its last ID.                                          *)
EXTENDS IdQueue, FiniteSetTheorems, WellFoundedInduction, TLAPS

\* A permutation of the IDs, as a sequence
Permutation(q) ==
  /\ q \in [Id -> Id]
  /\ \A i, j \in Id : q[i] = q[j] => i = j
  /\ \A id \in Id : \E i \in Id : q[i] = id

\* The length of a sequence that lists an ID at every position.
LEMMA QueueLength ==
  ASSUME NEW q \in [Id -> Id]
  PROVE  q \in Seq(Id) /\ Len(q) = LastId
BY IdAssumption DEF Id

\* reserveId (takes an ID out and appends it) keeps a permutation.
LEMMA ReserveIdPermutes ==
  ASSUME NEW q, Permutation(q), NEW id \in Id
  PROVE  Permutation(ReserveId(q, id))
<1>1. q \in [Id -> Id] /\ Len(q) = LastId
  BY QueueLength DEF Permutation
<1> DEFINE k == CHOOSE i \in 1..Len(q) : q[i] = id
           r == ReserveId(q, id)
<1>2. k \in Id /\ q[k] = id
  BY <1>1 DEF Permutation, Id
<1>3. r = [i \in Id |-> IF i = LastId THEN id
                        ELSE IF i < k THEN q[i] ELSE q[i + 1]]
  BY <1>1 DEF ReserveId, Id
<1> HIDE DEF k, r
<1>4. LastId \in Id /\ Id = 1..LastId
  BY IdAssumption DEF Id
<1>5. r \in [Id -> Id]
  BY <1>1, <1>3, <1>4, IdAssumption
<1>6. ASSUME NEW i \in Id, NEW j \in Id, r[i] = r[j] PROVE i = j
  <2> DEFINE from(x) == IF x = LastId THEN k ELSE IF x < k THEN x ELSE x + 1
  <2>1. from(i) \in Id /\ from(j) \in Id
    BY <1>2, <1>4, IdAssumption
  <2>2. r[i] = q[from(i)] /\ r[j] = q[from(j)]
    BY <1>2, <1>3
  <2>3. from(i) = from(j)
    BY <1>6, <2>1, <2>2 DEF Permutation
  <2> QED BY <2>3, <1>2, <1>4, IdAssumption
<1>7. ASSUME NEW x \in Id PROVE \E i \in Id : r[i] = x
  <2>1. PICK j \in Id : q[j] = x
    BY DEF Permutation
  <2>2. CASE j < k
    BY <2>1, <2>2, <1>2, <1>3, <1>4, IdAssumption
  <2>3. CASE j = k
    BY <2>1, <2>3, <1>2, <1>3, <1>4, IdAssumption
  <2>4. CASE j > k
    <3>1. j - 1 \in Id /\ j - 1 < LastId /\ ~(j - 1 < k) /\ (j - 1) + 1 = j
      BY <2>4, <1>2, <1>4, IdAssumption
    <3> QED BY <3>1, <2>1, <1>3, <1>4, IdAssumption
  <2> QED BY <2>2, <2>3, <2>4, <1>2, <1>4, IdAssumption
<1> QED BY <1>5, <1>6, <1>7 DEF Permutation, r

\* Any number of draws (nextId) up to a full turn keeps a permutation.
LEMMA RotatePermutes ==
  ASSUME NEW q, Permutation(q), NEW k \in Id
  PROVE  Permutation(Rotate(q, k))
<1>1. q \in [Id -> Id] /\ Len(q) = LastId
  BY QueueLength DEF Permutation
<1> DEFINE r == Rotate(q, k)
<1>2. r = [i \in Id |-> IF i + k <= LastId THEN q[i + k]
                                           ELSE q[i + k - LastId]]
  BY <1>1 DEF Rotate, Id
<1> HIDE DEF r
<1>3. r \in [Id -> Id]
  BY <1>1, <1>2, IdAssumption DEF Id
<1>4. ASSUME NEW i \in Id, NEW j \in Id, r[i] = r[j] PROVE i = j
  <2> DEFINE from(x) == IF x + k <= LastId THEN x + k ELSE x + k - LastId
  <2>1. from(i) \in Id /\ from(j) \in Id
    BY IdAssumption DEF Id
  <2>2. r[i] = q[from(i)] /\ r[j] = q[from(j)]
    BY <1>2
  <2>3. from(i) = from(j)
    BY <1>4, <2>1, <2>2 DEF Permutation
  <2> QED BY <2>3, IdAssumption DEF Id
<1>5. ASSUME NEW x \in Id PROVE \E i \in Id : r[i] = x
  <2>1. PICK j \in Id : q[j] = x
    BY DEF Permutation
  <2>2. CASE j > k
    <3>1. j - k \in Id /\ (j - k) + k <= LastId /\ (j - k) + k = j
      BY <2>2, IdAssumption DEF Id
    <3> QED BY <3>1, <2>1, <1>2
  <2>3. CASE j <= k
    <3>1. /\ j - k + LastId \in Id
          /\ (j - k + LastId) + k - LastId = j
          /\ ~((j - k + LastId) + k <= LastId)
      BY <2>3, IdAssumption DEF Id
    <3> QED BY <3>1, <2>1, <1>2
  <2> QED BY <2>2, <2>3, IdAssumption DEF Id
<1> QED BY <1>3, <1>4, <1>5 DEF Permutation, r

\* The inductive invariant: the queue is a permutation, IDs are unique, and
\* those who had to find room in the session are at most MaxUsers.
Room == Cardinality(Members \ Mods) <= MaxUsers

IInv == TypeOK /\ QueueIsPermutation /\ UniqueIds /\ Room

\* The initial state: the host has the ID of its choice.
LEMMA InitIInv == Init => IInv
<1> SUFFICES ASSUME Init PROVE IInv
  OBVIOUS
<1>1. PICK host \in Name, id \in Id :
        /\ ids = ReserveId([i \in Id |-> i], id)
        /\ nameIds = [n \in Name |-> IF n = host THEN id ELSE 0]
        /\ userId = [n \in Name |-> IF n = host THEN id ELSE 0]
        /\ freed = 0
  BY DEF Init
<1>2. Permutation([i \in Id |-> i])
  BY DEF Permutation
<1>3. Permutation(ids)
  BY <1>1, <1>2, ReserveIdPermutes
<1>4. TypeOK
  BY <1>1, <1>3, IdAssumption DEF TypeOK, Permutation, Id
<1>5. Members = {host}
  BY <1>1 DEF Members, Id
<1>6. UniqueIds
  BY <1>5 DEF UniqueIds
<1>7. Room
  <2>1. IsFiniteSet({host}) /\ Cardinality({host}) = 1
    BY FS_Singleton
  <2>2. Cardinality(Members \ Mods) <= 1
    BY <2>1, <1>5, FS_Subset
  <2>3. Cardinality(Members \ Mods) \in Nat
    BY <2>1, <1>5, FS_Subset, FS_CardinalityType
  <2> QED BY <2>2, <2>3, IdAssumption DEF Room
<1> QED BY <1>3, <1>4, <1>6, <1>7 DEF IInv, QueueIsPermutation, Permutation

\* Moderators, who are let in whenever they come, leave IDs to the others.
FewMods == Cardinality(Mods) + MaxUsers <= LastId

\* The members are finitely many, and their IDs are no more than they are.
LEMMA MembersFinite ==
  /\ IsFiniteSet(Members) /\ Cardinality(Members) \in Nat
  /\ IsFiniteSet(InUse) /\ Cardinality(InUse) <= Cardinality(Members)
<1>1. IsFiniteSet(Members)
  BY NameAssumption, FS_Subset DEF Members
<1> DEFINE f == [n \in Members |-> userId[n]]
<1>2. f \in Surjection(Members, InUse)
  BY DEF Surjection, InUse
<1>3. IsFiniteSet(InUse) /\ Cardinality(InUse) <= Cardinality(Members)
  BY <1>1, <1>2, FS_Surjection
<1> QED BY <1>1, <1>3, FS_CardinalityType

\* Whoever may join finds a free ID.
LEMMA FreeIdExists ==
  ASSUME FewMods, Room, NEW n \in Name, userId[n] = 0, MayJoin(n)
  PROVE  \E id \in Id : id \notin InUse
<1>1. Cardinality(Members) < LastId
  <2>1. CASE n \notin Mods
    BY <2>1, MembersFinite, IdAssumption DEF MayJoin
  <2>2. CASE n \in Mods
    <3>1. IsFiniteSet(Mods) /\ Cardinality(Mods) \in Nat
      BY NameAssumption, FS_Subset, FS_CardinalityType
    <3>2. /\ IsFiniteSet(Mods \ {n})
          /\ Cardinality(Mods \ {n}) = Cardinality(Mods) - 1
      BY <3>1, <2>2, FS_RemoveElement
    <3>3. Members \cap Mods \subseteq Mods \ {n}
      BY DEF Members
    <3>4. Cardinality(Members \cap Mods) <= Cardinality(Mods) - 1
      BY <3>2, <3>3, FS_Subset
    <3>5. Cardinality(Members \ Mods)
            = Cardinality(Members) - Cardinality(Members \cap Mods)
      BY MembersFinite, FS_Difference
    <3>6. Cardinality(Members \cap Mods) \in Nat
      BY MembersFinite, FS_Intersection, FS_CardinalityType
    <3> QED BY <3>1, <3>4, <3>5, <3>6, MembersFinite, IdAssumption
            DEF Room, FewMods
  <2> QED BY <2>1, <2>2
<1>2. IsFiniteSet(Id) /\ Cardinality(Id) = LastId
  BY IdAssumption, FS_Interval DEF Id
<1>3. CASE Id \subseteq InUse
  <2>1. Cardinality(Id) <= Cardinality(InUse)
    BY <1>3, MembersFinite, FS_Subset
  <2>2. Cardinality(InUse) \in Nat
    BY MembersFinite, FS_CardinalityType
  <2> QED BY <2>1, <2>2, <1>1, <1>2, MembersFinite, IdAssumption
<1> QED BY <1>3

LEMMA LeastExists ==
  ASSUME NEW S, S \subseteq Nat, S # {}
  PROVE  \E k \in S : \A j \in S : k <= j
<1> DEFINE R == {ss \in Nat \X Nat : ss[1] < ss[2]}
<1>1. IsWellFoundedOn(R, Nat)
  BY NatLessThanWellFounded DEF OpToRel
<1> HIDE DEF R
<1>2. PICK k \in S : \A j \in S : ~(<<j, k>> \in R)
  BY <1>1, WFMin
<1>3. ASSUME NEW j \in S PROVE k <= j
  <2>1. j \in Nat /\ k \in Nat
    OBVIOUS
  <2>2. j < k => <<j, k>> \in R
    BY <2>1 DEF R
  <2> QED BY <2>1, <2>2, <1>2
<1> QED BY <1>3

\* The number of draws of assignId is the index of the first free ID.
LEMMA DrawsFree ==
  ASSUME QueueIsPermutation, \E id \in Id : id \notin InUse
  PROVE  Draws \in Id /\ ids[Draws] \notin InUse
<1>1. Len(ids) = LastId
  BY QueueLength DEF QueueIsPermutation
<1>2. PICK i \in Id : ids[i] \notin InUse
  BY DEF QueueIsPermutation
<1>3. FreeAt = {j \in Id : ids[j] \notin InUse}
  BY <1>1 DEF FreeAt, Id
<1>4. i \in FreeAt /\ FreeAt \subseteq Nat
  BY <1>2, <1>3 DEF Id
<1>5. \E k \in FreeAt : \A j \in FreeAt : k <= j
  BY <1>4, LeastExists
<1> QED BY <1>3, <1>4, <1>5 DEF Draws

\* What assignId finds for someone who may join: an ID nobody has, and a queue
\* that is a permutation still.
LEMMA AssignIdFresh ==
  ASSUME FewMods, IInv, NEW n \in Name, userId[n] = 0, MayJoin(n)
  PROVE  /\ AssignedId(n) \in Id /\ AssignedId(n) \notin InUse
         /\ Permutation(AssignedQueue(n))
<1>1. Permutation(ids)
  BY DEF IInv, QueueIsPermutation, Permutation
<1>2. \E id \in Id : id \notin InUse
  BY FreeIdExists DEF IInv
<1>3. Draws \in Id /\ ids[Draws] \notin InUse
  BY <1>2, DrawsFree DEF IInv
<1>4. ids[Draws] \in Id
  BY <1>1, <1>3 DEF Permutation
<1>5. CASE nameIds[n] = 0 \/ nameIds[n] \in InUse
  BY <1>1, <1>3, <1>4, <1>5, RotatePermutes DEF AssignedId, AssignedQueue
<1>6. CASE ~(nameIds[n] = 0 \/ nameIds[n] \in InUse)
  <2>1. nameIds[n] \in 0..LastId
    BY DEF IInv, TypeOK
  <2>2. nameIds[n] \in Id
    BY <2>1, <1>6, IdAssumption DEF Id
  <2> QED BY <2>2, <1>1, <1>6 DEF AssignedId, AssignedQueue
<1> QED BY <1>5, <1>6

\* Joining keeps the invariant.
LEMMA JoinIInv ==
  ASSUME FewMods, IInv, NEW n \in Name, Join(n)
  PROVE  IInv'
<1> DEFINE id == AssignedId(n)
<1>1. /\ userId[n] = 0 /\ MayJoin(n)
      /\ ids' = ReserveId(AssignedQueue(n), id)
      /\ nameIds' = [nameIds EXCEPT ![n] = id]
      /\ userId' = [userId EXCEPT ![n] = id]
      /\ freed' = freed
  BY DEF Join
<1>2. id \in Id /\ id \notin InUse /\ Permutation(AssignedQueue(n))
  BY <1>1, AssignIdFresh
<1> HIDE DEF id
<1>3. Permutation(ids')
  BY <1>1, <1>2, ReserveIdPermutes
<1>4. id # 0 /\ id \in 0..LastId
  BY <1>2, IdAssumption DEF Id
<1>5. TypeOK'
  BY <1>1, <1>3, <1>4 DEF IInv, TypeOK, Permutation
<1>6. Members' = Members \cup {n}
  BY <1>1, <1>4 DEF IInv, TypeOK, Members
<1>7. UniqueIds'
  <2>1. /\ \A m \in Members : userId'[m] = userId[m] /\ userId[m] # id
        /\ userId'[n] = id
    BY <1>1, <1>2 DEF IInv, TypeOK, Members, InUse
  <2> QED BY <2>1, <1>6 DEF IInv, UniqueIds
<1>8. Room'
  <2>1. CASE n \in Mods
    <3>1. Members' \ Mods = Members \ Mods
      BY <2>1, <1>6
    <3> QED BY <3>1 DEF IInv, Room
  <2>2. CASE n \notin Mods
    <3>1. Cardinality(Members) < MaxUsers
      BY <2>2, <1>1 DEF MayJoin
    <3>2. n \notin Members
      BY <1>1 DEF Members
    <3>3. /\ IsFiniteSet(Members')
          /\ Cardinality(Members') = Cardinality(Members) + 1
      BY <3>2, <1>6, MembersFinite, FS_AddElement
    <3>4. /\ Cardinality(Members' \ Mods) <= Cardinality(Members')
          /\ IsFiniteSet(Members' \ Mods)
      BY <3>3, FS_Subset
    <3>5. Cardinality(Members' \ Mods) \in Nat
      BY <3>4, FS_CardinalityType
    <3> QED BY <3>1, <3>3, <3>4, <3>5, MembersFinite, IdAssumption DEF Room
  <2> QED BY <2>1, <2>2
<1> QED BY <1>3, <1>5, <1>7, <1>8 DEF IInv, QueueIsPermutation, Permutation

\* Leaving keeps the invariant.
LEMMA LeaveIInv ==
  ASSUME IInv, NEW n \in Name, Leave(n)
  PROVE  IInv'
<1>1. /\ userId[n] # 0
      /\ ids' = ReserveId(ids, userId[n])
      /\ userId' = [userId EXCEPT ![n] = 0]
      /\ freed' = userId[n] /\ nameIds' = nameIds
  BY DEF Leave
<1>2. userId[n] \in Id
  BY <1>1, IdAssumption DEF IInv, TypeOK, Id
<1>3. Permutation(ids')
  <2>1. Permutation(ids)
    BY DEF IInv, QueueIsPermutation, Permutation
  <2> QED BY <2>1, <1>1, <1>2, ReserveIdPermutes
<1>4. TypeOK'
  <2>1. userId[n] \in 0..LastId /\ 0 \in 0..LastId
    BY IdAssumption DEF IInv, TypeOK
  <2> QED BY <2>1, <1>1, <1>3 DEF IInv, TypeOK, Permutation
<1>5. Members' = Members \ {n}
  BY <1>1 DEF IInv, TypeOK, Members
<1>6. UniqueIds'
  <2>1. \A m \in Members' : userId'[m] = userId[m]
    BY <1>1, <1>5 DEF IInv, TypeOK, Members
  <2> QED BY <2>1, <1>5 DEF IInv, UniqueIds
<1>7. Room'
  <2>1. Members' \ Mods \subseteq Members \ Mods
    BY <1>5
  <2>2. IsFiniteSet(Members \ Mods)
    BY MembersFinite, FS_Subset
  <2>3. /\ IsFiniteSet(Members' \ Mods)
        /\ Cardinality(Members' \ Mods) <= Cardinality(Members \ Mods)
    BY <2>1, <2>2, FS_Subset
  <2>4. /\ Cardinality(Members' \ Mods) \in Nat
        /\ Cardinality(Members \ Mods) \in Nat
    BY <2>2, <2>3, FS_CardinalityType
  <2> QED BY <2>3, <2>4, IdAssumption DEF IInv, Room
<1> QED BY <1>3, <1>4, <1>6, <1>7 DEF IInv, QueueIsPermutation, Permutation

\* assignId never gives two members the same ID, and reserveId finds the ID it
\* is asked for, for every number of names and IDs: the session is closed to
\* ordinary users in time, provided that the moderators, whom nothing keeps
\* out, are few enough for the IDs beyond MaxUsers.
THEOREM IdsAreUnique ==
  ASSUME FewMods
  PROVE  Spec => [](QueueIsPermutation /\ UniqueIds)
<1>1. Init => IInv
  BY InitIInv
<1>2. IInv /\ [Next]_vars => IInv'
  <2> SUFFICES ASSUME IInv, [Next]_vars PROVE IInv'
    OBVIOUS
  <2>1. ASSUME NEW n \in Name, Join(n) PROVE IInv'
    BY <2>1, JoinIInv
  <2>2. ASSUME NEW n \in Name, Leave(n) PROVE IInv'
    BY <2>2, LeaveIInv
  <2>3. CASE UNCHANGED vars
    BY <2>3 DEF vars, IInv, TypeOK, QueueIsPermutation, UniqueIds, Room,
                Members
  <2> QED BY <2>1, <2>2, <2>3 DEF Next
<1>3. IInv => QueueIsPermutation /\ UniqueIds
  BY DEF IInv
<1> QED BY <1>1, <1>2, <1>3, PTL DEF Spec

-----------------------------------------------------------------------------
(* What does not depend on the number of moderators.                       *)

\* Of the free IDs, the one freed last is drawn last: all that are behind it
\* in the queue are in use.
Aged ==
  \A p \in Id :
    ids[p] = freed /\ freed \notin InUse
    => \A j \in Id : j > p => ids[j] \in InUse

QueueInv == TypeOK /\ QueueIsPermutation /\ Aged

\* assignId draws up to the first free ID, or twice if there is none.
LEMMA DrawsFirst ==
  ASSUME QueueIsPermutation
  PROVE  /\ Draws \in Id
         /\ \A i \in Id : i < Draws => ids[i] \in InUse \/ Id \subseteq InUse
         /\ ids[Draws] \in InUse => Id \subseteq InUse
<1>1. Len(ids) = LastId /\ \A i \in Id : ids[i] \in Id
  BY QueueLength DEF QueueIsPermutation
<1>2. FreeAt = {i \in Id : ids[i] \notin InUse}
  BY <1>1 DEF FreeAt, Id
<1>3. CASE FreeAt = {}
  <2>1. Id \subseteq InUse
    BY <1>2, <1>3 DEF QueueIsPermutation
  <2>2. Draws = 2 /\ 2 \in Id
    BY <1>3, IdAssumption DEF Draws, Id
  <2> QED BY <2>1, <2>2
<1>4. CASE FreeAt # {}
  <2>1. PICK f \in FreeAt : TRUE
    BY <1>4
  <2>2. \E id \in Id : id \notin InUse
    BY <1>1, <1>2, <2>1
  <2>3. Draws \in Id /\ ids[Draws] \notin InUse
    BY <2>2, DrawsFree
  <2>4. \E i \in FreeAt : \A j \in FreeAt : i <= j
    <3>1. FreeAt \subseteq Nat
      BY <1>2 DEF Id
    <3> QED BY <1>4, <3>1, LeastExists
  <2>5. \A j \in FreeAt : Draws <= j
    BY <1>4, <2>4 DEF Draws
  <2>6. \A i \in Id : i < Draws => i \notin FreeAt
    BY <2>3, <2>5 DEF Id
  <2> QED BY <1>2, <2>3, <2>6
<1> QED BY <1>3, <1>4

\* The ID that is moved to the back overtakes all the others, whose order
\* stays.
LEMMA ReserveIdOrder ==
  ASSUME NEW q, Permutation(q), NEW id \in Id,
         NEW i \in Id, NEW j \in Id, i < j,
         ReserveId(q, id)[i] # id, ReserveId(q, id)[j] # id
  PROVE  \E k, l \in Id : /\ k < l /\ q[k] = ReserveId(q, id)[i]
                          /\ q[l] = ReserveId(q, id)[j]
<1>1. q \in [Id -> Id] /\ Len(q) = LastId
  BY QueueLength DEF Permutation
<1> DEFINE at == CHOOSE x \in 1..Len(q) : q[x] = id
           r == ReserveId(q, id)
<1>2. at \in Id /\ q[at] = id
  BY <1>1 DEF Permutation, Id
<1>3. r = [x \in Id |-> IF x = LastId THEN id
                        ELSE IF x < at THEN q[x] ELSE q[x + 1]]
  BY <1>1 DEF ReserveId, Id
<1> HIDE DEF at
<1> DEFINE from(x) == IF x < at THEN x ELSE x + 1
<1>4. i # LastId /\ j # LastId
  BY <1>3
<1>5. r[i] = q[from(i)] /\ r[j] = q[from(j)]
  BY <1>3, <1>4
<1>6. from(i) \in Id /\ from(j) \in Id /\ from(i) < from(j)
  BY <1>2, <1>4, IdAssumption DEF Id
<1> HIDE DEF from, r
<1> QED BY <1>5, <1>6 DEF r

\* The ID that is moved to the back is the last.
LEMMA ReserveIdLast ==
  ASSUME NEW q, Permutation(q), NEW id \in Id
  PROVE  ReserveId(q, id)[LastId] = id
<1>1. q \in [Id -> Id] /\ Len(q) = LastId /\ LastId \in 1..LastId
  BY QueueLength, IdAssumption DEF Permutation
<1> QED BY <1>1 DEF ReserveId

\* Drawing takes IDs from the front to the back: of two that keep their order
\* none or both were drawn, and the one behind the others was drawn.
LEMMA RotateOrder ==
  ASSUME NEW q, Permutation(q), NEW d \in Id, NEW i \in Id, NEW j \in Id, i < j
  PROVE  \E k, l \in Id : /\ q[k] = Rotate(q, d)[i] /\ q[l] = Rotate(q, d)[j]
                          /\ k < l \/ l <= d
<1>1. q \in [Id -> Id] /\ Len(q) = LastId
  BY QueueLength DEF Permutation
<1> DEFINE r == Rotate(q, d)
           from(x) == IF x + d <= LastId THEN x + d ELSE x + d - LastId
<1>2. r = [x \in Id |-> IF x + d <= LastId THEN q[x + d]
                                           ELSE q[x + d - LastId]]
  BY <1>1 DEF Rotate, Id
<1>3. r[i] = q[from(i)] /\ r[j] = q[from(j)]
  BY <1>2
<1>4. /\ from(i) \in Id /\ from(j) \in Id
      /\ from(i) < from(j) \/ from(j) <= d
  BY IdAssumption DEF Id
<1> HIDE DEF r, from
<1> QED BY <1>3, <1>4 DEF r

LEMMA JoinQueueInv ==
  ASSUME QueueInv, NEW n \in Name, Join(n)
  PROVE  /\ QueueInv' /\ freed' = freed
         /\ \A m \in Name : m # n => userId'[m] = userId[m]
         /\ userId'[n] = AssignedId(n)
<1> DEFINE id == AssignedId(n)
           q == AssignedQueue(n)
<1>1. /\ userId[n] = 0 /\ ids' = ReserveId(q, id)
      /\ nameIds' = [nameIds EXCEPT ![n] = id]
      /\ userId' = [userId EXCEPT ![n] = id] /\ freed' = freed
  BY DEF Join
<1>2. Permutation(ids) /\ \A i \in Id : ids[i] \in Id
  BY DEF QueueInv, QueueIsPermutation, Permutation
<1>3. /\ Draws \in Id
      /\ \A i \in Id : i < Draws => ids[i] \in InUse \/ Id \subseteq InUse
      /\ ids[Draws] \in InUse => Id \subseteq InUse
  BY DrawsFirst DEF QueueInv
<1>4. id \in Id /\ Permutation(q)
  <2>1. nameIds[n] # 0 => nameIds[n] \in Id
    BY IdAssumption DEF QueueInv, TypeOK, Id
  <2> QED BY <1>2, <1>3, <2>1, RotatePermutes DEF AssignedId, AssignedQueue
<1>5. ASSUME freed # id, freed \notin InUse,
             NEW k \in Id, NEW l \in Id, k < l, q[k] = freed, q[l] # id
      PROVE  q[l] \in InUse
  <2>1. CASE nameIds[n] = 0 \/ nameIds[n] \in InUse
    <3>1. q = Rotate(ids, Draws) /\ id = ids[Draws]
      BY <2>1 DEF AssignedId, AssignedQueue
    <3>2. PICK x \in Id, y \in Id :
            ids[x] = q[k] /\ ids[y] = q[l] /\ (x < y \/ y <= Draws)
      <4> DEFINE d == Draws
      <4>1. d \in Id /\ k < l
        BY <1>3, <1>5
      <4>2. \E x, y \in Id : /\ ids[x] = Rotate(ids, d)[k]
                             /\ ids[y] = Rotate(ids, d)[l]
                             /\ x < y \/ y <= d
        <5> HIDE DEF d
        <5> QED BY <1>2, <4>1, RotateOrder
      <4> QED BY <3>1, <4>2
    <3>3. CASE x < y
      <4>1. ids[x] = freed /\ y > x
        BY <1>5, <3>2, <3>3 DEF Id
      <4> QED BY <1>5, <3>2, <4>1 DEF QueueInv, Aged
    <3>4. CASE y <= Draws
      <4>1. y # Draws
        BY <1>5, <3>1, <3>2
      <4>2. y < Draws
        BY <1>3, <3>4, <4>1, IdAssumption DEF Id
      <4>3. q[l] \in Id
        BY <1>2, <3>2
      <4> QED BY <1>3, <3>2, <4>2, <4>3
    <3> QED BY <3>2, <3>3, <3>4
  <2>2. CASE ~(nameIds[n] = 0 \/ nameIds[n] \in InUse)
    <3>1. q = ids
      BY <2>2 DEF AssignedQueue
    <3>2. l > k
      BY <1>5 DEF Id
    <3> QED BY <1>5, <3>1, <3>2 DEF QueueInv, Aged
  <2> QED BY <2>1, <2>2
<1> HIDE DEF id, q
<1>6. Permutation(ids')
  BY <1>1, <1>4, ReserveIdPermutes
<1>7. id # 0 /\ id \in 0..LastId
  BY <1>4, IdAssumption DEF Id
<1>8. TypeOK'
  BY <1>1, <1>6, <1>7 DEF QueueInv, TypeOK, Permutation
<1>9. InUse' = InUse \cup {id}
  <2>1. Members' = Members \cup {n} /\ n \notin Members
    BY <1>1, <1>7 DEF QueueInv, TypeOK, Members
  <2>2. userId'[n] = id /\ \A m \in Members : userId'[m] = userId[m]
    BY <1>1, <2>1 DEF QueueInv, TypeOK, Members
  <2> QED BY <2>1, <2>2 DEF InUse
<1>10. Aged'
  <2> SUFFICES ASSUME NEW p \in Id, ids'[p] = freed, freed \notin InUse',
                      NEW j \in Id, j > p
               PROVE  ids'[j] \in InUse'
    BY <1>1 DEF Aged
  <2>1. freed # id /\ freed \notin InUse
    BY <1>9
  <2>2. CASE ids'[j] = id
    BY <1>9, <2>2
  <2>3. CASE ids'[j] # id
    <3>1. p < j
      BY DEF Id
    <3>2. PICK k \in Id, l \in Id : k < l /\ q[k] = ids'[p] /\ q[l] = ids'[j]
      BY <1>1, <1>4, <2>1, <2>3, <3>1, ReserveIdOrder
    <3>3. q[l] \in InUse
      BY <1>5, <2>1, <2>3, <3>2 DEF id, q
    <3> QED BY <1>9, <3>2, <3>3
  <2> QED BY <2>2, <2>3
<1>11. userId'[n] = id /\ \A m \in Name : m # n => userId'[m] = userId[m]
  BY <1>1 DEF QueueInv, TypeOK
<1> QED BY <1>1, <1>6, <1>8, <1>10, <1>11
        DEF QueueInv, QueueIsPermutation, Permutation, id

LEMMA LeaveQueueInv ==
  ASSUME QueueInv, NEW n \in Name, Leave(n)
  PROVE  /\ QueueInv' /\ userId'[n] = 0
         /\ \A m \in Name : m # n => userId'[m] = userId[m]
<1>1. /\ userId[n] # 0 /\ ids' = ReserveId(ids, userId[n])
      /\ userId' = [userId EXCEPT ![n] = 0]
      /\ freed' = userId[n] /\ nameIds' = nameIds
  BY DEF Leave
<1>2. userId[n] \in Id /\ Permutation(ids)
  <2>1. userId[n] \in Id
    BY <1>1, IdAssumption DEF QueueInv, TypeOK, Id
  <2>2. Permutation(ids)
    BY DEF QueueInv, QueueIsPermutation, Permutation
  <2> QED BY <2>1, <2>2
<1>3. Permutation(ids') /\ ids'[LastId] = userId[n]
  BY <1>1, <1>2, ReserveIdPermutes, ReserveIdLast
<1>4. TypeOK'
  <2>1. userId[n] \in 0..LastId /\ 0 \in 0..LastId
    BY IdAssumption DEF QueueInv, TypeOK
  <2> QED BY <1>1, <1>3, <2>1 DEF QueueInv, TypeOK, Permutation
<1>5. Aged'
  <2> SUFFICES ASSUME NEW p \in Id, ids'[p] = freed', NEW j \in Id, j > p
               PROVE  FALSE
    BY DEF Aged
  <2>1. LastId \in Id
    BY IdAssumption DEF Id
  <2>2. p = LastId
    BY <1>1, <1>3, <2>1 DEF Permutation
  <2> QED BY <2>2, IdAssumption DEF Id
<1>6. userId'[n] = 0 /\ \A m \in Name : m # n => userId'[m] = userId[m]
  BY <1>1 DEF QueueInv, TypeOK
<1> QED BY <1>3, <1>4, <1>5, <1>6 DEF QueueInv, QueueIsPermutation, Permutation

LEMMA InitQueueInv ==
  ASSUME Init
  PROVE  QueueInv
<1>1. TypeOK /\ QueueIsPermutation
  BY InitIInv DEF IInv
<1>2. freed = 0 /\ 0 \notin Id
  BY IdAssumption DEF Init, Id
<1>3. Aged
  BY <1>1, <1>2 DEF Aged, TypeOK
<1> QED BY <1>1, <1>3 DEF QueueInv

\* The inductive invariant of the queue of IDs: a permutation in which the ID
\* freed last is behind every other free one.
THEOREM QueueInOrder == Spec => []QueueInv
<1>1. Init => QueueInv
  BY InitQueueInv
<1>2. QueueInv /\ [Next]_vars => QueueInv'
  <2> SUFFICES ASSUME QueueInv, [Next]_vars PROVE QueueInv'
    OBVIOUS
  <2>1. ASSUME NEW n \in Name, Join(n) PROVE QueueInv'
    BY <2>1, JoinQueueInv
  <2>2. ASSUME NEW n \in Name, Leave(n) PROVE QueueInv'
    BY <2>2, LeaveQueueInv
  <2>3. CASE UNCHANGED vars
    BY <2>3 DEF vars, QueueInv, TypeOK, QueueIsPermutation, Aged, InUse, Members
  <2> QED BY <2>1, <2>2, <2>3 DEF Next
<1> QED BY <1>1, <1>2, PTL DEF Spec

\* The IDs in the queue, of the names and of the members are IDs, also when
\* assignId gives up after its last draw.
THEOREM IdTypeCorrect == Spec => []TypeOK
<1>1. QueueInv => TypeOK
  BY DEF QueueInv
<1> QED BY <1>1, QueueInOrder, PTL

\* The assertion of reserveId, that it finds the ID it is to move, holds
\* however many moderators there are: every ID is in the queue exactly once.
THEOREM QueueStaysPermutation == Spec => []QueueIsPermutation
<1>1. QueueInv => QueueIsPermutation
  BY DEF QueueInv
<1> QED BY <1>1, QueueInOrder, PTL

\* removeUser's "Try not to reuse the ID right away": whoever is not given its
\* own former ID is given the ID freed last only if every other is in use.
THEOREM FreedIdIsDrawnLast == Spec => NoHastyReuse
<1> DEFINE Hasty ==
      \A n \in Name :
        /\ userId[n] = 0 /\ userId'[n] # 0
        /\ userId'[n] # nameIds[n] /\ userId'[n] = freed
        => Id \subseteq InUse \cup {freed}
<1>1. QueueInv /\ [Next]_vars => [Hasty]_vars
  <2> SUFFICES ASSUME QueueInv, Next,
                      NEW n \in Name, userId[n] = 0, userId'[n] # 0,
                      userId'[n] # nameIds[n], userId'[n] = freed
               PROVE  Id \subseteq InUse \cup {freed}
    OBVIOUS
  <2>1. \A m \in Name : ~Leave(m)
    BY LeaveQueueInv
  <2>2. PICK m \in Name : Join(m)
    BY <2>1 DEF Next
  <2>3. m = n /\ userId'[n] = AssignedId(n)
    BY <2>2, JoinQueueInv
  <2>4. ids[Draws] = freed
    BY <2>3 DEF AssignedId
  <2>5. /\ Draws \in Id
        /\ \A i \in Id : i < Draws => ids[i] \in InUse \/ Id \subseteq InUse
        /\ ids[Draws] \in InUse => Id \subseteq InUse
    BY DrawsFirst DEF QueueInv
  <2>6. CASE freed \in InUse
    BY <2>4, <2>5, <2>6
  <2>7. CASE freed \notin InUse
    <3> SUFFICES ASSUME NEW id \in Id, id # freed PROVE id \in InUse
      OBVIOUS
    <3>1. PICK i \in Id : ids[i] = id
      BY DEF QueueInv, QueueIsPermutation
    <3>2. i < Draws \/ i > Draws
      BY <2>4, <2>5, <3>1 DEF Id
    <3>3. i > Draws => ids[i] \in InUse
      BY <2>4, <2>5, <2>7 DEF QueueInv, Aged
    <3> QED BY <2>5, <3>1, <3>2, <3>3
  <2> QED BY <2>6, <2>7
<1> HIDE DEF Hasty
<1>2. Spec => [][Hasty]_vars
  BY <1>1, QueueInOrder, PTL DEF Spec
<1> QED BY <1>2 DEF NoHastyReuse, Hasty

=============================================================================
