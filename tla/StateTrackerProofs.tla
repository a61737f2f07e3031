------------------------- MODULE StateTrackerProofs -------------------------
(***************************************************************************)
(* The canvas of a client, proved for every session: what the positions of *)
(* savepoints, history and local fork have to do with each other.          *)
(***************************************************************************)
EXTENDS StateTracker, SequenceTheorems, FiniteSetTheorems,
        WellFoundedInduction, TLAPS

(***************************************************************************)
(* Induction, for sets of numbers                                          *)
(***************************************************************************)

(* A set of numbers that is not empty has a least element.                  *)
LEMMA LeastNumber ==
  ASSUME NEW D \in SUBSET Nat, D # {}
  PROVE  \E n \in D : \A k \in D : n <= k
<1> DEFINE R == OpToRel(<, Nat)
<1>1. IsWellFoundedOn(R, Nat)
  BY NatLessThanWellFounded
<1>2. PICK n \in D : \A k \in D : ~(<<k, n>> \in R)
  BY <1>1, WFMin
<1>3. \A k \in D : ~(k < n)
  BY <1>2 DEF OpToRel
<1>4. \A k \in D : n <= k
  BY <1>3
<1> QED BY <1>4

(* Induction: a set of numbers with 0 and the successors of its members.    *)
LEMMA Induction ==
  ASSUME NEW T \in SUBSET Nat, 0 \in T, \A n \in T : n + 1 \in T
  PROVE  T = Nat
<1> SUFFICES ASSUME Nat \ T # {} PROVE FALSE
  OBVIOUS
<1>1. PICK n \in Nat \ T : \A k \in Nat \ T : n <= k
  BY LeastNumber
<1>2. n # 0 /\ n - 1 \in Nat
  BY <1>1
<1>3. n - 1 \in T
  BY <1>1, <1>2
<1> QED BY <1>1, <1>2, <1>3

(* The greatest and the least member of a set of numbers are members.       *)
LEMMA MaxInSet ==
  ASSUME NEW a \in Int, NEW b \in Int, NEW S, S \subseteq a .. b, S # {}
  PROVE  Max(S) \in S /\ \A k \in S : k <= Max(S)
<1> DEFINE T == {b - k : k \in S}
<1>0. \A k \in S : k \in Int /\ a <= k /\ k <= b
  OBVIOUS
<1>1. T \in SUBSET Nat /\ T # {}
  <2>1. \A k \in S : b - k \in Nat
    BY <1>0
  <2> QED BY <2>1
<1>2. PICK n \in T : \A k \in T : n <= k
  BY <1>1, LeastNumber
<1>3. PICK x \in S : n = b - x
  BY <1>2
<1>4. ASSUME NEW y \in S PROVE x >= y
  <2>1. b - y \in T
    OBVIOUS
  <2> QED BY <2>1, <1>0, <1>2, <1>3
<1>5. \E z \in S : \A y \in S : z >= y
  BY <1>4
<1>6. Max(S) \in S /\ \A y \in S : Max(S) >= y
  BY <1>5 DEF Max
<1> QED BY <1>6

LEMMA MinInSet ==
  ASSUME NEW a \in Int, NEW b \in Int, NEW S, S \subseteq a .. b, S # {}
  PROVE  Min(S) \in S
<1> DEFINE T == {k - a : k \in S}
<1>1. T \in SUBSET Nat /\ T # {}
  OBVIOUS
<1>2. PICK n \in T : \A k \in T : n <= k
  BY <1>1, LeastNumber
<1>3. PICK x \in S : n = x - a
  BY <1>2
<1>4. ASSUME NEW y \in S PROVE x =< y
  <2>1. y - a \in T
    OBVIOUS
  <2> QED BY <2>1, <1>2, <1>3
<1>5. \E z \in S : \A y \in S : z =< y
  BY <1>4
<1> QED BY <1>5 DEF Min

(***************************************************************************)
(* Types                                                                   *)
(***************************************************************************)
UndoState == {"DONE", "UNDONE", "GONE"}
Msg == [by : Client, t : Kind, on : Client \cup Spot, n : Nat]
Entry == [m : Msg, undo : UndoState]
Canvas == [Spot -> Seq(Client \X Nat)]
Savepoint == [at : Int, canvas : Canvas]
Tracker ==
  [offset : Nat, history : Seq(Entry), fork : Seq(Msg), forkAt : Int, behind : Nat,
   savepoints : Seq(Savepoint), canvas : Canvas, pen : BOOLEAN]

(* The fields of a tracker.                                                 *)
LEMMA TrackerFields ==
  ASSUME NEW t \in Tracker
  PROVE  /\ t.offset \in Nat /\ t.history \in Seq(Entry) /\ t.fork \in Seq(Msg)
         /\ t.forkAt \in Int /\ t.behind \in Nat /\ t.savepoints \in Seq(Savepoint)
         /\ t.canvas \in Canvas /\ t.pen \in BOOLEAN
  BY DEF Tracker

LEMMA HistoryType ==
  ASSUME NEW t \in Tracker
  PROVE  /\ Len(t.history) \in Nat
         /\ End(t) \in Nat
         /\ t.offset <= End(t)
         /\ Valid(t) = t.offset .. (End(t) - 1)
<1>1. t.offset \in Nat /\ t.history \in Seq(Entry)
  BY TrackerFields
<1> QED BY <1>1 DEF End, Valid

LEMMA AtType ==
  ASSUME NEW t \in Tracker, NEW i \in Valid(t)
  PROVE  At(t, i) \in Entry /\ At(t, i).m \in Msg /\ At(t, i).undo \in UndoState
<1>1. t.offset \in Nat /\ t.history \in Seq(Entry)
  BY TrackerFields
<1>2. i - t.offset + 1 \in 1 .. Len(t.history)
  BY <1>1, HistoryType DEF End
<1>3. At(t, i) \in Entry
  BY <1>1, <1>2 DEF At
<1> QED BY <1>3 DEF Entry

LEMMA SavepointType ==
  ASSUME NEW t \in Tracker, NEW i \in DOMAIN t.savepoints
  PROVE  /\ t.savepoints[i] \in Savepoint
         /\ t.savepoints[i].at \in Int /\ t.savepoints[i].canvas \in Canvas
<1>1. t.savepoints \in Seq(Savepoint)
  BY TrackerFields
<1>2. t.savepoints[i] \in Savepoint
  BY <1>1
<1> QED BY <1>2 DEF Savepoint

(***************************************************************************)
(* What holds of every tracker between two messages                        *)
(***************************************************************************)

(* The savepoints are in the order of their positions and in the history.   *)
Ordered(t) ==
  /\ t.savepoints # <<>>
  /\ \A i, j \in DOMAIN t.savepoints : i <= j => t.savepoints[i].at <= t.savepoints[j].at
  /\ \A i \in DOMAIN t.savepoints : -1 <= t.savepoints[i].at /\ t.savepoints[i].at < End(t)

(* The history begins at the first savepoint ...                            *)
Window(t) == t.offset = IF t.savepoints[1].at < 0 THEN 0 ELSE t.savepoints[1].at

(* ... or, while older savepoints are being released, before it.            *)
Unclean(t) == t.offset <= IF t.savepoints[1].at < 0 THEN 0 ELSE t.savepoints[1].at

(* The savepoints precede the local fork, if there is one.                  *)
BeforeFork(t) ==
  t.fork # <<>> => \A i \in DOMAIN t.savepoints : t.savepoints[i].at <= t.forkAt

Good(t) == t \in Tracker /\ Ordered(t) /\ Window(t) /\ BeforeFork(t)

(* Nothing but history and savepoints differs.                              *)
SameFork(t, u) ==
  u.fork = t.fork /\ u.forkAt = t.forkAt /\ u.behind = t.behind /\ u.pen = t.pen

(***************************************************************************)
(* Messages and painting                                                   *)
(***************************************************************************)
LEMMA PaintType ==
  ASSUME NEW v \in Canvas, NEW m \in Msg \cup {Nothing}
  PROVE  Paint(v, m) \in Canvas
<1>1. ASSUME NEW x \in Spot
      PROVE (IF m.t = "Resize" \/ (m.t = "Draw" /\ m.on = x)
             THEN Append(v[x], <<m.by, m.n>>) ELSE v[x]) \in Seq(Client \X Nat)
  <2>1. v[x] \in Seq(Client \X Nat)
    BY DEF Canvas
  <2>2. CASE m \in Msg
    <3>1. <<m.by, m.n>> \in Client \X Nat
      BY <2>2 DEF Msg
    <3> QED BY <2>1, <3>1
  <2>3. CASE m = Nothing
    BY <2>1, <2>3 DEF Nothing
  <2> QED BY <2>2, <2>3
<1> QED BY <1>1 DEF Paint, Canvas

(* The canvas after each of a run of commands.                              *)
IsPainting(f, v, s) ==
  f = [i \in 0 .. Len(s) |-> IF i = 0 THEN v ELSE Paint(f[i - 1], s[i])]

LEMMA PaintingExists ==
  ASSUME NEW S, NEW v, NEW s \in Seq(S)
  PROVE  \E f : IsPainting(f, v, s)
<1> DEFINE Upto(f, n) == f = [i \in 0 .. n |-> IF i = 0 THEN v ELSE Paint(f[i - 1], s[i])]
           T == {n \in Nat : \E f : Upto(f, n)}
<1>1. 0 \in T
  <2>1. Upto([i \in 0 .. 0 |-> v], 0)
    OBVIOUS
  <2> QED BY <2>1
<1>2. ASSUME NEW n \in T PROVE n + 1 \in T
  <2>1. n \in Nat
    OBVIOUS
  <2>2. PICK f : Upto(f, n)
    OBVIOUS
  <2> DEFINE g == [i \in 0 .. n + 1 |-> IF i = n + 1 THEN Paint(f[n], s[n + 1]) ELSE f[i]]
  <2>3. \A i \in 0 .. n + 1 : g[i] = IF i = 0 THEN v ELSE Paint(g[i - 1], s[i])
    <3>1. \A i \in 0 .. n : g[i] = f[i]
      BY <2>1
    <3>2. \A i \in 0 .. n : f[i] = IF i = 0 THEN v ELSE Paint(f[i - 1], s[i])
      BY <2>1, <2>2
    <3>3. g[n + 1] = Paint(f[n], s[n + 1]) /\ g[n] = f[n]
      BY <2>1
    <3> HIDE DEF g, Upto
    <3>4. ASSUME NEW i \in 1 .. n PROVE g[i] = Paint(g[i - 1], s[i])
      <4>1. i \in 0 .. n /\ i - 1 \in 0 .. n /\ i # 0
        BY <2>1
      <4> QED BY <4>1, <3>1, <3>2
    <3>5. g[0] = v
      BY <2>1, <3>1, <3>2
    <3>6. ASSUME NEW i \in 0 .. n + 1 PROVE i = 0 \/ i \in 1 .. n \/ i = n + 1
      BY <2>1
    <3> QED BY <3>3, <3>4, <3>5, <3>6, <2>1
  <2>4. Upto(g, n + 1)
    BY <2>1, <2>3
  <2> HIDE DEF Upto, g
  <2> QED BY <2>1, <2>4
<1>3. T = Nat
  <2>1. T \in SUBSET Nat
    OBVIOUS
  <2> HIDE DEF T
  <2> QED BY <1>1, <1>2, <2>1, Induction
<1>4. Len(s) \in T
  <2>1. Len(s) \in Nat
    OBVIOUS
  <2> HIDE DEF T
  <2> QED BY <1>3, <2>1
<1> QED BY <1>4 DEF IsPainting

LEMMA PaintAllIs ==
  ASSUME NEW S, NEW v, NEW s \in Seq(S)
  PROVE  \E f : IsPainting(f, v, s) /\ PaintAll(v, s) = f[Len(s)]
<1>1. \E f : IsPainting(f, v, s)
  BY PaintingExists
<1> QED BY <1>1 DEF PaintAll, IsPainting


LEMMA PaintAllType ==
  ASSUME NEW v \in Canvas, NEW s \in Seq(Msg \cup {Nothing})
  PROVE  PaintAll(v, s) \in Canvas
<1>1. PICK f : IsPainting(f, v, s) /\ PaintAll(v, s) = f[Len(s)]
  BY PaintAllIs
<1>2. \A i \in 0 .. Len(s) : f[i] = IF i = 0 THEN v ELSE Paint(f[i - 1], s[i])
  BY <1>1 DEF IsPainting
<1> DEFINE T == {n \in Nat : n <= Len(s) => f[n] \in Canvas}
<1>3. 0 \in T
  BY <1>2
<1>4. ASSUME NEW n \in T PROVE n + 1 \in T
  <2>1. SUFFICES ASSUME n + 1 <= Len(s) PROVE f[n + 1] \in Canvas
    OBVIOUS
  <2>2. n \in Nat /\ f[n] \in Canvas
    BY <2>1
  <2>3. n + 1 \in 0 .. Len(s) /\ n + 1 # 0 /\ n + 1 - 1 = n /\ n + 1 \in 1 .. Len(s)
    BY <2>1, <2>2
  <2>4. f[n + 1] = Paint(f[n], s[n + 1])
    BY <2>3, <1>2
  <2>5. s[n + 1] \in Msg \cup {Nothing}
    BY <2>3
  <2> HIDE DEF T
  <2> QED BY <2>2, <2>4, <2>5, PaintType
<1>5. T = Nat
  <2>1. T \in SUBSET Nat
    OBVIOUS
  <2> HIDE DEF T
  <2> QED BY <1>3, <1>4, <2>1, Induction
<1>6. Len(s) \in T
  <2>1. Len(s) \in Nat
    OBVIOUS
  <2> HIDE DEF T
  <2> QED BY <1>5, <2>1
<1> QED BY <1>1, <1>6

LEMMA PaintForkType ==
  ASSUME NEW v \in Canvas, NEW s \in Seq(Msg)
  PROVE  PaintAll(v, s) \in Canvas
<1>1. s \in Seq(Msg \cup {Nothing})
  OBVIOUS
<1> QED BY <1>1, PaintAllType

(***************************************************************************)
(* History and local fork                                                  *)
(***************************************************************************)

(* The fields of a tracker after an assignment to some of them.             *)
LEMMA SetHistoryFields ==
  ASSUME NEW t \in Tracker, NEW h \in Seq(Entry)
  PROVE  LET u == [t EXCEPT !.history = h] IN
         /\ u \in Tracker /\ u.history = h /\ u.offset = t.offset
         /\ u.savepoints = t.savepoints /\ u.canvas = t.canvas /\ SameFork(t, u)
  BY DEF Tracker, SameFork

LEMMA SetSavepointsFields ==
  ASSUME NEW t \in Tracker, NEW s \in Seq(Savepoint)
  PROVE  LET u == [t EXCEPT !.savepoints = s] IN
         /\ u \in Tracker /\ u.history = t.history /\ u.offset = t.offset
         /\ u.savepoints = s /\ u.canvas = t.canvas /\ SameFork(t, u)
  BY DEF Tracker, SameFork

LEMMA SetCanvasFields ==
  ASSUME NEW t \in Tracker, NEW v \in Canvas
  PROVE  LET u == [t EXCEPT !.canvas = v] IN
         /\ u \in Tracker /\ u.history = t.history /\ u.offset = t.offset
         /\ u.savepoints = t.savepoints /\ u.canvas = v /\ SameFork(t, u)
  BY DEF Tracker, SameFork

LEMMA ClearForkFields ==
  ASSUME NEW t \in Tracker
  PROVE  LET u == ClearFork(t) IN
         /\ u \in Tracker /\ u.history = t.history /\ u.offset = t.offset
         /\ u.savepoints = t.savepoints /\ u.canvas = t.canvas
         /\ u.fork = <<>> /\ u.forkAt = t.forkAt /\ u.pen = t.pen
<1>1. <<>> \in Seq(Msg) /\ 0 \in Nat
  OBVIOUS
<1>2. ASSUME NEW f \in Seq(Msg), NEW b \in Nat
      PROVE  LET u == [t EXCEPT !.fork = f, !.behind = b] IN
             /\ u \in Tracker /\ u.history = t.history /\ u.offset = t.offset
             /\ u.savepoints = t.savepoints /\ u.canvas = t.canvas
             /\ u.fork = f /\ u.forkAt = t.forkAt /\ u.pen = t.pen
  BY DEF Tracker
<1> QED BY <1>1, <1>2 DEF ClearFork

(* History::append                                                          *)
LEMMA AppendMessageIs ==
  ASSUME NEW t \in Tracker, NEW m \in Msg
  PROVE  LET u == AppendMessage(t, m) IN
         /\ u \in Tracker /\ u.offset = t.offset
         /\ u.history = Append(t.history, [m |-> m, undo |-> "DONE"])
         /\ u.savepoints = t.savepoints /\ u.canvas = t.canvas /\ SameFork(t, u)
         /\ End(u) = End(t) + 1
         /\ At(u, End(t)) = [m |-> m, undo |-> "DONE"]
         /\ \A i \in Valid(t) : At(u, i) = At(t, i)
<1> DEFINE e == [m |-> m, undo |-> "DONE"]
           u == AppendMessage(t, m)
<1>1. e \in Entry
  BY DEF Entry, UndoState
<1>2. t.offset \in Nat /\ t.history \in Seq(Entry)
  BY TrackerFields
<1>3. Append(t.history, e) \in Seq(Entry)
  BY <1>1, <1>2
<1> HIDE DEF e
<1>4. u = [t EXCEPT !.history = Append(t.history, e)]
  BY DEF AppendMessage, e
<1> HIDE DEF u
<1>5. /\ u \in Tracker /\ u.history = Append(t.history, e) /\ u.offset = t.offset
      /\ u.savepoints = t.savepoints /\ u.canvas = t.canvas /\ SameFork(t, u)
  BY <1>3, <1>4, SetHistoryFields
<1> HIDE DEF u
<1>6. End(u) = End(t) + 1
  BY <1>2, <1>5, <1>1 DEF End
<1>7. At(u, End(t)) = e
  <2>1. End(t) - u.offset + 1 = Len(t.history) + 1
    BY <1>2, <1>5 DEF End
  <2> QED BY <2>1, <1>1, <1>2, <1>5 DEF At
<1>8. ASSUME NEW i \in Valid(t) PROVE At(u, i) = At(t, i)
  <2>1. i - t.offset + 1 \in 1 .. Len(t.history)
    BY <1>2, HistoryType DEF End
  <2> QED BY <2>1, <1>1, <1>2, <1>5 DEF At
<1> QED BY <1>5, <1>6, <1>7, <1>8 DEF u, e

(* The undo states change, and nothing else.                                *)
LEMMA SetUndoStateIs ==
  ASSUME NEW t \in Tracker, NEW Ix, NEW st \in UndoState
  PROVE  LET u == SetUndoState(t, Ix, st) IN
         /\ u \in Tracker /\ u.offset = t.offset
         /\ u.savepoints = t.savepoints /\ u.canvas = t.canvas /\ SameFork(t, u)
         /\ End(u) = End(t)
         /\ \A i \in Valid(t) : /\ At(u, i).m = At(t, i).m
                                /\ At(u, i).undo = IF i \in Ix THEN st ELSE At(t, i).undo
<1> DEFINE u == SetUndoState(t, Ix, st)
           h == [k \in DOMAIN t.history |->
                  IF k + t.offset - 1 \in Ix THEN [t.history[k] EXCEPT !.undo = st]
                  ELSE t.history[k]]
<1>1. t.offset \in Nat /\ t.history \in Seq(Entry)
  BY TrackerFields
<1>2. \A k \in DOMAIN t.history :
        /\ h[k] \in Entry /\ h[k].m = t.history[k].m
        /\ h[k].undo = IF k + t.offset - 1 \in Ix THEN st ELSE t.history[k].undo
  <2> SUFFICES ASSUME NEW k \in DOMAIN t.history
               PROVE  /\ h[k] \in Entry /\ h[k].m = t.history[k].m
                      /\ h[k].undo = IF k + t.offset - 1 \in Ix THEN st ELSE t.history[k].undo
    OBVIOUS
  <2>1. t.history[k] \in Entry
    BY <1>1
  <2> QED BY <2>1 DEF Entry
<1>3. h \in Seq(Entry) /\ Len(h) = Len(t.history) /\ DOMAIN h = DOMAIN t.history
  <2>1. DOMAIN h = 1 .. Len(t.history) /\ Len(t.history) \in Nat
    BY <1>1
  <2>2. h \in [1 .. Len(t.history) -> Entry]
    BY <1>2, <2>1
  <2> HIDE DEF h
  <2> QED BY <2>1, <2>2
<1>4. u = [t EXCEPT !.history = h]
  BY DEF SetUndoState
<1> HIDE DEF h
<1>5. /\ u \in Tracker /\ u.history = h /\ u.offset = t.offset
      /\ u.savepoints = t.savepoints /\ u.canvas = t.canvas /\ SameFork(t, u)
  BY <1>3, <1>4, SetHistoryFields
<1> HIDE DEF u
<1>6. End(u) = End(t)
  BY <1>3, <1>5 DEF End
<1>7. ASSUME NEW i \in Valid(t)
      PROVE  /\ At(u, i).m = At(t, i).m
             /\ At(u, i).undo = IF i \in Ix THEN st ELSE At(t, i).undo
  <2>1. i \in Int /\ i - t.offset + 1 \in DOMAIN t.history
    BY <1>1, HistoryType DEF End
  <2>2. (i - t.offset + 1) + t.offset - 1 = i
    BY <2>1, <1>1
  <2> QED BY <2>1, <2>2, <1>2, <1>5 DEF At
<1> QED BY <1>5, <1>6, <1>7 DEF u


(* LocalFork::handleReceivedMessage: the outcomes it has.                   *)
Outcome(t, m, a) ==
  \/ t.fork = <<>> /\ a[1] = "CONCURRENT" /\ a[2].fork = t.fork
  \/ /\ t.fork # <<>> /\ m = Head(t.fork)
     /\ a[1] = "ALREADYDONE" /\ a[2].fork = Tail(t.fork)
  \/ /\ t.fork # <<>>
     /\ a[1] = "ROLLBACK" /\ a[2].fork = <<>>
  \/ /\ t.fork # <<>> /\ m.by # Head(t.fork).by
     /\ a[1] = "ROLLBACK" /\ a[2].fork = t.fork
  \/ /\ t.fork # <<>> /\ m.by # Head(t.fork).by
     /\ \A i \in DOMAIN t.fork : IsConcurrentWith(m, t.fork[i])
     /\ a[1] = "CONCURRENT" /\ a[2].fork = t.fork

LEMMA HandleReceivedMessageIs ==
  ASSUME NEW t \in Tracker, NEW m \in Msg
  PROVE  LET a == HandleReceivedMessage(t, m) IN
         /\ Outcome(t, m, a)
         /\ a[2] \in Tracker /\ a[2].offset = t.offset /\ a[2].history = t.history
         /\ a[2].savepoints = t.savepoints /\ a[2].canvas = t.canvas
         /\ a[2].forkAt = t.forkAt /\ a[2].pen = t.pen
<1> DEFINE a == HandleReceivedMessage(t, m)
           Frame(u) == /\ u \in Tracker /\ u.offset = t.offset /\ u.history = t.history
                       /\ u.savepoints = t.savepoints /\ u.canvas = t.canvas
                       /\ u.forkAt = t.forkAt /\ u.pen = t.pen
           own == m.by = Head(t.fork).by
           tooLate == MaxBehind > 0 /\ t.behind + 1 >= MaxBehind
           behind == [t EXCEPT !.behind = IF MaxBehind > 0 THEN t.behind + 1 ELSE @]
           rest == [t EXCEPT !.fork = Tail(@), !.behind = IF Len(t.fork) = 1 THEN 0 ELSE @]
<1>1. t.fork \in Seq(Msg) /\ t.behind \in Nat
  BY TrackerFields
<1>2. Frame(t) /\ Frame(ClearFork(t)) /\ ClearFork(t).fork = <<>>
  BY ClearForkFields
<1>3. Frame(behind) /\ behind.fork = t.fork
  <2>1. ASSUME NEW b \in Nat
        PROVE  Frame([t EXCEPT !.behind = b]) /\ [t EXCEPT !.behind = b].fork = t.fork
    BY DEF Tracker
  <2>2. (IF MaxBehind > 0 THEN t.behind + 1 ELSE t.behind) \in Nat
    BY <1>1
  <2> HIDE DEF Frame
  <2> QED BY <2>1, <2>2
<1>4. t.fork # <<>> => Frame(rest) /\ rest.fork = Tail(t.fork)
  <2>1. ASSUME NEW b \in Nat, NEW f \in Seq(Msg)
        PROVE  /\ Frame([t EXCEPT !.fork = f, !.behind = b])
               /\ [t EXCEPT !.fork = f, !.behind = b].fork = f
    BY DEF Tracker
  <2>2. (IF Len(t.fork) = 1 THEN 0 ELSE t.behind) \in Nat
    BY <1>1
  <2>3. t.fork # <<>> => Tail(t.fork) \in Seq(Msg)
    BY <1>1
  <2> HIDE DEF Frame
  <2> QED BY <2>1, <2>2, <2>3
<1>5. a = IF t.fork = <<>> THEN <<"CONCURRENT", t>>
          ELSE CASE own /\ m = Head(t.fork) -> <<"ALREADYDONE", rest>>
                 [] own /\ m # Head(t.fork) -> <<"ROLLBACK", ClearFork(t)>>
                 [] ~own /\ tooLate         -> <<"ROLLBACK", ClearFork(t)>>
                 [] OTHER -> << IF \A i \in DOMAIN t.fork : IsConcurrentWith(m, t.fork[i])
                                THEN "CONCURRENT" ELSE "ROLLBACK", behind >>
  BY DEF HandleReceivedMessage
<1> HIDE DEF a, Frame, behind, rest, tooLate
<1>6. CASE t.fork = <<>>
  <2>1. a = <<"CONCURRENT", t>>
    BY <1>5, <1>6
  <2> QED BY <2>1, <1>6, <1>2 DEF Outcome, Frame, a
<1>7. CASE t.fork # <<>> /\ m = Head(t.fork)
  <2>1. a = <<"ALREADYDONE", rest>>
    BY <1>5, <1>7
  <2> QED BY <2>1, <1>7, <1>4 DEF Outcome, Frame, a
<1>8. CASE t.fork # <<>> /\ m # Head(t.fork) /\ (own \/ tooLate)
  <2>1. a = <<"ROLLBACK", ClearFork(t)>>
    BY <1>5, <1>8
  <2> QED BY <2>1, <1>8, <1>2 DEF Outcome, Frame, a
<1>9. CASE t.fork # <<>> /\ ~own /\ ~tooLate
  <2>1. a = << IF \A i \in DOMAIN t.fork : IsConcurrentWith(m, t.fork[i])
               THEN "CONCURRENT" ELSE "ROLLBACK", behind >>
    BY <1>5, <1>9
  <2> QED BY <2>1, <1>9, <1>3 DEF Outcome, Frame, a
<1> QED BY <1>6, <1>7, <1>8, <1>9


(* History::cleanup: the commands before the limit are forgotten.           *)
LEMMA CleanupIs ==
  ASSUME NEW t \in Tracker, NEW limit \in Int, limit <= End(t)
  PROVE  LET u == Cleanup(t, limit) IN
         /\ u \in Tracker
         /\ u.offset = IF limit <= t.offset THEN t.offset ELSE limit
         /\ u.savepoints = t.savepoints /\ u.canvas = t.canvas /\ SameFork(t, u)
         /\ End(u) = End(t)
         /\ \A i \in Valid(u) : i \in Valid(t) /\ At(u, i) = At(t, i)
         /\ limit <= t.offset => u = t
<1> DEFINE u == Cleanup(t, limit)
<1>1. t.offset \in Nat /\ t.history \in Seq(Entry) /\ End(t) = t.offset + Len(t.history)
  BY TrackerFields DEF End
<1>2. CASE limit <= t.offset
  <2>1. u = t
    BY <1>2 DEF Cleanup
  <2> HIDE DEF u
  <2> QED BY <2>1, <1>2 DEF SameFork, u
<1>3. CASE ~(limit <= t.offset)
  <2> DEFINE h == SubSeq(t.history, limit - t.offset + 1, Len(t.history))
  <2>1. u = [t EXCEPT !.offset = limit, !.history = h]
    BY <1>3 DEF Cleanup
  <2>2. limit \in Nat /\ limit - t.offset + 1 \in 1 .. Len(t.history) + 1
    BY <1>1, <1>3
  <2>a. limit - t.offset + 1 \in Int /\ Len(t.history) \in Int
    BY <1>1
  <2>b. \A i \in (limit - t.offset + 1) .. Len(t.history) : t.history[i] \in Entry
    BY <1>1, <2>2
  <2>c. /\ h \in Seq(Entry)
        /\ Len(h) = IF limit - t.offset + 1 <= Len(t.history)
                    THEN Len(t.history) - (limit - t.offset + 1) + 1 ELSE 0
        /\ \A i \in 1 .. Len(t.history) - (limit - t.offset + 1) + 1 :
              h[i] = t.history[(limit - t.offset + 1) + i - 1]
    BY <2>a, <2>b, SubSeqProperties, SMTT(40)
  <2> HIDE DEF u, h
  <2>3. /\ h \in Seq(Entry) /\ Len(h) = End(t) - limit
        /\ \A k \in 1 .. Len(h) : h[k] = t.history[k + limit - t.offset]
    <3>1. Len(h) = End(t) - limit
      BY <2>2, <2>c, <1>1
    <3>2. ASSUME NEW k \in 1 .. Len(h) PROVE h[k] = t.history[k + limit - t.offset]
      <4>1. /\ k \in 1 .. Len(t.history) - (limit - t.offset + 1) + 1
            /\ (limit - t.offset + 1) + k - 1 = k + limit - t.offset
        BY <3>1, <1>1
      <4> QED BY <4>1, <2>c
    <3> QED BY <2>c, <3>1, <3>2
  <2>d. h \in Seq(Entry) /\ limit \in Nat
    BY <2>2, <2>3
  <2>4. /\ u \in Tracker /\ u.history = h /\ u.offset = limit
        /\ u.savepoints = t.savepoints /\ u.canvas = t.canvas /\ SameFork(t, u)
    BY <2>1, <2>d DEF Tracker, SameFork
  <2>5. End(u) = End(t)
    <3>1. End(u) = limit + Len(h)
      BY <2>4 DEF End
    <3>2. End(t) \in Int
      BY <1>1
    <3> QED BY <3>1, <3>2, <2>3
  <2>6. ASSUME NEW i \in Valid(u) PROVE i \in Valid(t) /\ At(u, i) = At(t, i)
    <3>1. i \in limit .. End(t) - 1
      BY <2>4, <2>5 DEF Valid
    <3>2. i \in Valid(t)
      BY <3>1, <2>2, <1>1, <1>3 DEF Valid
    <3>3. i - limit + 1 \in 1 .. Len(h) /\ (i - limit + 1) + limit - t.offset = i - t.offset + 1
      BY <3>1, <2>2, <2>3, <1>1, SMTT(40)
    <3>4. h[i - limit + 1] = t.history[i - t.offset + 1]
      BY <3>3, <2>3
    <3> QED BY <3>2, <3>4, <2>4 DEF At
  <2> QED BY <2>4, <2>5, <2>6, <1>3 DEF u
<1> QED BY <1>2, <1>3

(***************************************************************************)
(* Savepoints                                                              *)
(***************************************************************************)
LEMMA MakeSavepointIs ==
  ASSUME NEW t, NEW pos, NEW clock
  PROVE  LET u == MakeSavepoint(t, pos, clock) IN
         \/ u = t
         \/ /\ t.fork = <<>>
            /\ u = [t EXCEPT !.savepoints = Append(@, [at |-> pos, canvas |-> t.canvas])]
  BY DEF MakeSavepoint

(* A new savepoint is the last one, and no local fork is in its way.        *)
LEMMA MakeSavepointGood ==
  ASSUME NEW t, Good(t), NEW pos \in Int, NEW clock, -1 <= pos, pos < End(t),
         \A i \in DOMAIN t.savepoints : t.savepoints[i].at <= pos
  PROVE  LET u == MakeSavepoint(t, pos, clock) IN
         /\ Good(u) /\ u.offset = t.offset /\ u.history = t.history
         /\ u.canvas = t.canvas /\ SameFork(t, u)
         /\ \A i \in DOMAIN u.savepoints : u.savepoints[i].at <= pos
         /\ u.savepoints[1] = t.savepoints[1]
<1> DEFINE u == MakeSavepoint(t, pos, clock)
           sp == [at |-> pos, canvas |-> t.canvas]
<1>1. CASE u = t
  BY <1>1 DEF SameFork
<1>2. CASE t.fork = <<>> /\ u = [t EXCEPT !.savepoints = Append(@, sp)]
  <2>1. t \in Tracker /\ t.savepoints \in Seq(Savepoint) /\ t.savepoints # <<>>
    BY TrackerFields DEF Good, Ordered
  <2>2. sp \in Savepoint
    BY <2>1, TrackerFields DEF Savepoint
  <2> DEFINE s == Append(t.savepoints, sp)
  <2>3. /\ s \in Seq(Savepoint) /\ Len(s) = Len(t.savepoints) + 1
        /\ \A i \in 1 .. Len(t.savepoints) : s[i] = t.savepoints[i]
        /\ s[Len(t.savepoints) + 1] = sp
    BY <2>1, <2>2
  <2>4. sp.at = pos
    OBVIOUS
  <2> HIDE DEF s, sp, u
  <2>5. u = [t EXCEPT !.savepoints = s]
    BY <1>2 DEF s
  <2>6. /\ u \in Tracker /\ u.history = t.history /\ u.offset = t.offset
        /\ u.savepoints = s /\ u.canvas = t.canvas /\ SameFork(t, u)
    BY <2>1, <2>3, <2>5, SetSavepointsFields
  <2>7. End(u) = End(t) /\ End(t) \in Nat
    BY <2>1, <2>6, HistoryType DEF End
  <2>8. DOMAIN s = 1 .. Len(t.savepoints) + 1 /\ Len(t.savepoints) \in Nat \ {0}
        /\ DOMAIN t.savepoints = 1 .. Len(t.savepoints)
    BY <2>1, <2>3
  <2>9. \A i \in DOMAIN s : /\ s[i].at \in Int /\ -1 <= s[i].at /\ s[i].at <= pos
                            /\ i # Len(t.savepoints) + 1 =>
                                 i \in DOMAIN t.savepoints /\ s[i] = t.savepoints[i]
    <3> SUFFICES ASSUME NEW i \in DOMAIN s
                 PROVE  /\ s[i].at \in Int /\ -1 <= s[i].at /\ s[i].at <= pos
                        /\ i # Len(t.savepoints) + 1 =>
                             i \in DOMAIN t.savepoints /\ s[i] = t.savepoints[i]
      OBVIOUS
    <3>1. CASE i = Len(t.savepoints) + 1
      BY <3>1, <2>3, <2>4
    <3>2. CASE i \in DOMAIN t.savepoints
      BY <3>2, <2>1, <2>3, <2>8, SavepointType DEF Good, Ordered
    <3> QED BY <3>1, <3>2, <2>8
  <2>10. Ordered(u)
    <3>1. s # <<>>
      BY <2>3, <2>8
    <3>2. ASSUME NEW i \in DOMAIN s, NEW j \in DOMAIN s, i <= j PROVE s[i].at <= s[j].at
      <4>1. CASE j = Len(t.savepoints) + 1
        BY <4>1, <2>9, <2>3, <2>4
      <4>2. CASE j # Len(t.savepoints) + 1
        <5>1. i # Len(t.savepoints) + 1
          BY <4>2, <3>2, <2>8
        <5>2. t.savepoints[i].at <= t.savepoints[j].at
          BY <5>1, <4>2, <3>2, <2>9 DEF Good, Ordered
        <5> QED BY <5>1, <5>2, <4>2, <2>9
      <4> QED BY <4>1, <4>2
    <3>3. \A i \in DOMAIN s : -1 <= s[i].at /\ s[i].at < End(u)
      BY <2>9, <2>7
    <3> QED BY <3>1, <3>2, <3>3, <2>6 DEF Ordered
  <2>11. s[1] = t.savepoints[1]
    BY <2>3, <2>8
  <2>12. Window(u)
    BY <2>6, <2>11 DEF Window, Good
  <2>13. BeforeFork(u)
    BY <2>6, <1>2 DEF BeforeFork, SameFork
  <2> QED BY <2>6, <2>9, <2>10, <2>11, <2>12, <2>13 DEF Good, u
<1> QED BY <1>1, <1>2, MakeSavepointIs

(* The search for a savepoint finds one if there is one.                    *)
LEMMA NewestSavepointIs ==
  ASSUME NEW t \in Tracker, NEW pos
  PROVE  LET sp == NewestSavepoint(t, pos) IN
         /\ sp # 0 => sp \in DOMAIN t.savepoints /\ t.savepoints[sp].at <= pos
         /\ (\E i \in DOMAIN t.savepoints : t.savepoints[i].at <= pos) => sp # 0
<1> DEFINE I == {i \in 1 .. Len(t.savepoints) : t.savepoints[i].at <= pos}
<1>1. NewestSavepoint(t, pos) = IF I # {} THEN Max(I) ELSE 0
  BY DEF NewestSavepoint, SelectLastInSeq
<1>2. t.savepoints \in Seq(Savepoint)
  BY TrackerFields
<1>3. DOMAIN t.savepoints = 1 .. Len(t.savepoints) /\ Len(t.savepoints) \in Nat
  BY <1>2
<1>4. I # {} => Max(I) \in I
  <2>1. I \subseteq 1 .. Len(t.savepoints)
    OBVIOUS
  <2>2. 1 \in Int /\ Len(t.savepoints) \in Int
    BY <1>3
  <2> HIDE DEF I
  <2> QED BY <2>1, <2>2, MaxInSet
<1> HIDE DEF I
<1>5. \A i \in I : i \in DOMAIN t.savepoints /\ t.savepoints[i].at <= pos /\ i # 0
  BY <1>3 DEF I
<1>6. (\E i \in DOMAIN t.savepoints : t.savepoints[i].at <= pos) => I # {}
  BY <1>3 DEF I
<1> QED BY <1>1, <1>4, <1>5, <1>6


(* Old savepoints are released from the front, and one is kept.             *)
LEMMA ReleaseSavepointsIs ==
  ASSUME NEW t \in Tracker, t.savepoints # <<>>, NEW oldest
  PROVE  \E k \in DOMAIN t.savepoints :
           ReleaseSavepoints(t, oldest)
             = [t EXCEPT !.savepoints = SubSeq(@, k, Len(@))]
<1> DEFINE i == IF t.fork = <<>> THEN oldest ELSE Min({oldest, t.forkAt - 1})
           kept == NewestSavepoint(t, i)
           u == ReleaseSavepoints(t, oldest)
<1>1. t.savepoints \in Seq(Savepoint)
  BY TrackerFields
<1>2. CASE oldest = -2 \/ kept = 0
  <2>1. u = t
    BY <1>2 DEF ReleaseSavepoints
  <2>2. 1 \in DOMAIN t.savepoints /\ SubSeq(t.savepoints, 1, Len(t.savepoints)) = t.savepoints
    BY <1>1, SubSeqFull
  <2>3. [t EXCEPT !.savepoints = t.savepoints] = t
    BY DEF Tracker
  <2> QED BY <2>1, <2>2, <2>3
<1>3. CASE ~(oldest = -2 \/ kept = 0)
  <2>1. u = [t EXCEPT !.savepoints = SubSeq(@, kept, Len(@))]
    BY <1>3 DEF ReleaseSavepoints
  <2>2. kept \in DOMAIN t.savepoints
    <3> HIDE DEF i
    <3> QED BY <1>3, NewestSavepointIs
  <2> HIDE DEF u, kept
  <2> QED BY <2>1, <2>2 DEF u
<1> QED BY <1>2, <1>3

(* The savepoints from the k-th on.                                         *)
LEMMA SuffixIs ==
  ASSUME NEW t \in Tracker, NEW k \in DOMAIN t.savepoints
  PROVE  LET s == SubSeq(t.savepoints, k, Len(t.savepoints))
             u == [t EXCEPT !.savepoints = s] IN
         /\ u \in Tracker /\ u.savepoints = s /\ u.offset = t.offset
         /\ u.history = t.history /\ u.canvas = t.canvas /\ SameFork(t, u)
         /\ Len(s) = Len(t.savepoints) - k + 1 /\ DOMAIN s = 1 .. Len(s) /\ s # <<>>
         /\ \A i \in DOMAIN s : i + k - 1 \in DOMAIN t.savepoints /\ s[i] = t.savepoints[i + k - 1]
<1> DEFINE s == SubSeq(t.savepoints, k, Len(t.savepoints))
<1>1. t.savepoints \in Seq(Savepoint)
  BY TrackerFields
<1>2. k \in Int /\ Len(t.savepoints) \in Int /\ k \in 1 .. Len(t.savepoints)
  BY <1>1
<1>3. \A i \in k .. Len(t.savepoints) : t.savepoints[i] \in Savepoint
  BY <1>1, <1>2
<1>4. /\ s \in Seq(Savepoint)
      /\ Len(s) = IF k <= Len(t.savepoints) THEN Len(t.savepoints) - k + 1 ELSE 0
      /\ \A i \in 1 .. Len(t.savepoints) - k + 1 : s[i] = t.savepoints[k + i - 1]
  BY <1>2, <1>3, SubSeqProperties
<1> HIDE DEF s
<1>5. Len(s) = Len(t.savepoints) - k + 1 /\ DOMAIN s = 1 .. Len(s) /\ s # <<>>
  BY <1>2, <1>4
<1>6. ASSUME NEW i \in DOMAIN s
      PROVE  i + k - 1 \in DOMAIN t.savepoints /\ s[i] = t.savepoints[i + k - 1]
  <2>1. i \in 1 .. Len(t.savepoints) - k + 1 /\ k + i - 1 = i + k - 1
    BY <1>2, <1>5
  <2>2. i + k - 1 \in 1 .. Len(t.savepoints)
    BY <2>1, <1>2
  <2> QED BY <2>1, <2>2, <1>1, <1>4, SMTT(40)
<1>7. LET u == [t EXCEPT !.savepoints = s] IN
      /\ u \in Tracker /\ u.history = t.history /\ u.offset = t.offset
      /\ u.savepoints = s /\ u.canvas = t.canvas /\ SameFork(t, u)
  BY <1>4, SetSavepointsFields
<1> QED BY <1>5, <1>6, <1>7 DEF s

LEMMA SuffixGood ==
  ASSUME NEW t \in Tracker, Ordered(t), Unclean(t), BeforeFork(t),
         NEW k \in DOMAIN t.savepoints
  PROVE  LET u == [t EXCEPT !.savepoints = SubSeq(@, k, Len(@))] IN
         Ordered(u) /\ Unclean(u) /\ BeforeFork(u)
<1> DEFINE s == SubSeq(t.savepoints, k, Len(t.savepoints))
           u == [t EXCEPT !.savepoints = s]
<1>1. /\ u.savepoints = s /\ u.offset = t.offset
      /\ u.history = t.history /\ SameFork(t, u)
      /\ Len(s) = Len(t.savepoints) - k + 1 /\ DOMAIN s = 1 .. Len(s) /\ s # <<>>
      /\ \A i \in DOMAIN s : i + k - 1 \in DOMAIN t.savepoints /\ s[i] = t.savepoints[i + k - 1]
  BY SuffixIs
<1>2. t.savepoints \in Seq(Savepoint) /\ t.offset \in Nat
  BY TrackerFields
<1>3. DOMAIN t.savepoints = 1 .. Len(t.savepoints) /\ Len(t.savepoints) \in Nat /\ k \in Nat \ {0}
  BY <1>2
<1> HIDE DEF u, s
<1>4. End(u) = End(t)
  BY <1>1 DEF End
<1>5. Ordered(u)
  <2>1. ASSUME NEW i \in DOMAIN s, NEW j \in DOMAIN s, i <= j PROVE s[i].at <= s[j].at
    <3>1. i + k - 1 \in DOMAIN t.savepoints /\ j + k - 1 \in DOMAIN t.savepoints
      BY <1>1
    <3>2. i + k - 1 <= j + k - 1
      BY <2>1, <1>1, <1>3
    <3> QED BY <3>1, <3>2, <1>1 DEF Ordered
  <2>2. ASSUME NEW i \in DOMAIN s PROVE -1 <= s[i].at /\ s[i].at < End(t)
    BY <1>1 DEF Ordered
  <2> QED BY <1>1, <1>4, <2>1, <2>2 DEF Ordered
<1>6. Unclean(u)
  <2>1. 1 \in DOMAIN s /\ 1 + k - 1 = k
    BY <1>1, <1>3
  <2>2. s[1] = t.savepoints[k]
    BY <2>1, <1>1
  <2>3. 1 \in DOMAIN t.savepoints /\ 1 <= k
    BY <1>3
  <2>4. t.savepoints[1].at <= t.savepoints[k].at
    BY <2>3 DEF Ordered
  <2>5. t.savepoints[1].at \in Int /\ t.savepoints[k].at \in Int
    BY <2>3, SavepointType
  <2> QED BY <1>1, <1>2, <2>2, <2>4, <2>5 DEF Unclean
<1>7. BeforeFork(u)
  BY <1>1 DEF BeforeFork, SameFork
<1> QED BY <1>5, <1>6, <1>7 DEF u, s


(* The history begins at the first savepoint again.                         *)
LEMMA CleanupGood ==
  ASSUME NEW t \in Tracker, Ordered(t), Unclean(t), BeforeFork(t)
  PROVE  LET u == Cleanup(t, t.savepoints[1].at) IN
         /\ Good(u) /\ End(u) = End(t) /\ u.savepoints = t.savepoints
         /\ u.canvas = t.canvas /\ SameFork(t, u)
         /\ \A i \in Valid(u) : i \in Valid(t) /\ At(u, i) = At(t, i)
         /\ Window(t) => u = t
<1> DEFINE limit == t.savepoints[1].at
           u == Cleanup(t, limit)
<1>1. 1 \in DOMAIN t.savepoints
  <2>1. t.savepoints \in Seq(Savepoint) /\ t.savepoints # <<>>
    BY TrackerFields DEF Ordered
  <2> QED BY <2>1
<1>2. limit \in Int /\ -1 <= limit /\ limit <= End(t) /\ t.offset \in Nat /\ End(t) \in Nat
  BY <1>1, SavepointType, TrackerFields, HistoryType DEF Ordered
<1> HIDE DEF limit
<1>3. /\ u \in Tracker
      /\ u.offset = IF limit <= t.offset THEN t.offset ELSE limit
      /\ u.savepoints = t.savepoints /\ u.canvas = t.canvas /\ SameFork(t, u)
      /\ End(u) = End(t)
      /\ \A i \in Valid(u) : i \in Valid(t) /\ At(u, i) = At(t, i)
      /\ limit <= t.offset => u = t
  BY <1>2, CleanupIs
<1> HIDE DEF u
<1>4. Ordered(u) /\ BeforeFork(u)
  BY <1>3 DEF Ordered, BeforeFork, SameFork
<1>5. Window(u)
  BY <1>2, <1>3 DEF Window, Unclean, limit
<1>6. Window(t) => u = t
  BY <1>2, <1>3 DEF Window, limit
<1> QED BY <1>3, <1>4, <1>5, <1>6 DEF Good, u, limit

(* What "mark undone actions as GONE" leaves: a command is undone or gone   *)
(* after it exactly if it was before.                                       *)
LEMMA MarkGoneIs ==
  ASSUME NEW t \in Tracker, NEW m, NEW pos \in Int, pos < End(t)
  PROVE  LET u == MarkGone(t, m, pos) IN
         /\ u \in Tracker /\ u.offset = t.offset
         /\ u.savepoints = t.savepoints /\ u.canvas = t.canvas /\ SameFork(t, u)
         /\ End(u) = End(t)
         /\ \A i \in Valid(t) : /\ At(u, i).m = At(t, i).m
                                /\ At(u, i).undo = "DONE" <=> At(t, i).undo = "DONE"
<1> DEFINE Ix == {i \in t.offset .. pos - 1 :
                     /\ i > GoneBefore(t, m, pos)
                     /\ 1 + UndoPoints(t, i + 1, pos - 1) < UndoDepth
                     /\ At(t, i).m.by = m.by /\ At(t, i).undo = "UNDONE"}
           u == MarkGone(t, m, pos)
<1>1. u = SetUndoState(t, Ix, "GONE")
  BY DEF MarkGone
<1>2. \A i \in Ix : At(t, i).undo = "UNDONE"
  OBVIOUS
<1>3. "GONE" \in UndoState
  BY DEF UndoState
<1> HIDE DEF Ix, u
<1>4. /\ u \in Tracker /\ u.offset = t.offset
      /\ u.savepoints = t.savepoints /\ u.canvas = t.canvas /\ SameFork(t, u)
      /\ End(u) = End(t)
      /\ \A i \in Valid(t) : /\ At(u, i).m = At(t, i).m
                             /\ At(u, i).undo = IF i \in Ix THEN "GONE" ELSE At(t, i).undo
  BY <1>1, <1>3, SetUndoStateIs
<1>5. ASSUME NEW i \in Valid(t) PROVE At(u, i).undo = "DONE" <=> At(t, i).undo = "DONE"
  <2>1. CASE i \in Ix
    BY <2>1, <1>2, <1>4
  <2>2. CASE i \notin Ix
    BY <2>2, <1>4
  <2> QED BY <2>1, <2>2
<1> QED BY <1>4, <1>5 DEF u

(* A tracker that has forgotten old commands and savepoints, no more.       *)
Trimmed(t, u) ==
  /\ u.canvas = t.canvas /\ SameFork(t, u) /\ End(u) = End(t)
  /\ \A i \in Valid(u) : /\ i \in Valid(t)
                         /\ At(u, i).m = At(t, i).m
                         /\ At(u, i).undo = "DONE" <=> At(t, i).undo = "DONE"
  /\ \E k \in DOMAIN t.savepoints : u.savepoints = SubSeq(t.savepoints, k, Len(t.savepoints))

LEMMA HandleUndoPointIs ==
  ASSUME NEW t, Good(t), NEW m, NEW replay \in BOOLEAN, NEW pos \in Int, pos < End(t),
         NEW clock
  PROVE  \E u : /\ Good(u) /\ Trimmed(t, u) /\ (replay => u = t)
                /\ HandleUndoPoint(t, m, replay, pos, clock) = MakeSavepoint(u, pos, clock)
<1>1. t \in Tracker /\ Ordered(t) /\ Window(t) /\ BeforeFork(t) /\ t.savepoints # <<>>
  BY DEF Good, Ordered
<1>2. t.savepoints \in Seq(Savepoint) /\ t.offset \in Nat
  BY <1>1, TrackerFields
<1>3. Unclean(t)
  <2>1. 1 \in DOMAIN t.savepoints
    BY <1>1, <1>2
  <2>2. t.savepoints[1].at \in Int
    BY <1>1, <2>1, SavepointType
  <2> QED BY <1>1, <1>2, <2>2 DEF Window, Unclean
<1>4. CASE replay
  <2>1. HandleUndoPoint(t, m, replay, pos, clock)
          = MakeSavepoint(Cleanup(t, t.savepoints[1].at), pos, clock)
    BY <1>4 DEF HandleUndoPoint
  <2>2. Cleanup(t, t.savepoints[1].at) = t
    BY <1>1, <1>3, CleanupGood
  <2>3. Trimmed(t, t)
    <3>1. 1 \in DOMAIN t.savepoints /\ SubSeq(t.savepoints, 1, Len(t.savepoints)) = t.savepoints
      BY <1>1, <1>2, SubSeqFull
    <3> QED BY <3>1 DEF Trimmed, SameFork
  <2> QED BY <2>1, <2>2, <2>3
<1>5. CASE ~replay
  <2> DEFINE g == MarkGone(t, m, pos)
             old == OldestReachable(t, m, pos)
             r == ReleaseSavepoints(g, old)
             u == Cleanup(r, r.savepoints[1].at)
  <2>1. HandleUndoPoint(t, m, replay, pos, clock) = MakeSavepoint(u, pos, clock)
    BY <1>5 DEF HandleUndoPoint
  <2> HIDE DEF old
  <2>2. /\ g \in Tracker /\ g.offset = t.offset
        /\ g.savepoints = t.savepoints /\ g.canvas = t.canvas /\ SameFork(t, g)
        /\ End(g) = End(t)
        /\ \A i \in Valid(t) : /\ At(g, i).m = At(t, i).m
                               /\ At(g, i).undo = "DONE" <=> At(t, i).undo = "DONE"
    BY <1>1, MarkGoneIs
  <2> HIDE DEF g
  <2>3. Ordered(g) /\ Unclean(g) /\ BeforeFork(g)
    BY <2>2, <1>1, <1>3 DEF Ordered, Unclean, BeforeFork, SameFork
  <2>4. PICK k \in DOMAIN g.savepoints : r = [g EXCEPT !.savepoints = SubSeq(@, k, Len(@))]
    BY <2>2, <2>3, ReleaseSavepointsIs DEF Ordered
  <2> HIDE DEF r
  <2>5. /\ r \in Tracker /\ r.savepoints = SubSeq(g.savepoints, k, Len(g.savepoints))
        /\ r.offset = g.offset /\ r.history = g.history
        /\ r.canvas = g.canvas /\ SameFork(g, r)
    BY <2>2, <2>4, SuffixIs
  <2>6. Ordered(r) /\ Unclean(r) /\ BeforeFork(r)
    BY <2>2, <2>3, <2>4, SuffixGood
  <2>7. /\ Good(u) /\ End(u) = End(r) /\ u.savepoints = r.savepoints
        /\ u.canvas = r.canvas /\ SameFork(r, u)
        /\ \A i \in Valid(u) : i \in Valid(r) /\ At(u, i) = At(r, i)
    BY <2>5, <2>6, CleanupGood
  <2> HIDE DEF u
  <2>8. End(r) = End(g) /\ Valid(r) = Valid(t) /\ \A i : At(r, i) = At(g, i)
    BY <2>2, <2>5 DEF End, Valid, At
  <2>9. Trimmed(t, u)
    <3>1. u.canvas = t.canvas /\ SameFork(t, u) /\ End(u) = End(t)
      BY <2>2, <2>5, <2>7, <2>8 DEF SameFork
    <3>2. \A i \in Valid(u) : /\ i \in Valid(t)
                              /\ At(u, i).m = At(t, i).m
                              /\ At(u, i).undo = "DONE" <=> At(t, i).undo = "DONE"
      BY <2>2, <2>7, <2>8
    <3>3. k \in DOMAIN t.savepoints
          /\ u.savepoints = SubSeq(t.savepoints, k, Len(t.savepoints))
      BY <2>2, <2>5, <2>7
    <3> QED BY <3>1, <3>2, <3>3 DEF Trimmed
  <2> QED BY <1>5, <2>1, <2>7, <2>9
<1> QED BY <1>4, <1>5


(* All savepoints are at or before a position.                              *)
SavedBy(t, pos) == \A i \in DOMAIN t.savepoints : t.savepoints[i].at <= pos

LEMMA TrimmedSavedBy ==
  ASSUME NEW t \in Tracker, NEW u, Trimmed(t, u), NEW pos, SavedBy(t, pos)
  PROVE  SavedBy(u, pos)
<1>1. PICK k \in DOMAIN t.savepoints : u.savepoints = SubSeq(t.savepoints, k, Len(t.savepoints))
  BY DEF Trimmed
<1>2. \A i \in DOMAIN u.savepoints : /\ i + k - 1 \in DOMAIN t.savepoints
                                     /\ u.savepoints[i] = t.savepoints[i + k - 1]
  BY <1>1, SuffixIs
<1> QED BY <1>2 DEF SavedBy

(* StateTracker::handleCommand keeps a tracker in order; a replay leaves    *)
(* the history alone.                                                       *)
LEMMA HandleCommandGood ==
  ASSUME NEW t, Good(t), NEW m \in Msg, NEW replay \in BOOLEAN,
         NEW pos \in Int, -1 <= pos, pos < End(t), SavedBy(t, pos), NEW clock
  PROVE  LET u == HandleCommand(t, m, replay, pos, clock) IN
         /\ Good(u) /\ End(u) = End(t) /\ SameFork(t, u) /\ SavedBy(u, pos)
         /\ replay => u.offset = t.offset /\ u.history = t.history
<1> DEFINE u == HandleCommand(t, m, replay, pos, clock)
<1>1. t \in Tracker
  BY DEF Good
<1>2. CASE m.t = "UndoPoint"
  <2>1. u = HandleUndoPoint(t, m, replay, pos, clock)
    BY <1>2 DEF HandleCommand
  <2>2. PICK w : /\ Good(w) /\ Trimmed(t, w) /\ (replay => w = t)
                 /\ HandleUndoPoint(t, m, replay, pos, clock) = MakeSavepoint(w, pos, clock)
    BY HandleUndoPointIs
  <2>3. SavedBy(w, pos) /\ End(w) = End(t) /\ SameFork(t, w)
    BY <1>1, <2>2, TrimmedSavedBy DEF Trimmed
  <2> HIDE DEF u
  <2>4. /\ Good(u) /\ u.offset = w.offset /\ u.history = w.history
        /\ SameFork(w, u) /\ SavedBy(u, pos)
    <3>1. \A i \in DOMAIN w.savepoints : w.savepoints[i].at <= pos
      BY <2>3 DEF SavedBy
    <3>2. pos < End(w)
      BY <2>3
    <3> QED BY <2>1, <2>2, <3>1, <3>2, MakeSavepointGood DEF SavedBy
  <2> QED BY <2>2, <2>3, <2>4 DEF SameFork, End, u
<1>3. ASSUME m.t # "UndoPoint"
      PROVE  LET w == [t EXCEPT !.canvas = Paint(t.canvas, m)] IN
             /\ Good(w) /\ End(w) = End(t) /\ SameFork(t, w) /\ SavedBy(w, pos)
             /\ w.offset = t.offset /\ w.history = t.history
  <2> DEFINE w == [t EXCEPT !.canvas = Paint(t.canvas, m)]
  <2>1. Paint(t.canvas, m) \in Canvas
    BY <1>1, TrackerFields, PaintType
  <2>2. /\ w \in Tracker /\ w.history = t.history /\ w.offset = t.offset
        /\ w.savepoints = t.savepoints /\ SameFork(t, w)
    BY <1>1, <2>1, SetCanvasFields
  <2> HIDE DEF w
  <2>3. End(w) = End(t)
    BY <2>2 DEF End
  <2>4. Good(w) /\ SavedBy(w, pos)
    BY <2>2, <2>3 DEF Good, Ordered, Window, BeforeFork, SameFork, SavedBy
  <2> QED BY <2>2, <2>3, <2>4 DEF w
<1>4. CASE m.t = "Draw"
  <2>1. u = [t EXCEPT !.canvas = Paint(t.canvas, m)]
    BY <1>4 DEF HandleCommand
  <2> QED BY <1>3, <1>4, <2>1
<1>5. CASE m.t = "Resize"
  <2> DEFINE w == [t EXCEPT !.canvas = Paint(t.canvas, m)]
  <2>1. u = MakeSavepoint(w, pos, clock)
    BY <1>5 DEF HandleCommand
  <2>2. /\ Good(w) /\ End(w) = End(t) /\ SameFork(t, w) /\ SavedBy(w, pos)
        /\ w.offset = t.offset /\ w.history = t.history
    BY <1>3, <1>5
  <2> HIDE DEF w, u
  <2>3. /\ Good(u) /\ u.offset = w.offset /\ u.history = w.history
        /\ SameFork(w, u) /\ SavedBy(u, pos)
    <3>1. \A i \in DOMAIN w.savepoints : w.savepoints[i].at <= pos
      BY <2>2 DEF SavedBy
    <3>2. pos < End(w)
      BY <2>2
    <3> QED BY <2>1, <2>2, <3>1, <3>2, MakeSavepointGood DEF SavedBy
  <2> QED BY <2>2, <2>3 DEF SameFork, End, u
<1>6. CASE m.t \notin {"UndoPoint", "Draw", "Resize"}
  <2>1. u = t
    BY <1>6 DEF HandleCommand
  <2> QED BY <2>1 DEF SameFork
<1> QED BY <1>2, <1>4, <1>5, <1>6

(***************************************************************************)
(* Revert and replay                                                       *)
(***************************************************************************)
LEMMA RevertIs ==
  ASSUME NEW t, Good(t), NEW sp \in DOMAIN t.savepoints
  PROVE  LET u == Revert(t, sp) IN
         /\ Good(u) /\ u.offset = t.offset /\ u.history = t.history /\ SameFork(t, u)
         /\ u.canvas = t.savepoints[sp].canvas
         /\ DOMAIN u.savepoints = 1 .. sp /\ Len(u.savepoints) = sp
         /\ \A i \in 1 .. sp : i \in DOMAIN t.savepoints /\ u.savepoints[i] = t.savepoints[i]
         /\ SavedBy(u, t.savepoints[sp].at)
<1> DEFINE s == SubSeq(t.savepoints, 1, sp)
           v == t.savepoints[sp].canvas
           u == Revert(t, sp)
<1>1. t \in Tracker /\ t.savepoints \in Seq(Savepoint)
  BY TrackerFields DEF Good
<1>2. sp \in 1 .. Len(t.savepoints) /\ Len(t.savepoints) \in Nat /\ 1 \in Int /\ sp \in Int
      /\ DOMAIN t.savepoints = 1 .. Len(t.savepoints)
  BY <1>1
<1>3. \A i \in 1 .. sp : t.savepoints[i] \in Savepoint
  BY <1>1, <1>2
<1>4. /\ s \in Seq(Savepoint)
      /\ Len(s) = IF 1 <= sp THEN sp - 1 + 1 ELSE 0
      /\ \A i \in 1 .. sp - 1 + 1 : s[i] = t.savepoints[1 + i - 1]
  BY <1>2, <1>3, SubSeqProperties
<1>5. v \in Canvas
  BY <1>1, SavepointType
<1>6. u = [t EXCEPT !.canvas = v, !.savepoints = s]
  BY DEF Revert
<1> HIDE DEF s, v, u
<1>7. Len(s) = sp /\ DOMAIN s = 1 .. sp
  BY <1>2, <1>4
<1>8. ASSUME NEW i \in 1 .. sp PROVE i \in DOMAIN t.savepoints /\ s[i] = t.savepoints[i]
  <2>1. i \in 1 .. sp - 1 + 1 /\ 1 + i - 1 = i
    BY <1>2
  <2> QED BY <2>1, <1>2, <1>4
<1>9. /\ u \in Tracker /\ u.history = t.history /\ u.offset = t.offset
      /\ u.savepoints = s /\ u.canvas = v /\ SameFork(t, u)
  BY <1>1, <1>4, <1>5, <1>6 DEF Tracker, SameFork
<1>10. End(u) = End(t)
  BY <1>9 DEF End
<1>11. \A i, j \in 1 .. sp : i <= j => s[i].at <= s[j].at
  BY <1>8 DEF Good, Ordered
<1>12. Ordered(u)
  <2>1. s # <<>>
    BY <1>4, <1>7, <1>2
  <2>2. \A i \in 1 .. sp : -1 <= s[i].at /\ s[i].at < End(u)
    BY <1>8, <1>10 DEF Good, Ordered
  <2> QED BY <2>1, <2>2, <1>7, <1>9, <1>11 DEF Ordered
<1>13. s[1] = t.savepoints[1]
  BY <1>8, <1>2
<1>14. Window(u) /\ BeforeFork(u)
  BY <1>7, <1>8, <1>9, <1>13 DEF Good, Window, BeforeFork, SameFork
<1>15. SavedBy(u, t.savepoints[sp].at)
  <2>1. sp \in 1 .. sp /\ s[sp] = t.savepoints[sp] /\ \A i \in 1 .. sp : i <= sp
    BY <1>2, <1>8
  <2> QED BY <2>1, <1>7, <1>9, <1>11 DEF SavedBy
<1> QED BY <1>7, <1>8, <1>9, <1>12, <1>14, <1>15 DEF Good, u, v

LEMMA ReplayCommandGood ==
  ASSUME NEW t, Good(t), NEW i \in Valid(t), SavedBy(t, i), NEW clock
  PROVE  LET u == ReplayCommand(t, i, clock) IN
         /\ Good(u) /\ u.offset = t.offset /\ u.history = t.history
         /\ SameFork(t, u) /\ SavedBy(u, i)
<1>1. t \in Tracker
  BY DEF Good
<1>2. At(t, i).m \in Msg /\ i \in Int /\ -1 <= i /\ i < End(t)
  BY <1>1, AtType, HistoryType, TrackerFields
<1>3. CASE At(t, i).undo = "DONE" /\ ~IsUndo(At(t, i).m)
  <2>1. ReplayCommand(t, i, clock) = HandleCommand(t, At(t, i).m, TRUE, i, clock)
    BY <1>3 DEF ReplayCommand
  <2>2. PICK yes \in BOOLEAN : yes = TRUE
    OBVIOUS
  <2>3. ReplayCommand(t, i, clock) = HandleCommand(t, At(t, i).m, yes, i, clock)
    BY <2>1, <2>2
  <2>4. LET u == HandleCommand(t, At(t, i).m, yes, i, clock) IN
        /\ Good(u) /\ End(u) = End(t) /\ SameFork(t, u) /\ SavedBy(u, i)
        /\ yes => u.offset = t.offset /\ u.history = t.history
    BY <1>2, HandleCommandGood
  <2> QED BY <2>2, <2>3, <2>4
<1>4. CASE ~(At(t, i).undo = "DONE" /\ ~IsUndo(At(t, i).m))
  BY <1>4 DEF ReplayCommand, SameFork
<1> QED BY <1>3, <1>4

(* The tracker after each of the commands that are replayed.                *)
IsReplay(f, t, after, to, clock) ==
  f = [i \in after .. to |-> IF i = after THEN t ELSE ReplayCommand(f[i - 1], i, clock)]

LEMMA ReplayExists ==
  ASSUME NEW t, NEW after \in Int, NEW to \in Int, after <= to, NEW clock
  PROVE  \E f : IsReplay(f, t, after, to, clock)
<1> DEFINE Step(f, i) == IF i = after THEN t ELSE ReplayCommand(f[i - 1], i, clock)
           Upto(f, n) == f = [i \in after .. after + n |-> Step(f, i)]
           T == {n \in Nat : \E f : Upto(f, n)}
<1>1. 0 \in T
  <2>1. Upto([i \in after .. after |-> t], 0)
    OBVIOUS
  <2> QED BY <2>1
<1>2. ASSUME NEW n \in T PROVE n + 1 \in T
  <2>1. n \in Nat
    OBVIOUS
  <2>2. PICK f : Upto(f, n)
    OBVIOUS
  <2> DEFINE k == after + n + 1
             g == [i \in after .. k |-> IF i = k THEN ReplayCommand(f[k - 1], k, clock) ELSE f[i]]
  <2>3. \A i \in after .. k : g[i] = Step(g, i)
    <3>1. \A i \in after .. after + n : g[i] = f[i]
      BY <2>1
    <3>2. \A i \in after .. after + n : f[i] = Step(f, i)
      BY <2>1, <2>2
    <3>3. g[k] = ReplayCommand(f[k - 1], k, clock) /\ g[k - 1] = f[k - 1] /\ k # after
      BY <2>1
    <3> HIDE DEF g, Upto
    <3>4. ASSUME NEW i \in after + 1 .. after + n PROVE g[i] = Step(g, i)
      <4>1. i \in after .. after + n /\ i - 1 \in after .. after + n /\ i # after
        BY <2>1
      <4> QED BY <4>1, <3>1, <3>2
    <3>5. g[after] = t
      BY <2>1, <3>1, <3>2
    <3>6. ASSUME NEW i \in after .. k PROVE i = after \/ i \in after + 1 .. after + n \/ i = k
      BY <2>1
    <3> HIDE DEF k
    <3>7. g[k] = Step(g, k)
      BY <3>3
    <3>8. g[after] = Step(g, after)
      BY <3>5
    <3> HIDE DEF Step
    <3> QED BY <3>4, <3>6, <3>7, <3>8
  <2>4. g = [i \in after .. after + (n + 1) |-> Step(g, i)]
    <3>1. after + (n + 1) = k
      BY <2>1
    <3>2. g = [i \in after .. k |-> g[i]]
      OBVIOUS
    <3> HIDE DEF Step, g, k
    <3> QED BY <3>1, <3>2, <2>3
  <2>5. Upto(g, n + 1)
    BY <2>4
  <2> HIDE DEF Upto, g
  <2> QED BY <2>1, <2>5
<1>3. T = Nat
  <2>1. T \in SUBSET Nat
    OBVIOUS
  <2> HIDE DEF T
  <2> QED BY <1>1, <1>2, <2>1, Induction
<1>4. to - after \in T /\ after + (to - after) = to
  <2>1. to - after \in Nat /\ after + (to - after) = to
    OBVIOUS
  <2> HIDE DEF T
  <2> QED BY <1>3, <2>1
<1>5. PICK f : Upto(f, to - after)
  BY <1>4
<1>6. IsReplay(f, t, after, to, clock)
  BY <1>4, <1>5 DEF IsReplay
<1> QED BY <1>6

LEMMA ReplayIs ==
  ASSUME NEW t, NEW after \in Int, NEW to \in Int, after <= to, NEW clock
  PROVE  \E f : /\ f[after] = t
                /\ \A i \in after + 1 .. to : f[i] = ReplayCommand(f[i - 1], i, clock)
                /\ Replay(t, after, to, clock) = f[to]
<1>1. \E f : IsReplay(f, t, after, to, clock)
  BY ReplayExists
<1>2. PICK f : IsReplay(f, t, after, to, clock) /\ Replay(t, after, to, clock) = f[to]
  BY <1>1 DEF Replay, IsReplay
<1>3. \A i \in after .. to : f[i] = IF i = after THEN t ELSE ReplayCommand(f[i - 1], i, clock)
  BY <1>2 DEF IsReplay
<1>4. f[after] = t /\ \A i \in after + 1 .. to : f[i] = ReplayCommand(f[i - 1], i, clock)
  BY <1>3
<1> QED BY <1>2, <1>4


LEMMA ReplayGood ==
  ASSUME NEW t, Good(t), NEW after \in Int, NEW to \in Int, after <= to,
         t.offset <= after + 1, to < End(t), SavedBy(t, after), NEW clock
  PROVE  LET u == Replay(t, after, to, clock) IN
         /\ Good(u) /\ u.offset = t.offset /\ u.history = t.history
         /\ SameFork(t, u) /\ SavedBy(u, to)
<1> DEFINE P(u, i) == /\ Good(u) /\ u.offset = t.offset /\ u.history = t.history
                      /\ SameFork(t, u) /\ SavedBy(u, i)
<1>1. PICK f : /\ f[after] = t
               /\ \A i \in after + 1 .. to : f[i] = ReplayCommand(f[i - 1], i, clock)
               /\ Replay(t, after, to, clock) = f[to]
  BY ReplayIs
<1> DEFINE T == {n \in Nat : after + n <= to => P(f[after + n], after + n)}
<1>2. 0 \in T
  <2>1. P(t, after)
    BY DEF SameFork
  <2>2. after + 0 = after
    OBVIOUS
  <2> HIDE DEF P
  <2> QED BY <2>1, <2>2, <1>1
<1>3. ASSUME NEW n \in T PROVE n + 1 \in T
  <2>1. n \in Nat
    OBVIOUS
  <2> DEFINE i == after + (n + 1)
             s == f[i - 1]
  <2>2. SUFFICES ASSUME i <= to PROVE P(f[i], i)
    BY <2>1
  <2>3. i \in Int /\ i - 1 = after + n /\ i \in after + 1 .. to
    BY <2>1, <2>2
  <2>4. P(s, i - 1)
    BY <2>1, <2>2, <2>3
  <2>5. f[i] = ReplayCommand(s, i, clock)
    BY <2>3, <1>1
  <2> HIDE DEF i, s, T
  <2>6. t \in Tracker /\ s \in Tracker
    BY <2>4 DEF Good
  <2>7. i \in Valid(s)
    <3>1. Valid(s) = t.offset .. End(t) - 1
      BY <2>4 DEF Valid, End
    <3>2. t.offset \in Nat /\ End(t) \in Nat
      BY <2>6, TrackerFields, HistoryType
    <3> QED BY <3>1, <3>2, <2>3
  <2>8. SavedBy(s, i)
    <3>1. ASSUME NEW j \in DOMAIN s.savepoints PROVE s.savepoints[j].at <= i
      <4>1. s.savepoints[j].at \in Int
        BY <2>6, SavepointType
      <4>2. s.savepoints[j].at <= i - 1
        BY <2>4 DEF SavedBy
      <4> QED BY <4>1, <4>2, <2>3
    <3> QED BY <3>1 DEF SavedBy
  <2>9. LET u == ReplayCommand(s, i, clock) IN
        /\ Good(u) /\ u.offset = s.offset /\ u.history = s.history
        /\ SameFork(s, u) /\ SavedBy(u, i)
    BY <2>4, <2>7, <2>8, ReplayCommandGood
  <2> QED BY <2>4, <2>5, <2>9 DEF SameFork
<1>4. T = Nat
  <2>1. T \in SUBSET Nat
    OBVIOUS
  <2> HIDE DEF T
  <2> QED BY <1>2, <1>3, <2>1, Induction
<1>5. to - after \in T
  <2>1. to - after \in Nat
    OBVIOUS
  <2> HIDE DEF T
  <2> QED BY <1>4, <2>1
<1>6. P(f[to], to)
  <2>1. after + (to - after) = to /\ to <= to
    OBVIOUS
  <2> HIDE DEF P
  <2> QED BY <2>1, <1>5
<1> QED BY <1>1, <1>6

LEMMA ReplayForkGood ==
  ASSUME NEW t, Good(t)
  PROVE  LET u == ReplayFork(t) IN
         /\ Good(u) /\ u.offset = t.offset /\ u.history = t.history
         /\ u.savepoints = t.savepoints /\ u.fork = t.fork /\ u.pen = t.pen
         /\ u.canvas = IF t.fork = <<>> THEN t.canvas ELSE PaintAll(t.canvas, t.fork)
<1> DEFINE u == ReplayFork(t)
<1>1. t \in Tracker
  BY DEF Good
<1>2. CASE t.fork = <<>>
  BY <1>2 DEF ReplayFork
<1>3. CASE t.fork # <<>>
  <2> DEFINE v == PaintAll(t.canvas, t.fork)
             p == End(t) - 1
  <2>1. u = [t EXCEPT !.forkAt = p, !.canvas = v]
    BY <1>3 DEF ReplayFork
  <2>2. v \in Canvas
    BY <1>1, TrackerFields, PaintForkType
  <2>3. p \in Int
    BY <1>1, HistoryType
  <2> HIDE DEF u, v, p
  <2>4. /\ u \in Tracker /\ u.history = t.history /\ u.offset = t.offset
        /\ u.savepoints = t.savepoints /\ u.canvas = v
        /\ u.fork = t.fork /\ u.forkAt = p /\ u.pen = t.pen
    BY <1>1, <2>1, <2>2, <2>3 DEF Tracker
  <2>5. Ordered(u) /\ Window(u)
    BY <2>4 DEF Good, Ordered, Window, End
  <2>6. BeforeFork(u)
    <3>1. ASSUME NEW i \in DOMAIN t.savepoints PROVE t.savepoints[i].at <= p
      BY <1>1, SavepointType, HistoryType DEF Good, Ordered, p
    <3> QED BY <3>1, <2>4 DEF BeforeFork
  <2> QED BY <1>3, <2>4, <2>5, <2>6 DEF Good, u, v
<1> QED BY <1>2, <1>3

LEMMA RevertAndReplayGood ==
  ASSUME NEW t, Good(t), NEW sp \in DOMAIN t.savepoints, NEW clock
  PROVE  LET u == Replay(Revert(t, sp), t.savepoints[sp].at, End(t) - 1, clock) IN
         Good(u) /\ u.offset = t.offset /\ u.history = t.history /\ SameFork(t, u)
<1> DEFINE r == Revert(t, sp)
           after == t.savepoints[sp].at
           to == End(t) - 1
<1>1. t \in Tracker
  BY DEF Good
<1>2. /\ Good(r) /\ r.offset = t.offset /\ r.history = t.history /\ SameFork(t, r)
      /\ SavedBy(r, after)
  BY RevertIs
<1>3. after \in Int /\ to \in Int /\ after <= to /\ End(t) \in Nat
  BY <1>1, SavepointType, HistoryType DEF Good, Ordered
<1>4. r.offset <= after + 1
  <2>1. t.savepoints \in Seq(Savepoint)
    BY <1>1, TrackerFields
  <2>2. 1 \in DOMAIN t.savepoints /\ 1 <= sp
    BY <2>1
  <2>3. t.savepoints[1].at \in Int /\ -1 <= after /\ t.savepoints[1].at <= after
    BY <1>1, <2>2, SavepointType DEF Good, Ordered
  <2> HIDE DEF after
  <2> QED BY <1>2, <1>3, <2>3 DEF Good, Window
<1>5. to < End(r)
  BY <1>2, <1>3 DEF End
<1> HIDE DEF r, after, to
<1>6. LET u == Replay(r, after, to, clock) IN
      /\ Good(u) /\ u.offset = r.offset /\ u.history = r.history /\ SameFork(r, u)
  BY <1>2, <1>3, <1>4, <1>5, ReplayGood
<1> QED BY <1>2, <1>6 DEF SameFork, r, after, to

LEMMA RevertSavepointAndReplayGood ==
  ASSUME NEW t, Good(t), NEW sp \in DOMAIN t.savepoints, NEW clock
  PROVE  LET u == RevertSavepointAndReplay(t, sp, clock) IN
         Good(u) /\ End(u) = End(t) /\ u.fork = t.fork /\ u.pen = t.pen
<1> DEFINE w == Replay(Revert(t, sp), t.savepoints[sp].at, End(t) - 1, clock)
<1>1. Good(w) /\ w.offset = t.offset /\ w.history = t.history /\ SameFork(t, w)
  BY RevertAndReplayGood
<1>2. RevertSavepointAndReplay(t, sp, clock) = ReplayFork(w)
  BY DEF RevertSavepointAndReplay
<1> HIDE DEF w
<1>3. LET u == ReplayFork(w) IN
      /\ Good(u) /\ u.offset = w.offset /\ u.history = w.history
      /\ u.fork = w.fork /\ u.pen = w.pen
  BY <1>1, ReplayForkGood
<1> QED BY <1>1, <1>2, <1>3 DEF SameFork, End


(***************************************************************************)
(* Messages                                                                *)
(***************************************************************************)
LEMMA SetUndoStateGood ==
  ASSUME NEW t, Good(t), NEW Ix, NEW st \in UndoState
  PROVE  LET u == SetUndoState(t, Ix, st) IN
         /\ Good(u) /\ End(u) = End(t) /\ u.savepoints = t.savepoints
         /\ u.canvas = t.canvas /\ SameFork(t, u)
<1> DEFINE u == SetUndoState(t, Ix, st)
<1>1. /\ u \in Tracker /\ u.offset = t.offset
      /\ u.savepoints = t.savepoints /\ u.canvas = t.canvas /\ SameFork(t, u)
      /\ End(u) = End(t)
  BY SetUndoStateIs DEF Good
<1> HIDE DEF u
<1>2. Good(u)
  BY <1>1 DEF Good, Ordered, Window, BeforeFork, SameFork
<1> QED BY <1>1, <1>2 DEF u

(* StateTracker::handleUndo, in the terms of its steps: the Undo itself is  *)
(* marked, and nothing happens; or commands of the user are marked and the  *)
(* history is replayed from a savepoint before them.                        *)
LEMMA HandleUndoIs ==
  ASSUME NEW t \in Tracker, NEW m, NEW clock
  PROVE  LET gone == SetUndoState(t, {End(t) - 1}, "GONE")
             u == HandleUndo(t, m, clock) IN
         \/ u = gone
         \/ \E pos \in UndoStart(gone, m.on), sp \in DOMAIN t.savepoints :
              /\ t.savepoints[sp].at <= pos
              /\ u = RevertSavepointAndReplay(
                       SetUndoState(gone, ToUndo(gone, m.on, pos), "UNDONE"), sp, clock)
         \/ \E pos \in RedoStart(gone, m.on), sp \in DOMAIN t.savepoints :
              /\ t.savepoints[sp].at <= pos
              /\ u = RevertSavepointAndReplay(
                       SetUndoState(gone, ToRedo(gone, m.on, pos), "DONE"), sp, clock)
<1> DEFINE gone == SetUndoState(t, {End(t) - 1}, "GONE")
           u == HandleUndo(t, m, clock)
           start == IF m.t = "Redo" THEN RedoStart(gone, m.on) ELSE UndoStart(gone, m.on)
           pos == CHOOSE i \in start : TRUE
           sp == UndoSavepoint(t, pos)
           marked == IF m.t = "Redo" THEN SetUndoState(gone, ToRedo(gone, m.on, pos), "DONE")
                     ELSE SetUndoState(gone, ToUndo(gone, m.on, pos), "UNDONE")
<1>1. u = IF start = {} \/ sp = 0 THEN gone ELSE RevertSavepointAndReplay(marked, sp, clock)
  BY DEF HandleUndo
<1> HIDE DEF u, gone
<1>2. CASE start = {} \/ sp = 0
  BY <1>1, <1>2 DEF u, gone
<1>3. CASE ~(start = {} \/ sp = 0)
  <2>1. pos \in start
    BY <1>3
  <2> HIDE DEF pos
  <2>2. sp \in DOMAIN t.savepoints /\ t.savepoints[sp].at <= pos
    BY <1>3, NewestSavepointIs DEF UndoSavepoint
  <2> HIDE DEF sp
  <2>3. CASE m.t = "Redo"
    BY <1>1, <1>3, <2>1, <2>2, <2>3 DEF u, gone
  <2>4. CASE m.t # "Redo"
    BY <1>1, <1>3, <2>1, <2>2, <2>4 DEF u, gone
  <2> QED BY <2>3, <2>4
<1> QED BY <1>2, <1>3

LEMMA HandleUndoGood ==
  ASSUME NEW t, Good(t), NEW m, NEW clock
  PROVE  LET u == HandleUndo(t, m, clock) IN
         Good(u) /\ End(u) = End(t) /\ u.fork = t.fork /\ u.pen = t.pen
<1> DEFINE gone == SetUndoState(t, {End(t) - 1}, "GONE")
           u == HandleUndo(t, m, clock)
<1>1. "GONE" \in UndoState /\ "DONE" \in UndoState /\ "UNDONE" \in UndoState
  BY DEF UndoState
<1>2. Good(gone) /\ End(gone) = End(t) /\ gone.savepoints = t.savepoints /\ SameFork(t, gone)
  BY <1>1, SetUndoStateGood
<1> HIDE DEF gone, u
<1>3. ASSUME NEW Ix, NEW st \in UndoState, NEW sp \in DOMAIN t.savepoints,
             u = RevertSavepointAndReplay(SetUndoState(gone, Ix, st), sp, clock)
      PROVE  Good(u) /\ End(u) = End(t) /\ u.fork = t.fork /\ u.pen = t.pen
  <2> DEFINE w == SetUndoState(gone, Ix, st)
  <2>1. Good(w) /\ End(w) = End(gone) /\ w.savepoints = gone.savepoints /\ SameFork(gone, w)
    BY <1>2, SetUndoStateGood
  <2> HIDE DEF w
  <2>2. u = RevertSavepointAndReplay(w, sp, clock) /\ sp \in DOMAIN w.savepoints
    BY <1>2, <1>3, <2>1 DEF w
  <2>3. Good(u) /\ End(u) = End(w) /\ u.fork = w.fork /\ u.pen = w.pen
    BY <2>1, <2>2, RevertSavepointAndReplayGood
  <2> QED BY <1>2, <2>1, <2>3 DEF SameFork
<1>4. CASE u = gone
  BY <1>2, <1>4 DEF SameFork, u
<1>5. CASE \E pos \in UndoStart(gone, m.on), sp \in DOMAIN t.savepoints :
             u = RevertSavepointAndReplay(
                       SetUndoState(gone, ToUndo(gone, m.on, pos), "UNDONE"), sp, clock)
  BY <1>1, <1>3, <1>5 DEF u
<1>6. CASE \E pos \in RedoStart(gone, m.on), sp \in DOMAIN t.savepoints :
             u = RevertSavepointAndReplay(
                       SetUndoState(gone, ToRedo(gone, m.on, pos), "DONE"), sp, clock)
  BY <1>1, <1>3, <1>6 DEF u
<1>7. t \in Tracker
  BY DEF Good
<1> QED BY <1>4, <1>5, <1>6, <1>7, HandleUndoIs DEF gone, u

(* The rollback finds its savepoint.                                        *)
LEMMA RollbackIs ==
  ASSUME NEW t, Good(t), SavedBy(t, t.forkAt), NEW m, NEW clock
  PROVE  LET sp == NewestSavepoint(t, t.forkAt)
             t1 == IF t.pen THEN t ELSE ClearFork(t)
             t2 == Replay(Revert(t1, sp), t1.savepoints[sp].at, End(t1) - 1, clock) IN
         /\ sp \in DOMAIN t.savepoints
         /\ Good(t1) /\ t1.savepoints = t.savepoints /\ t1.offset = t.offset
         /\ t1.history = t.history /\ t1.pen = t.pen
         /\ t1.fork = IF t.pen THEN t.fork ELSE <<>>
         /\ Rollback(t, m, clock) = ReplayFork(IF IsUndo(m) THEN HandleUndo(t2, m, clock) ELSE t2)
<1> DEFINE sp == NewestSavepoint(t, t.forkAt)
           t1 == IF t.pen THEN t ELSE ClearFork(t)
           t2 == Replay(Revert(t1, sp), t.savepoints[sp].at, End(t) - 1, clock)
<1>1. t \in Tracker /\ t.savepoints \in Seq(Savepoint) /\ t.savepoints # <<>>
  BY TrackerFields DEF Good, Ordered
<1>2. 1 \in DOMAIN t.savepoints
  BY <1>1
<1>3. sp \in DOMAIN t.savepoints /\ sp # 0
  BY <1>1, <1>2, NewestSavepointIs DEF SavedBy
<1>4. Rollback(t, m, clock) = ReplayFork(IF IsUndo(m) THEN HandleUndo(t2, m, clock) ELSE t2)
  BY <1>3 DEF Rollback
<1>5. /\ t1 \in Tracker /\ t1.savepoints = t.savepoints /\ t1.offset = t.offset
      /\ t1.history = t.history /\ t1.pen = t.pen /\ t1.forkAt = t.forkAt
      /\ t1.fork = IF t.pen THEN t.fork ELSE <<>>
  BY <1>1, ClearForkFields
<1> HIDE DEF t1, sp
<1>6. Good(t1)
  BY <1>5 DEF Good, Ordered, Window, BeforeFork, End
<1>7. End(t1) = End(t) /\ t1.savepoints[sp].at = t.savepoints[sp].at
  BY <1>5 DEF End
<1> QED BY <1>3, <1>4, <1>5, <1>6, <1>7 DEF t1, sp

LEMMA RollbackGood ==
  ASSUME NEW t, Good(t), SavedBy(t, t.forkAt), NEW m, NEW clock
  PROVE  LET u == Rollback(t, m, clock) IN
         /\ Good(u) /\ End(u) = End(t) /\ u.pen = t.pen
         /\ u.fork = t.fork \/ u.fork = <<>>
<1> DEFINE sp == NewestSavepoint(t, t.forkAt)
           t1 == IF t.pen THEN t ELSE ClearFork(t)
           t2 == Replay(Revert(t1, sp), t1.savepoints[sp].at, End(t1) - 1, clock)
           t3 == IF IsUndo(m) THEN HandleUndo(t2, m, clock) ELSE t2
           u == Rollback(t, m, clock)
<1>1. /\ sp \in DOMAIN t.savepoints
      /\ Good(t1) /\ t1.savepoints = t.savepoints /\ t1.offset = t.offset
      /\ t1.history = t.history /\ t1.pen = t.pen
      /\ t1.fork = IF t.pen THEN t.fork ELSE <<>>
      /\ u = ReplayFork(t3)
  BY RollbackIs
<1> HIDE DEF sp, t1, u
<1>2. Good(t2) /\ t2.offset = t1.offset /\ t2.history = t1.history /\ SameFork(t1, t2)
  BY <1>1, RevertAndReplayGood
<1> HIDE DEF t2
<1>3. Good(t3) /\ End(t3) = End(t2) /\ t3.fork = t2.fork /\ t3.pen = t2.pen
  BY <1>2, HandleUndoGood
<1> HIDE DEF t3
<1>4. /\ Good(u) /\ u.offset = t3.offset /\ u.history = t3.history
      /\ u.fork = t3.fork /\ u.pen = t3.pen
  BY <1>1, <1>3, ReplayForkGood
<1> QED BY <1>1, <1>2, <1>3, <1>4 DEF SameFork, End, u


(* The tracker when receiveCommand has appended the message to the history  *)
(* and asked the local fork about it.                                       *)
LEMMA ReceivedGood ==
  ASSUME NEW t, Good(t), NEW m \in Msg
  PROVE  LET a == HandleReceivedMessage(AppendMessage(t, m), m) IN
         /\ Good(a[2]) /\ End(a[2]) = End(t) + 1
         /\ a[2].offset = t.offset
         /\ a[2].history = Append(t.history, [m |-> m, undo |-> "DONE"])
         /\ a[2].savepoints = t.savepoints /\ a[2].canvas = t.canvas
         /\ a[2].forkAt = t.forkAt /\ a[2].pen = t.pen
         /\ Outcome(t, m, a)
         /\ SavedBy(a[2], End(a[2]) - 1)
<1> DEFINE w == AppendMessage(t, m)
           a == HandleReceivedMessage(w, m)
           u == a[2]
<1>1. t \in Tracker /\ End(t) \in Nat /\ t.fork \in Seq(Msg)
  BY HistoryType, TrackerFields DEF Good
<1>2. /\ w \in Tracker /\ w.offset = t.offset
      /\ w.history = Append(t.history, [m |-> m, undo |-> "DONE"])
      /\ w.savepoints = t.savepoints /\ w.canvas = t.canvas /\ SameFork(t, w)
      /\ End(w) = End(t) + 1
  BY <1>1, AppendMessageIs
<1> HIDE DEF w
<1>3. /\ Outcome(w, m, a)
      /\ u \in Tracker /\ u.offset = w.offset /\ u.history = w.history
      /\ u.savepoints = w.savepoints /\ u.canvas = w.canvas
      /\ u.forkAt = w.forkAt /\ u.pen = w.pen
  BY <1>2, HandleReceivedMessageIs
<1> HIDE DEF a
<1>4. Outcome(t, m, a)
  <2>1. w.fork = t.fork
    BY <1>2 DEF SameFork
  <2> QED BY <1>3, <2>1 DEF Outcome
<1>5. End(u) = End(t) + 1
  BY <1>2, <1>3 DEF End
<1>6. \A i \in DOMAIN t.savepoints : t.savepoints[i].at \in Int /\ t.savepoints[i].at < End(t)
  BY <1>1, SavepointType DEF Good, Ordered
<1>7. Ordered(u)
  <2>1. \A i \in DOMAIN t.savepoints : t.savepoints[i].at < End(u)
    BY <1>1, <1>5, <1>6
  <2> QED BY <2>1, <1>2, <1>3 DEF Good, Ordered
<1>8. Window(u)
  BY <1>2, <1>3 DEF Good, Window
<1>9. BeforeFork(u)
  <2>1. u.fork # <<>> => t.fork # <<>>
    BY <1>4, <1>1 DEF Outcome
  <2>2. u.forkAt = t.forkAt /\ u.savepoints = t.savepoints
    BY <1>2, <1>3 DEF SameFork
  <2> QED BY <2>1, <2>2 DEF Good, BeforeFork
<1>10. SavedBy(u, End(u) - 1)
  BY <1>1, <1>2, <1>3, <1>5, <1>6 DEF SavedBy
<1> QED BY <1>2, <1>3, <1>4, <1>5, <1>7, <1>8, <1>9, <1>10 DEF Good, SameFork, a, w

(* StateTracker::receiveCommand keeps a tracker in order.  The fork only    *)
(* gets shorter, and does so when the message is our own.                   *)
LEMMA ReceiveCommandGood ==
  ASSUME NEW t, Good(t), NEW m \in Msg, NEW clock
  PROVE  LET u == ReceiveCommand(t, m, clock) IN
         /\ Good(u) /\ End(u) = End(t) + 1 /\ u.pen = t.pen
         /\ \/ u.fork = <<>>
            \/ t.fork # <<>> /\ u.fork = Tail(t.fork)
            \/ t.fork # <<>> /\ m.by # Head(t.fork).by /\ u.fork = t.fork
<1> DEFINE a == HandleReceivedMessage(AppendMessage(t, m), m)
           t1 == a[2]
           do == IF IsUndo(m) THEN HandleUndo(t1, m, clock)
                 ELSE HandleCommand(t1, m, FALSE, End(t1) - 1, clock)
           u == ReceiveCommand(t, m, clock)
<1>1. /\ Good(t1) /\ End(t1) = End(t) + 1
      /\ t1.savepoints = t.savepoints /\ t1.forkAt = t.forkAt /\ t1.pen = t.pen
      /\ Outcome(t, m, a) /\ SavedBy(t1, End(t1) - 1)
  BY ReceivedGood
<1>2. u = CASE a[1] = "ROLLBACK"    -> Rollback(t1, m, clock)
            [] a[1] = "CONCURRENT"  -> do
            [] a[1] = "ALREADYDONE" -> IF IsUndo(m) \/ m.t = "UndoPoint" THEN do ELSE t1
  BY DEF ReceiveCommand
<1>3. t1 \in Tracker /\ End(t1) \in Nat /\ t \in Tracker /\ End(t) \in Nat
  BY <1>1, HistoryType DEF Good
<1> HIDE DEF u, a
<1>4. Good(do) /\ End(do) = End(t1) /\ do.fork = t1.fork /\ do.pen = t1.pen
  <2>1. CASE IsUndo(m)
    <3>1. do = HandleUndo(t1, m, clock)
      BY <2>1
    <3> HIDE DEF do, t1
    <3> QED BY <3>1, <1>1, HandleUndoGood
  <2>2. CASE ~IsUndo(m)
    <3>1. PICK no \in BOOLEAN : no = FALSE
      OBVIOUS
    <3> DEFINE pos == End(t1) - 1
    <3>2. do = HandleCommand(t1, m, no, pos, clock)
      BY <2>2, <3>1
    <3>3. pos \in Int /\ -1 <= pos /\ pos < End(t1) /\ SavedBy(t1, pos)
      BY <1>1, <1>3
    <3> HIDE DEF do, t1, pos
    <3>4. LET w == HandleCommand(t1, m, no, pos, clock) IN
          Good(w) /\ End(w) = End(t1) /\ SameFork(t1, w)
      BY <1>1, <3>3, HandleCommandGood
    <3> QED BY <3>2, <3>4 DEF SameFork
  <2> QED BY <2>1, <2>2
<1> HIDE DEF do, t1
<1>5. CASE a[1] = "ROLLBACK"
  <2>1. t.fork # <<>>
    BY <1>1, <1>5 DEF Outcome
  <2>2. SavedBy(t1, t1.forkAt)
    BY <2>1, <1>1 DEF SavedBy, Good, BeforeFork
  <2>3. u = Rollback(t1, m, clock)
    BY <1>2, <1>5
  <2>4. /\ Good(u) /\ End(u) = End(t1) /\ u.pen = t1.pen
        /\ u.fork = t1.fork \/ u.fork = <<>>
    BY <1>1, <2>2, <2>3, RollbackGood
  <2>5. t1.fork = <<>> \/ (m.by # Head(t.fork).by /\ t1.fork = t.fork)
    BY <1>1, <1>5 DEF Outcome, t1
  <2> QED BY <1>1, <2>1, <2>4, <2>5 DEF u
<1>6. CASE a[1] # "ROLLBACK"
  <2>1. u = do \/ u = t1
    BY <1>1, <1>2, <1>6 DEF Outcome
  <2>2. \/ t1.fork = <<>>
        \/ t.fork # <<>> /\ t1.fork = Tail(t.fork)
        \/ t.fork # <<>> /\ m.by # Head(t.fork).by /\ t1.fork = t.fork
    BY <1>1, <1>6 DEF Outcome, t1
  <2> QED BY <1>1, <1>4, <2>1, <2>2 DEF u
<1> QED BY <1>5, <1>6

(* StateTracker::localCommand has made a savepoint, perhaps, and is about   *)
(* to add the message to the fork.                                          *)
ForkBegun(t, w) ==
  /\ Good(w) /\ w.offset = t.offset /\ w.history = t.history
  /\ w.canvas = t.canvas /\ w.fork = t.fork /\ w.pen = t.pen
  /\ SavedBy(w, w.forkAt)
  /\ \/ w.savepoints = t.savepoints
     \/ /\ t.fork = <<>>
        /\ w.savepoints = Append(t.savepoints, [at |-> End(t) - 1, canvas |-> t.canvas])

WithMessage(w, m) == [w EXCEPT !.fork = Append(w.fork, m), !.canvas = Paint(w.canvas, m)]

LEMMA LocalCommandIs ==
  ASSUME NEW t, Good(t), NEW m \in Msg, NEW clock
  PROVE  \E w : ForkBegun(t, w) /\ LocalCommand(t, m, clock) = WithMessage(w, m)
<1> DEFINE u == LocalCommand(t, m, clock)
           p == End(t) - 1
           t0 == [t EXCEPT !.forkAt = p]
           t1 == IF t.fork # <<>> THEN t
                 ELSE IF m.t = "UndoPoint" THEN MakeSavepoint(t0, p, clock) ELSE t0
<1>1. u = WithMessage(t1, m)
  BY DEF LocalCommand, WithMessage
<1>2. t \in Tracker /\ End(t) \in Nat
  BY HistoryType DEF Good
<1>3. p \in Int /\ -1 <= p /\ p < End(t)
  BY <1>2
<1> HIDE DEF u
<1>4. CASE t.fork # <<>>
  <2>1. t1 = t
    BY <1>4
  <2>2. SavedBy(t, t.forkAt)
    BY <1>4 DEF Good, BeforeFork, SavedBy
  <2>3. ForkBegun(t, t)
    BY <2>2 DEF ForkBegun
  <2> QED BY <1>1, <2>1, <2>3 DEF u
<1>5. CASE t.fork = <<>>
  <2> HIDE DEF p
  <2>1. /\ t0 \in Tracker /\ t0.history = t.history /\ t0.offset = t.offset
        /\ t0.savepoints = t.savepoints /\ t0.canvas = t.canvas
        /\ t0.fork = t.fork /\ t0.forkAt = p /\ t0.pen = t.pen
    BY <1>2, <1>3 DEF Tracker
  <2> HIDE DEF t0
  <2>2. Good(t0) /\ End(t0) = End(t)
    BY <2>1, <1>5 DEF Good, Ordered, Window, BeforeFork, End
  <2>3. \A i \in DOMAIN t.savepoints : t.savepoints[i].at \in Int /\ t.savepoints[i].at <= p
    BY <1>2, SavepointType DEF Good, Ordered, p
  <2>4. CASE t1 = t0
    <3>1. ForkBegun(t, t0)
      BY <2>1, <2>2, <2>3 DEF SavedBy, ForkBegun
    <3> QED BY <1>1, <2>4, <3>1 DEF u
  <2>5. CASE t1 # t0 /\ t1 = MakeSavepoint(t0, p, clock)
    <3>1. /\ Good(t1) /\ t1.offset = t0.offset /\ t1.history = t0.history
          /\ t1.canvas = t0.canvas /\ SameFork(t0, t1)
          /\ \A i \in DOMAIN t1.savepoints : t1.savepoints[i].at <= p
      BY <1>3, <2>1, <2>2, <2>3, <2>5, MakeSavepointGood
    <3>2. t1 = [t0 EXCEPT !.savepoints = Append(@, [at |-> p, canvas |-> t0.canvas])]
      BY <2>5, MakeSavepointIs
    <3>3. t1.savepoints = Append(t.savepoints, [at |-> p, canvas |-> t.canvas])
      BY <2>1, <3>2 DEF Tracker
    <3>4. SavedBy(t1, t1.forkAt)
      BY <3>1, <2>1 DEF SavedBy, SameFork
    <3> HIDE DEF t1
    <3>5. ForkBegun(t, t1)
      BY <1>5, <2>1, <3>1, <3>3, <3>4 DEF SameFork, ForkBegun, p
    <3> QED BY <1>1, <3>5 DEF u
  <2> QED BY <1>5, <2>4, <2>5
<1> QED BY <1>4, <1>5

LEMMA LocalCommandGood ==
  ASSUME NEW t, Good(t), NEW m \in Msg, NEW clock
  PROVE  LET u == LocalCommand(t, m, clock) IN
         Good(u) /\ End(u) = End(t) /\ u.pen = t.pen /\ u.fork = Append(t.fork, m)
<1> DEFINE u == LocalCommand(t, m, clock)
<1>1. PICK w : ForkBegun(t, w) /\ u = WithMessage(w, m)
  BY LocalCommandIs
<1> DEFINE f == Append(w.fork, m)
           v == Paint(w.canvas, m)
<1>2. w \in Tracker
  BY <1>1 DEF Good, ForkBegun
<1>3. f \in Seq(Msg) /\ v \in Canvas
  BY <1>2, TrackerFields, PaintType
<1>4. u = [w EXCEPT !.fork = f, !.canvas = v]
  BY <1>1 DEF WithMessage
<1> HIDE DEF u, f, v
<1>5. /\ u \in Tracker /\ u.offset = w.offset /\ u.history = w.history
      /\ u.savepoints = w.savepoints /\ u.fork = f /\ u.forkAt = w.forkAt /\ u.pen = w.pen
  BY <1>2, <1>3, <1>4 DEF Tracker
<1>6. Good(u)
  BY <1>1, <1>5 DEF Good, Ordered, Window, BeforeFork, End, SavedBy, ForkBegun
<1> QED BY <1>1, <1>5, <1>6 DEF End, u, f, ForkBegun


(***************************************************************************)
(* The session: types, positions and owners                                *)
(***************************************************************************)
LogEntry == [m : Msg, filtered : BOOLEAN]

StateOK ==
  /\ log \in Seq(LogEntry)
  /\ sent \in [Client -> Seq(Msg)]
  /\ count \in [Client -> Nat]
  /\ read \in [Client -> Nat]
  /\ tracker \in [Client -> Tracker]

ClientOK(c) ==
  /\ count[c] <= Budget[c]
  /\ read[c] <= Len(log)
  /\ Good(tracker[c])
  /\ End(tracker[c]) <= read[c]
  /\ \A i \in DOMAIN sent[c] : sent[c][i].by = c
  /\ \A i \in DOMAIN tracker[c].fork : tracker[c].fork[i].by = c

PositionInv == StateOK /\ \A c \in Client : ClientOK(c)

LEMMA MessageType ==
  ASSUME NEW c \in Client, count[c] \in Nat, NEW m \in Message(c)
  PROVE  m \in Msg /\ m.by = c
  BY DEF Message, Msg, Kind

LEMMA BlankType == Blank \in Canvas
  BY DEF Blank, Canvas

LEMMA NewTrackerGood == Good(NewTracker) /\ End(NewTracker) = 0 /\ NewTracker.fork = <<>>
<1> DEFINE t == NewTracker
           sp == [at |-> -1, canvas |-> Blank]
<1>1. sp \in Savepoint /\ sp.at = -1
  BY BlankType DEF Savepoint
<1> HIDE DEF sp
<1>2. /\ t.offset = 0 /\ t.history = <<>> /\ t.fork = <<>> /\ t.forkAt = 0 /\ t.behind = 0
      /\ t.savepoints = <<sp>> /\ t.canvas = Blank /\ t.pen = FALSE
  BY DEF NewTracker, sp
<1>3. <<sp>> \in Seq(Savepoint) /\ <<>> \in Seq(Entry) /\ <<>> \in Seq(Msg)
  BY <1>1
<1>4. t \in Tracker
  BY <1>3, BlankType DEF Tracker, NewTracker, sp
<1> HIDE DEF t
<1>5. End(t) = 0
  BY <1>2 DEF End
<1>6. DOMAIN <<sp>> = {1} /\ <<sp>>[1] = sp /\ <<sp>> # <<>>
  OBVIOUS
<1>7. Good(t)
  BY <1>1, <1>2, <1>4, <1>5, <1>6 DEF Good, Ordered, Window, BeforeFork
<1> QED BY <1>2, <1>5, <1>7 DEF t

LEMMA PositionInit == Init => PositionInv
<1> SUFFICES ASSUME Init PROVE PositionInv
  OBVIOUS
<1>1. NewTracker \in Tracker
  BY NewTrackerGood DEF Good
<1>2. StateOK
  BY <1>1 DEF Init, StateOK
<1>3. ASSUME NEW c \in Client PROVE ClientOK(c)
  <2>1. tracker[c] = NewTracker /\ sent[c] = <<>> /\ count[c] = 0 /\ read[c] = 0 /\ log = <<>>
    BY DEF Init
  <2>2. Budget[c] \in Nat
    BY BudgetAssumption
  <2> QED BY <2>1, <2>2, NewTrackerGood DEF ClientOK
<1> QED BY <1>2, <1>3 DEF PositionInv

(* SendMessage: what happens to the sender.                                 *)
LEMMA SendMessageIs ==
  ASSUME PositionInv, NEW c \in Client, SendMessage(c)
  PROVE  \E m \in Msg :
           /\ m.by = c
           /\ sent' = [sent EXCEPT ![c] = Append(@, m)]
           /\ \/ m.t = "SoftReset" /\ tracker' = tracker
              \/ /\ m.t # "SoftReset"
                 /\ \E clock : tracker' = [tracker EXCEPT ![c] = LocalCommand(@, m, clock)]
<1>1. count[c] \in Nat /\ tracker \in [Client -> Tracker]
  BY DEF PositionInv, StateOK
<1>2. PICK m \in Message(c) :
        /\ \E clock \in Clocks(c, IF m.t = "UndoPoint" THEN {End(tracker[c]) - 1} ELSE {}) :
             tracker' = [tracker EXCEPT ![c] = IF m.t = "SoftReset" THEN @
                                               ELSE LocalCommand(@, m, clock)]
        /\ sent' = [sent EXCEPT ![c] = Append(@, m)]
  BY DEF SendMessage
<1>3. m \in Msg /\ m.by = c
  BY <1>1, MessageType
<1>4. PICK clock : tracker' = [tracker EXCEPT ![c] = IF m.t = "SoftReset" THEN @
                                                     ELSE LocalCommand(@, m, clock)]
  BY <1>2
<1>5. CASE m.t = "SoftReset"
  <2>1. tracker' = [tracker EXCEPT ![c] = tracker[c]]
    BY <1>4, <1>5
  <2>2. tracker' = tracker
    BY <2>1, <1>1
  <2> QED BY <1>2, <1>3, <1>5, <2>2
<1>6. CASE m.t # "SoftReset"
  <2>1. tracker' = [tracker EXCEPT ![c] = LocalCommand(@, m, clock)]
    BY <1>4, <1>6
  <2> QED BY <1>2, <1>3, <1>6, <2>1
<1> QED BY <1>5, <1>6

LEMMA PositionSend ==
  ASSUME PositionInv, NEW c \in Client, SendMessage(c)
  PROVE  PositionInv'
<1>1. /\ log \in Seq(LogEntry) /\ sent \in [Client -> Seq(Msg)] /\ count \in [Client -> Nat]
      /\ read \in [Client -> Nat] /\ tracker \in [Client -> Tracker]
      /\ \A d \in Client : ClientOK(d)
  BY DEF PositionInv, StateOK
<1>2. /\ count[c] < Budget[c] /\ count' = [count EXCEPT ![c] = @ + 1]
      /\ log' = log /\ read' = read
  BY DEF SendMessage
<1>3. PICK m \in Msg :
           /\ m.by = c
           /\ sent' = [sent EXCEPT ![c] = Append(@, m)]
           /\ \/ m.t = "SoftReset" /\ tracker' = tracker
              \/ /\ m.t # "SoftReset"
                 /\ \E clock : tracker' = [tracker EXCEPT ![c] = LocalCommand(@, m, clock)]
  BY SendMessageIs
<1>4. /\ tracker' \in [Client -> Tracker]
      /\ \A d \in Client : d # c => tracker'[d] = tracker[d]
      /\ Good(tracker'[c]) /\ End(tracker'[c]) = End(tracker[c])
      /\ tracker'[c].fork = tracker[c].fork \/ tracker'[c].fork = Append(tracker[c].fork, m)
  <2>1. CASE tracker' = tracker
    BY <1>1, <2>1 DEF ClientOK
  <2>2. ASSUME NEW clock, tracker' = [tracker EXCEPT ![c] = LocalCommand(@, m, clock)]
        PROVE  /\ tracker' \in [Client -> Tracker]
               /\ \A d \in Client : d # c => tracker'[d] = tracker[d]
               /\ Good(tracker'[c]) /\ End(tracker'[c]) = End(tracker[c])
               /\ tracker'[c].fork = Append(tracker[c].fork, m)
    <3> DEFINE u == LocalCommand(tracker[c], m, clock)
    <3>1. Good(u) /\ End(u) = End(tracker[c]) /\ u.fork = Append(tracker[c].fork, m)
      BY <1>1, LocalCommandGood DEF ClientOK
    <3>2. tracker' = [tracker EXCEPT ![c] = u]
      BY <2>2
    <3> HIDE DEF u
    <3>3. u \in Tracker
      BY <3>1 DEF Good
    <3> QED BY <1>1, <3>1, <3>2, <3>3
  <2> QED BY <1>3, <2>1, <2>2
<1>5. StateOK'
  <2>1. sent' \in [Client -> Seq(Msg)]
    BY <1>1, <1>3
  <2>2. count' \in [Client -> Nat]
    BY <1>1, <1>2
  <2> QED BY <1>1, <1>2, <1>4, <2>1, <2>2 DEF StateOK
<1>6. ASSUME NEW d \in Client PROVE ClientOK(d)'
  <2>1. CASE d # c
    BY <1>1, <1>2, <1>3, <1>4, <2>1 DEF ClientOK
  <2>2. CASE d = c
    <3>1. count'[c] <= Budget[c]
      <4>1. count'[c] = count[c] + 1 /\ count[c] \in Nat /\ Budget[c] \in Nat
        BY <1>1, <1>2, BudgetAssumption
      <4> QED BY <4>1, <1>2
    <3>2. \A i \in DOMAIN sent'[c] : sent'[c][i].by = c
      <4>1. sent'[c] = Append(sent[c], m) /\ sent[c] \in Seq(Msg)
        BY <1>1, <1>3
      <4> QED BY <4>1, <1>1, <1>3 DEF ClientOK
    <3>3. \A i \in DOMAIN tracker'[c].fork : tracker'[c].fork[i].by = c
      <4>1. tracker[c].fork \in Seq(Msg)
        BY <1>1, TrackerFields
      <4>2. \A i \in DOMAIN tracker[c].fork : tracker[c].fork[i].by = c
        BY <1>1 DEF ClientOK
      <4>3. CASE tracker'[c].fork = tracker[c].fork
        BY <4>2, <4>3
      <4>4. CASE tracker'[c].fork = Append(tracker[c].fork, m)
        BY <4>1, <4>2, <4>4, <1>3
      <4> QED BY <1>4, <4>3, <4>4
    <3>4. read'[c] <= Len(log') /\ End(tracker'[c]) <= read'[c]
      BY <1>1, <1>2, <1>4 DEF ClientOK
    <3> QED BY <1>4, <2>2, <3>1, <3>2, <3>3, <3>4 DEF ClientOK
  <2> QED BY <2>1, <2>2
<1> QED BY <1>5, <1>6 DEF PositionInv

LEMMA PositionPen ==
  ASSUME PositionInv, NEW c \in Client, SetLocalDrawingInProgress(c)
  PROVE  PositionInv'
<1>1. /\ tracker \in [Client -> Tracker] /\ \A d \in Client : ClientOK(d)
  BY DEF PositionInv, StateOK
<1>2. /\ tracker' = [tracker EXCEPT ![c].pen = ~@]
      /\ log' = log /\ sent' = sent /\ count' = count /\ read' = read
  BY DEF SetLocalDrawingInProgress
<1> DEFINE t == tracker[c]
           u == [t EXCEPT !.pen = ~t.pen]
<1>3. tracker' = [tracker EXCEPT ![c] = u]
  BY <1>1, <1>2
<1>4. /\ u \in Tracker /\ u.offset = t.offset /\ u.history = t.history
      /\ u.savepoints = t.savepoints /\ u.fork = t.fork /\ u.forkAt = t.forkAt
  BY <1>1 DEF Tracker
<1> HIDE DEF u
<1>5. Good(u) /\ End(u) = End(t)
  BY <1>1, <1>4 DEF ClientOK, Good, Ordered, Window, BeforeFork, End
<1>6. tracker' \in [Client -> Tracker] /\ tracker'[c] = u
      /\ \A d \in Client : d # c => tracker'[d] = tracker[d]
  BY <1>1, <1>3, <1>4
<1>7. StateOK'
  BY <1>2, <1>6 DEF PositionInv, StateOK
<1>8. ASSUME NEW d \in Client PROVE ClientOK(d)'
  <2>1. CASE d # c
    BY <1>1, <1>2, <1>6, <2>1 DEF ClientOK
  <2>2. CASE d = c
    BY <1>1, <1>2, <1>4, <1>5, <1>6, <2>2 DEF ClientOK
  <2> QED BY <2>1, <2>2
<1> QED BY <1>7, <1>8 DEF PositionInv


(* AddToHistory: the entry that is added.                                   *)
LEMMA AddToHistoryIs ==
  ASSUME PositionInv, NEW c \in Client, AddToHistory(c)
  PROVE  \E e \in LogEntry :
           /\ sent[c] # <<>> /\ e.m = Head(sent[c]) /\ e.m.by = c
           /\ log' = Append(log, e)
           /\ sent' = [sent EXCEPT ![c] = Tail(@)]
           /\ count' = count /\ read' = read /\ tracker' = tracker
<1>1. sent \in [Client -> Seq(Msg)] /\ ClientOK(c)
  BY DEF PositionInv, StateOK
<1>2. PICK filtered \in BOOLEAN : log' = Append(log, [m |-> Head(sent[c]), filtered |-> filtered])
  BY DEF AddToHistory
<1>3. sent[c] # <<>> /\ sent[c] \in Seq(Msg)
  BY <1>1 DEF AddToHistory
<1>4. Head(sent[c]) \in Msg /\ Head(sent[c]) = sent[c][1] /\ 1 \in DOMAIN sent[c]
  BY <1>3
<1>5. Head(sent[c]).by = c
  BY <1>1, <1>4 DEF ClientOK
<1> DEFINE e == [m |-> Head(sent[c]), filtered |-> filtered]
<1>6. e \in LogEntry /\ e.m = Head(sent[c])
  BY <1>4 DEF LogEntry
<1>7. log' = Append(log, e)
  BY <1>2
<1> HIDE DEF e
<1> QED BY <1>3, <1>5, <1>6, <1>7 DEF AddToHistory

LEMMA PositionAdd ==
  ASSUME PositionInv, NEW c \in Client, AddToHistory(c)
  PROVE  PositionInv'
<1>1. /\ log \in Seq(LogEntry) /\ sent \in [Client -> Seq(Msg)]
      /\ read \in [Client -> Nat] /\ \A d \in Client : ClientOK(d)
  BY DEF PositionInv, StateOK
<1>2. PICK e \in LogEntry :
           /\ sent[c] # <<>> /\ log' = Append(log, e)
           /\ sent' = [sent EXCEPT ![c] = Tail(@)]
           /\ count' = count /\ read' = read /\ tracker' = tracker
  BY AddToHistoryIs
<1>3. log' \in Seq(LogEntry) /\ Len(log') = Len(log) + 1 /\ Len(log) \in Nat
  BY <1>1, <1>2
<1>4. /\ sent[c] \in Seq(Msg) /\ Tail(sent[c]) \in Seq(Msg)
      /\ \A i \in DOMAIN Tail(sent[c]) : i + 1 \in DOMAIN sent[c] /\ Tail(sent[c])[i] = sent[c][i + 1]
  <2>1. sent[c] \in Seq(Msg)
    BY <1>1
  <2>2. /\ Tail(sent[c]) \in Seq(Msg) /\ Len(Tail(sent[c])) = Len(sent[c]) - 1
        /\ \A i \in 1 .. Len(Tail(sent[c])) : Tail(sent[c])[i] = sent[c][i + 1]
    BY <1>2, <2>1, HeadTailProperties
  <2> QED BY <2>1, <2>2
<1>5. /\ sent' \in [Client -> Seq(Msg)] /\ sent'[c] = Tail(sent[c])
      /\ \A d \in Client : d # c => sent'[d] = sent[d]
  BY <1>1, <1>2, <1>4
<1>6. StateOK'
  BY <1>2, <1>3, <1>5 DEF PositionInv, StateOK
<1>7. ASSUME NEW d \in Client PROVE ClientOK(d)'
  <2>1. read[d] <= Len(log')
    BY <1>1, <1>3 DEF ClientOK
  <2>2. \A i \in DOMAIN sent'[d] : sent'[d][i].by = d
    <3>1. CASE d = c
      BY <3>1, <1>1, <1>4, <1>5 DEF ClientOK
    <3>2. CASE d # c
      BY <3>2, <1>1, <1>5 DEF ClientOK
    <3> QED BY <3>1, <3>2
  <2> QED BY <1>1, <1>2, <2>1, <2>2 DEF ClientOK
<1> QED BY <1>6, <1>7 DEF PositionInv

(* StateTracker::handleTruncateHistory                                      *)
LEMMA HandleTruncateHistoryIs ==
  ASSUME NEW t, Good(t)
  PROVE  LET Ix == {i \in Valid(t) : IsUndoPoint(t, i)
                                    /\ UndoPoints(t, i + 1, End(t) - 1) <= UndoDepth}
             u == HandleTruncateHistory(t) IN
         /\ u = SetUndoState(t, Ix, "GONE")
         /\ Good(u) /\ End(u) = End(t) /\ u.savepoints = t.savepoints
         /\ u.canvas = t.canvas /\ SameFork(t, u)
<1> DEFINE Ix == {i \in Valid(t) : IsUndoPoint(t, i)
                                  /\ UndoPoints(t, i + 1, End(t) - 1) <= UndoDepth}
           u == HandleTruncateHistory(t)
<1>1. u = SetUndoState(t, Ix, "GONE")
  BY DEF HandleTruncateHistory
<1>2. "GONE" \in UndoState
  BY DEF UndoState
<1> HIDE DEF u, Ix
<1>3. /\ Good(u) /\ End(u) = End(t) /\ u.savepoints = t.savepoints
      /\ u.canvas = t.canvas /\ SameFork(t, u)
  BY <1>1, <1>2, SetUndoStateGood
<1> QED BY <1>1, <1>3 DEF u, Ix

(* Receive: what happens to the receiver.                                   *)
Handled(t, e, clock) ==
  CASE e.filtered                          -> t
    [] ~e.filtered /\ e.m.t = "SoftReset"  -> HandleTruncateHistory(t)
    [] OTHER                               -> ReceiveCommand(t, e.m, clock)

LEMMA ReceiveIs ==
  ASSUME PositionInv, NEW c \in Client, Receive(c)
  PROVE  \E clock :
           /\ tracker' = [tracker EXCEPT ![c] = Handled(@, log[read[c] + 1], clock)]
           /\ read' = [read EXCEPT ![c] = @ + 1] /\ read[c] < Len(log)
           /\ log' = log /\ sent' = sent /\ count' = count
<1> DEFINE e == log[read[c] + 1]
<1>1. PICK clock : tracker' = [tracker EXCEPT ![c] =
           CASE e.filtered          -> @
             [] ~e.filtered /\ e.m.t = "SoftReset" -> HandleTruncateHistory(@)
             [] OTHER               -> ReceiveCommand(@, e.m, clock)]
  BY DEF Receive
<1>2. tracker' = [tracker EXCEPT ![c] = Handled(@, e, clock)]
  BY <1>1 DEF Handled
<1> QED BY <1>2 DEF Receive

LEMMA HandledGood ==
  ASSUME NEW t, Good(t), NEW e \in LogEntry, NEW clock
  PROVE  LET u == Handled(t, e, clock) IN
         /\ Good(u) /\ End(u) <= End(t) + 1 /\ u.pen = t.pen
         /\ \/ u.fork = <<>>
            \/ t.fork # <<>> /\ u.fork = Tail(t.fork)
            \/ u.fork = t.fork /\ (e.filtered \/ e.m.t = "SoftReset")
            \/ t.fork # <<>> /\ e.m.by # Head(t.fork).by /\ u.fork = t.fork
<1> DEFINE u == Handled(t, e, clock)
<1>1. e.m \in Msg /\ e.filtered \in BOOLEAN /\ End(t) \in Nat
  BY HistoryType DEF LogEntry, Good
<1>2. CASE e.filtered
  <2>1. u = t
    BY <1>2 DEF Handled
  <2> QED BY <1>1, <1>2, <2>1
<1>3. CASE ~e.filtered /\ e.m.t = "SoftReset"
  <2>1. u = HandleTruncateHistory(t)
    BY <1>3 DEF Handled
  <2>2. Good(u) /\ End(u) = End(t) /\ SameFork(t, u)
    BY <2>1, HandleTruncateHistoryIs
  <2> QED BY <1>1, <1>3, <2>2 DEF SameFork
<1>4. CASE ~e.filtered /\ e.m.t # "SoftReset"
  <2>1. u = ReceiveCommand(t, e.m, clock)
    BY <1>4 DEF Handled
  <2> HIDE DEF u
  <2>2. /\ Good(u) /\ End(u) = End(t) + 1 /\ u.pen = t.pen
        /\ \/ u.fork = <<>>
           \/ t.fork # <<>> /\ u.fork = Tail(t.fork)
           \/ t.fork # <<>> /\ e.m.by # Head(t.fork).by /\ u.fork = t.fork
    BY <1>1, <2>1, ReceiveCommandGood
  <2> QED BY <1>1, <2>2 DEF u
<1> QED BY <1>1, <1>2, <1>3, <1>4

LEMMA PositionReceive ==
  ASSUME PositionInv, NEW c \in Client, Receive(c)
  PROVE  PositionInv'
<1>1. /\ log \in Seq(LogEntry) /\ read \in [Client -> Nat] /\ tracker \in [Client -> Tracker]
      /\ \A d \in Client : ClientOK(d)
  BY DEF PositionInv, StateOK
<1>2. PICK clock :
           /\ tracker' = [tracker EXCEPT ![c] = Handled(@, log[read[c] + 1], clock)]
           /\ read' = [read EXCEPT ![c] = @ + 1] /\ read[c] < Len(log)
           /\ log' = log /\ sent' = sent /\ count' = count
  BY ReceiveIs
<1> DEFINE t == tracker[c]
           e == log[read[c] + 1]
           u == Handled(t, e, clock)
<1>3. e \in LogEntry
  BY <1>1, <1>2
<1>4. Good(t) /\ t \in Tracker /\ t.fork \in Seq(Msg) /\ End(t) \in Nat
  BY <1>1, TrackerFields, HistoryType DEF ClientOK
<1> HIDE DEF e
<1>5. /\ Good(u) /\ End(u) <= End(t) + 1
      /\ \/ u.fork = <<>>
         \/ t.fork # <<>> /\ u.fork = Tail(t.fork)
         \/ u.fork = t.fork
  BY <1>3, <1>4, HandledGood
<1>6. tracker' = [tracker EXCEPT ![c] = u]
  BY <1>2 DEF e
<1> HIDE DEF u
<1>7. u \in Tracker /\ End(u) \in Nat
  BY <1>5, HistoryType DEF Good
<1>8. /\ tracker' \in [Client -> Tracker] /\ tracker'[c] = u
      /\ \A d \in Client : d # c => tracker'[d] = tracker[d]
  BY <1>1, <1>6, <1>7
<1>9. /\ read' \in [Client -> Nat] /\ read'[c] = read[c] + 1
      /\ \A d \in Client : d # c => read'[d] = read[d]
  BY <1>1, <1>2
<1>10. StateOK'
  BY <1>2, <1>8, <1>9 DEF PositionInv, StateOK
<1>11. \A i \in DOMAIN u.fork : u.fork[i].by = c
  <2>1. \A i \in DOMAIN t.fork : t.fork[i].by = c
    BY <1>1 DEF ClientOK
  <2>2. CASE u.fork = <<>>
    BY <2>2
  <2>3. CASE t.fork # <<>> /\ u.fork = Tail(t.fork)
    <3>1. /\ Len(Tail(t.fork)) = Len(t.fork) - 1 /\ Tail(t.fork) \in Seq(Msg)
          /\ \A i \in 1 .. Len(Tail(t.fork)) : Tail(t.fork)[i] = t.fork[i + 1]
      BY <1>4, <2>3, HeadTailProperties
    <3>2. \A i \in DOMAIN u.fork : i + 1 \in DOMAIN t.fork /\ u.fork[i] = t.fork[i + 1]
      BY <1>4, <2>3, <3>1
    <3> QED BY <2>1, <3>2
  <2>4. CASE u.fork = t.fork
    BY <2>1, <2>4
  <2> QED BY <1>5, <2>2, <2>3, <2>4
<1>12. ASSUME NEW d \in Client PROVE ClientOK(d)'
  <2>1. CASE d # c
    BY <1>1, <1>2, <1>8, <1>9, <2>1 DEF ClientOK
  <2>2. CASE d = c
    <3>1. read'[c] <= Len(log')
      BY <1>1, <1>2, <1>9
    <3>2. End(u) <= read'[c]
      <4>1. End(t) <= read[c] /\ read[c] \in Nat
        BY <1>1 DEF ClientOK
      <4> QED BY <4>1, <1>4, <1>5, <1>7, <1>9
    <3> QED BY <1>1, <1>2, <1>5, <1>8, <1>11, <2>2, <3>1, <3>2 DEF ClientOK
  <2> QED BY <2>1, <2>2
<1> QED BY <1>10, <1>12 DEF PositionInv

LEMMA PositionStutter ==
  ASSUME PositionInv, UNCHANGED vars
  PROVE  PositionInv'
<1>1. log' = log /\ sent' = sent /\ count' = count /\ read' = read /\ tracker' = tracker
  BY DEF vars
<1> QED BY <1>1 DEF PositionInv, StateOK, ClientOK

LEMMA PositionNext == PositionInv /\ [Next]_vars => PositionInv'
<1> SUFFICES ASSUME PositionInv, [Next]_vars PROVE PositionInv'
  OBVIOUS
<1>1. CASE UNCHANGED vars
  BY <1>1, PositionStutter
<1>2. ASSUME NEW c \in Client, SendMessage(c) PROVE PositionInv'
  BY <1>2, PositionSend
<1>3. ASSUME NEW c \in Client, SetLocalDrawingInProgress(c) PROVE PositionInv'
  BY <1>3, PositionPen
<1>4. ASSUME NEW c \in Client, AddToHistory(c) PROVE PositionInv'
  BY <1>4, PositionAdd
<1>5. ASSUME NEW c \in Client, Receive(c) PROVE PositionInv'
  BY <1>5, PositionReceive
<1> QED BY <1>1, <1>2, <1>3, <1>4, <1>5 DEF Next


LEMMA PositionInvariant == Spec => []PositionInv
<1>1. Init => PositionInv
  BY PositionInit
<1>2. PositionInv /\ [Next]_vars => PositionInv'
  BY PositionNext
<1> QED BY <1>1, <1>2, PTL DEF Spec

LEMMA PositionImpliesTypeOK == PositionInv => TypeOK
<1> SUFFICES ASSUME PositionInv, NEW c \in Client
             PROVE  LET t == tracker[c] IN
                    /\ read[c] \in 0 .. Len(log) /\ count[c] \in 0 .. Budget[c]
                    /\ t.offset >= 0 /\ End(t) <= read[c]
                    /\ \A i \in DOMAIN t.history : t.history[i].undo \in {"DONE", "UNDONE", "GONE"}
                    /\ t.savepoints # <<>>
                    /\ \A i \in DOMAIN t.savepoints : LET at == t.savepoints[i].at IN
                         at < End(t) /\ (at >= t.offset \/ (at = -1 /\ t.offset = 0))
                    /\ \A i \in DOMAIN t.fork : t.fork[i].by = c
                    /\ t.pen \in BOOLEAN
  BY DEF TypeOK
<1> DEFINE t == tracker[c]
<1>1. /\ t \in Tracker /\ ClientOK(c) /\ log \in Seq(LogEntry)
      /\ read[c] \in Nat /\ count[c] \in Nat
  BY DEF PositionInv, StateOK
<1>2. Good(t) /\ count[c] <= Budget[c] /\ read[c] <= Len(log) /\ End(t) <= read[c]
      /\ \A i \in DOMAIN t.fork : t.fork[i].by = c
  BY <1>1 DEF ClientOK
<1>3. /\ t.offset \in Nat /\ t.history \in Seq(Entry) /\ t.pen \in BOOLEAN
      /\ t.savepoints \in Seq(Savepoint)
  BY <1>1, TrackerFields
<1> HIDE DEF t
<1>4. read[c] \in 0 .. Len(log) /\ count[c] \in 0 .. Budget[c]
  <2>1. Len(log) \in Nat /\ Budget[c] \in Nat
    BY <1>1, BudgetAssumption
  <2> QED BY <1>1, <1>2, <2>1
<1>5. \A i \in DOMAIN t.history : t.history[i].undo \in {"DONE", "UNDONE", "GONE"}
  <2>1. ASSUME NEW i \in DOMAIN t.history PROVE t.history[i] \in Entry
    BY <1>3
  <2> QED BY <2>1 DEF Entry, UndoState
<1>6. t.savepoints # <<>>
  BY <1>2 DEF Good, Ordered
<1>7. ASSUME NEW i \in DOMAIN t.savepoints
      PROVE  LET at == t.savepoints[i].at IN
             at < End(t) /\ (at >= t.offset \/ (at = -1 /\ t.offset = 0))
  <2>1. 1 \in DOMAIN t.savepoints /\ 1 <= i
    BY <1>3
  <2>2. t.savepoints[1].at <= t.savepoints[i].at
    BY <1>2, <2>1 DEF Good, Ordered
  <2>3. t.savepoints[1].at \in Int /\ t.savepoints[i].at \in Int
    BY <1>2, <2>1, SavepointType DEF Good
  <2>4. t.savepoints[i].at < End(t) /\ -1 <= t.savepoints[i].at
    BY <1>2 DEF Good, Ordered
  <2>5. t.offset = IF t.savepoints[1].at < 0 THEN 0 ELSE t.savepoints[1].at
    BY <1>2 DEF Good, Window
  <2> QED BY <2>2, <2>3, <2>4, <2>5
<1> QED BY <1>2, <1>3, <1>4, <1>5, <1>6, <1>7 DEF t

(* Type correctness: in every session, with any number of clients and any   *)
(* limits, the history of a client is a window of what it received that     *)
(* begins at its first savepoint, and its savepoints lie in the window.     *)
THEOREM TrackerTypeCorrect == Spec => []TypeOK
  BY PositionInvariant, PositionImpliesTypeOK, PTL

LEMMA PositionImpliesBeforeFork == PositionInv => SavepointsBeforeFork
  BY DEF PositionInv, ClientOK, Good, BeforeFork, SavepointsBeforeFork

(* receiveCommand's "should never happen" never does: all savepoints of a   *)
(* client precede its local fork, so that a rollback finds one and the      *)
(* assertion on the fork's offset in revertSavepointAndReplay holds.        *)
THEOREM RollbackFindsSavepoint == Spec => []SavepointsBeforeFork
  BY PositionInvariant, PositionImpliesBeforeFork, PTL

(***************************************************************************)
(* How many messages are in the local fork                                 *)
(***************************************************************************)

(* The drawing commands among a client's messages to the server, ...        *)
Outgoing(s) == {i \in DOMAIN s : s[i].t # "SoftReset"}

(* ... and those it sent before that it does not expect back, or not yet.   *)
Returning(c) ==
  {i \in DOMAIN log : /\ log[i].m.by = c /\ log[i].m.t # "SoftReset"
                      /\ i > read[c] \/ log[i].filtered}

ForkBounded ==
  \A c \in Client :
    Len(tracker[c].fork) <= Cardinality(Outgoing(sent[c])) + Cardinality(Returning(c))

LEMMA OutgoingFinite ==
  ASSUME NEW s \in Seq(Msg)
  PROVE  /\ IsFiniteSet(Outgoing(s)) /\ Cardinality(Outgoing(s)) \in Nat
         /\ Cardinality(Outgoing(s)) <= Len(s)
<1>1. Len(s) \in Nat /\ 1 \in Int /\ Len(s) \in Int
  OBVIOUS
<1>2. IsFiniteSet(1 .. Len(s)) /\ Cardinality(1 .. Len(s)) = IF 1 > Len(s) THEN 0 ELSE Len(s) - 1 + 1
  BY <1>1, FS_Interval
<1>3. Outgoing(s) \in SUBSET (1 .. Len(s))
  BY DEF Outgoing
<1>4. IsFiniteSet(Outgoing(s)) /\ Cardinality(Outgoing(s)) <= Cardinality(1 .. Len(s))
  BY <1>2, <1>3, FS_Subset
<1>5. Cardinality(Outgoing(s)) \in Nat
  BY <1>4, FS_CardinalityType
<1> QED BY <1>1, <1>2, <1>4, <1>5

LEMMA OutgoingAppend ==
  ASSUME NEW s \in Seq(Msg), NEW m \in Msg
  PROVE  Cardinality(Outgoing(Append(s, m)))
           = IF m.t = "SoftReset" THEN Cardinality(Outgoing(s)) ELSE Cardinality(Outgoing(s)) + 1
<1> DEFINE n == Len(s) + 1
<1>1. DOMAIN Append(s, m) = 1 .. n /\ DOMAIN s = 1 .. Len(s) /\ Len(s) \in Nat
      /\ Append(s, m)[n] = m /\ \A i \in 1 .. Len(s) : Append(s, m)[i] = s[i]
  OBVIOUS
<1>2. CASE m.t = "SoftReset"
  <2>1. Outgoing(Append(s, m)) = Outgoing(s)
    BY <1>1, <1>2 DEF Outgoing
  <2> QED BY <1>2, <2>1
<1>3. CASE m.t # "SoftReset"
  <2>1. Outgoing(Append(s, m)) = Outgoing(s) \cup {n}
    BY <1>1, <1>3 DEF Outgoing
  <2>2. n \notin Outgoing(s)
    BY <1>1 DEF Outgoing
  <2> HIDE DEF n
  <2> QED BY <1>3, <2>1, <2>2, OutgoingFinite, FS_AddElement
<1> QED BY <1>2, <1>3

LEMMA OutgoingTail ==
  ASSUME NEW s \in Seq(Msg), s # <<>>
  PROVE  Cardinality(Outgoing(s))
           <= Cardinality(Outgoing(Tail(s))) + IF Head(s).t = "SoftReset" THEN 0 ELSE 1
<1> DEFINE S == Outgoing(s) \ {1}
           T == Outgoing(Tail(s))
           f == [i \in S |-> i - 1]
<1>1. /\ Tail(s) \in Seq(Msg) /\ Len(Tail(s)) = Len(s) - 1
      /\ \A i \in 1 .. Len(Tail(s)) : Tail(s)[i] = s[i + 1]
  BY HeadTailProperties
<1>2. DOMAIN s = 1 .. Len(s) /\ Len(s) \in Nat \ {0} /\ DOMAIN Tail(s) = 1 .. Len(Tail(s))
      /\ Head(s) = s[1]
  BY <1>1
<1>3. ASSUME NEW i \in S PROVE i - 1 \in T /\ i \in Int
  <2>1. i \in 1 .. Len(s) /\ i # 1 /\ s[i].t # "SoftReset"
    BY <1>2 DEF Outgoing
  <2>2. i - 1 \in 1 .. Len(Tail(s)) /\ (i - 1) + 1 = i /\ i \in Int
    BY <1>1, <1>2, <2>1
  <2>3. Tail(s)[i - 1] = s[i]
    BY <1>1, <2>2
  <2> QED BY <1>2, <2>1, <2>2, <2>3 DEF Outgoing
<1>4. f \in Injection(S, T)
  <2>1. f \in [S -> T]
    BY <1>3
  <2>2. \A i, j \in S : f[i] = f[j] => i = j
    BY <1>3
  <2> QED BY <2>1, <2>2 DEF Injection, IsInjective
<1>5. IsFiniteSet(T) /\ Cardinality(T) \in Nat
  BY <1>1, OutgoingFinite
<1>6. IsFiniteSet(Outgoing(s)) /\ Cardinality(Outgoing(s)) \in Nat
  BY OutgoingFinite
<1>7. Cardinality(S) <= Cardinality(T)
  <2> HIDE DEF S, T, f
  <2> QED BY <1>4, <1>5, FS_Injection
<1>8. Cardinality(S) = IF 1 \in Outgoing(s) THEN Cardinality(Outgoing(s)) - 1
                       ELSE Cardinality(Outgoing(s))
  BY <1>6, FS_RemoveElement
<1>9. 1 \in Outgoing(s) <=> Head(s).t # "SoftReset"
  BY <1>2 DEF Outgoing
<1> HIDE DEF S, T
<1> QED BY <1>5, <1>6, <1>7, <1>8, <1>9 DEF T


LEMMA ReturningFinite ==
  ASSUME PositionInv, NEW c \in Client
  PROVE  IsFiniteSet(Returning(c)) /\ Cardinality(Returning(c)) \in Nat
<1>1. log \in Seq(LogEntry)
  BY DEF PositionInv, StateOK
<1>2. Len(log) \in Int /\ 1 \in Int
  BY <1>1
<1>3. IsFiniteSet(1 .. Len(log))
  BY <1>2, FS_Interval
<1>4. Returning(c) \in SUBSET (1 .. Len(log))
  BY <1>1 DEF Returning
<1>5. IsFiniteSet(Returning(c))
  BY <1>3, <1>4, FS_Subset
<1> QED BY <1>5, FS_CardinalityType

LEMMA ForkBoundedInit == Init => ForkBounded
<1> SUFFICES ASSUME Init, NEW c \in Client
             PROVE  Len(tracker[c].fork) <= Cardinality(Outgoing(sent[c])) + Cardinality(Returning(c))
  BY DEF ForkBounded
<1>1. PositionInv
  BY PositionInit
<1>2. tracker[c].fork = <<>> /\ sent[c] \in Seq(Msg)
  BY <1>1, NewTrackerGood DEF Init, PositionInv, StateOK
<1>3. Cardinality(Outgoing(sent[c])) \in Nat /\ Cardinality(Returning(c)) \in Nat
  BY <1>1, <1>2, OutgoingFinite, ReturningFinite
<1> QED BY <1>2, <1>3

LEMMA ForkBoundedSend ==
  ASSUME PositionInv, ForkBounded, NEW c \in Client, SendMessage(c)
  PROVE  ForkBounded'
<1>1. /\ sent \in [Client -> Seq(Msg)] /\ tracker \in [Client -> Tracker]
      /\ \A d \in Client : Good(tracker[d])
  BY DEF PositionInv, StateOK, ClientOK
<1>2. log' = log /\ read' = read
  BY DEF SendMessage
<1>3. \A d \in Client : Returning(d)' = Returning(d)
  BY <1>2 DEF Returning
<1>4. PICK m \in Msg :
           /\ m.by = c
           /\ sent' = [sent EXCEPT ![c] = Append(@, m)]
           /\ \/ m.t = "SoftReset" /\ tracker' = tracker
              \/ /\ m.t # "SoftReset"
                 /\ \E clock : tracker' = [tracker EXCEPT ![c] = LocalCommand(@, m, clock)]
  BY SendMessageIs
<1>5. sent'[c] = Append(sent[c], m) /\ sent[c] \in Seq(Msg)
      /\ \A d \in Client : d # c => sent'[d] = sent[d]
  BY <1>1, <1>4
<1>6. /\ \A d \in Client : d # c => tracker'[d] = tracker[d]
      /\ tracker'[c].fork = IF m.t = "SoftReset" THEN tracker[c].fork ELSE Append(tracker[c].fork, m)
  <2>1. CASE m.t = "SoftReset" /\ tracker' = tracker
    BY <2>1
  <2>2. ASSUME m.t # "SoftReset", NEW clock,
               tracker' = [tracker EXCEPT ![c] = LocalCommand(@, m, clock)]
        PROVE  /\ \A d \in Client : d # c => tracker'[d] = tracker[d]
               /\ tracker'[c].fork = Append(tracker[c].fork, m)
    <3> DEFINE u == LocalCommand(tracker[c], m, clock)
    <3>1. u.fork = Append(tracker[c].fork, m)
      BY <1>1, LocalCommandGood
    <3>2. tracker' = [tracker EXCEPT ![c] = u]
      BY <2>2
    <3> HIDE DEF u
    <3> QED BY <1>1, <3>1, <3>2
  <2> QED BY <1>4, <2>1, <2>2
<1>7. ASSUME NEW d \in Client
      PROVE  Len(tracker'[d].fork) <= Cardinality(Outgoing(sent'[d])) + Cardinality(Returning(d)')
  <2>1. Len(tracker[d].fork) <= Cardinality(Outgoing(sent[d])) + Cardinality(Returning(d))
    BY DEF ForkBounded
  <2>2. /\ Cardinality(Outgoing(sent[d])) \in Nat /\ Cardinality(Returning(d)) \in Nat
        /\ tracker[d].fork \in Seq(Msg)
    BY <1>1, OutgoingFinite, ReturningFinite, TrackerFields
  <2>3. CASE d # c
    BY <1>3, <1>5, <1>6, <2>1, <2>3
  <2>4. CASE d = c /\ m.t = "SoftReset"
    BY <1>3, <1>5, <1>6, <2>1, <2>4, OutgoingAppend
  <2>5. CASE d = c /\ m.t # "SoftReset"
    <3>1. Len(tracker'[c].fork) = Len(tracker[c].fork) + 1 /\ Len(tracker[c].fork) \in Nat
      BY <1>6, <2>2, <2>5
    <3>2. Cardinality(Outgoing(sent'[c])) = Cardinality(Outgoing(sent[c])) + 1
      BY <1>5, <2>5, OutgoingAppend
    <3> QED BY <1>3, <2>1, <2>2, <2>5, <3>1, <3>2
  <2> QED BY <2>3, <2>4, <2>5
<1> QED BY <1>7 DEF ForkBounded

LEMMA ForkBoundedAdd ==
  ASSUME PositionInv, ForkBounded, NEW c \in Client, AddToHistory(c)
  PROVE  ForkBounded'
<1>1. /\ log \in Seq(LogEntry) /\ sent \in [Client -> Seq(Msg)] /\ tracker \in [Client -> Tracker]
      /\ read \in [Client -> Nat] /\ \A d \in Client : read[d] <= Len(log)
  BY DEF PositionInv, StateOK, ClientOK
<1>2. PICK e \in LogEntry :
           /\ sent[c] # <<>> /\ e.m = Head(sent[c]) /\ e.m.by = c
           /\ log' = Append(log, e)
           /\ sent' = [sent EXCEPT ![c] = Tail(@)]
           /\ count' = count /\ read' = read /\ tracker' = tracker
  BY AddToHistoryIs
<1> DEFINE n == Len(log) + 1
<1>3. /\ DOMAIN log' = 1 .. n /\ DOMAIN log = 1 .. Len(log) /\ Len(log) \in Nat
      /\ log'[n] = e /\ \A i \in 1 .. Len(log) : log'[i] = log[i]
  BY <1>1, <1>2
<1>4. ASSUME NEW d \in Client
      PROVE  Cardinality(Returning(d)')
               = Cardinality(Returning(d))
                 + IF d = c /\ e.m.t # "SoftReset" THEN 1 ELSE 0
  <2>1. read'[d] = read[d] /\ read[d] \in Nat /\ n > read[d] /\ n \in Nat
    BY <1>1, <1>2, <1>3
  <2>2. Cardinality(Returning(d)) \in Nat /\ IsFiniteSet(Returning(d))
    BY ReturningFinite
  <2>3. CASE d = c /\ e.m.t # "SoftReset"
    <3>1. Returning(d)' = Returning(d) \cup {n}
      BY <1>2, <1>3, <2>1, <2>3 DEF Returning
    <3>2. n \notin Returning(d)
      BY <1>3 DEF Returning
    <3> HIDE DEF n
    <3> QED BY <2>2, <2>3, <3>1, <3>2, FS_AddElement
  <2>4. CASE ~(d = c /\ e.m.t # "SoftReset")
    <3>1. Returning(d)' = Returning(d)
      BY <1>2, <1>3, <2>1, <2>4 DEF Returning
    <3> QED BY <2>2, <2>4, <3>1
  <2> QED BY <2>3, <2>4
<1>5. ASSUME NEW d \in Client
      PROVE  Len(tracker'[d].fork) <= Cardinality(Outgoing(sent'[d])) + Cardinality(Returning(d)')
  <2>1. Len(tracker[d].fork) <= Cardinality(Outgoing(sent[d])) + Cardinality(Returning(d))
    BY DEF ForkBounded
  <2>2. /\ Cardinality(Outgoing(sent[d])) \in Nat /\ Cardinality(Returning(d)) \in Nat
        /\ tracker[d].fork \in Seq(Msg) /\ sent[d] \in Seq(Msg)
    BY <1>1, OutgoingFinite, ReturningFinite, TrackerFields
  <2>3. CASE d # c
    BY <1>1, <1>2, <1>4, <2>1, <2>2, <2>3
  <2>4. CASE d = c
    <3>1. sent'[c] = Tail(sent[c]) /\ Tail(sent[c]) \in Seq(Msg)
      BY <1>1, <1>2, <2>2, <2>4
    <3>2. Cardinality(Outgoing(sent'[c])) \in Nat
      BY <3>1, OutgoingFinite
    <3>3. Cardinality(Outgoing(sent[c]))
            <= Cardinality(Outgoing(sent'[c])) + IF e.m.t = "SoftReset" THEN 0 ELSE 1
      BY <1>2, <2>2, <2>4, <3>1, OutgoingTail
    <3>4. Len(tracker[c].fork) \in Nat /\ tracker' = tracker
      BY <1>2, <2>2, <2>4
    <3> QED BY <1>4, <2>1, <2>2, <2>4, <3>2, <3>3, <3>4
  <2> QED BY <2>3, <2>4
<1> QED BY <1>5 DEF ForkBounded

LEMMA ForkBoundedReceive ==
  ASSUME PositionInv, ForkBounded, NEW c \in Client, Receive(c)
  PROVE  ForkBounded'
<1>1. /\ log \in Seq(LogEntry) /\ sent \in [Client -> Seq(Msg)] /\ tracker \in [Client -> Tracker]
      /\ read \in [Client -> Nat] /\ \A d \in Client : ClientOK(d)
  BY DEF PositionInv, StateOK
<1>2. PICK clock :
           /\ tracker' = [tracker EXCEPT ![c] = Handled(@, log[read[c] + 1], clock)]
           /\ read' = [read EXCEPT ![c] = @ + 1] /\ read[c] < Len(log)
           /\ log' = log /\ sent' = sent /\ count' = count
  BY ReceiveIs
<1> DEFINE t == tracker[c]
           n == read[c] + 1
           e == log[n]
           u == Handled(t, e, clock)
<1>3. e \in LogEntry /\ n \in DOMAIN log
  BY <1>1, <1>2
<1>4. Good(t) /\ t.fork \in Seq(Msg) /\ \A i \in DOMAIN t.fork : t.fork[i].by = c
  BY <1>1, TrackerFields DEF ClientOK
<1>5. tracker'[c] = u /\ \A d \in Client : d # c => tracker'[d] = tracker[d]
  BY <1>1, <1>2
<1>6. read'[c] = n /\ read[c] \in Nat /\ \A d \in Client : d # c => read'[d] = read[d]
  BY <1>1, <1>2
<1> HIDE DEF e, n, u
<1>7. /\ \/ u.fork = <<>>
         \/ t.fork # <<>> /\ u.fork = Tail(t.fork)
         \/ u.fork = t.fork /\ (e.filtered \/ e.m.t = "SoftReset")
         \/ t.fork # <<>> /\ e.m.by # Head(t.fork).by /\ u.fork = t.fork
  BY <1>3, <1>4, HandledGood DEF u
<1>8. ASSUME NEW d \in Client
      PROVE  Len(tracker'[d].fork) <= Cardinality(Outgoing(sent'[d])) + Cardinality(Returning(d)')
  <2>1. Len(tracker[d].fork) <= Cardinality(Outgoing(sent[d])) + Cardinality(Returning(d))
    BY DEF ForkBounded
  <2>2. /\ Cardinality(Outgoing(sent[d])) \in Nat /\ Cardinality(Returning(d)) \in Nat
        /\ IsFiniteSet(Returning(d))
    BY <1>1, OutgoingFinite, ReturningFinite
  <2>3. CASE d # c
    <3>1. Returning(d)' = Returning(d)
      BY <1>2, <1>6, <2>3 DEF Returning
    <3> QED BY <1>2, <1>5, <2>1, <2>3, <3>1
  <2>4. CASE d = c
    <3>1. Len(t.fork) \in Nat
      BY <1>4
    <3>2. CASE e.filtered \/ e.m.t = "SoftReset" \/ e.m.by # c
      <4>1. Returning(c)' = Returning(c)
        <5>1. \A i \in DOMAIN log : i \in Int /\ (i > read[c] <=> i > n \/ i = n)
          BY <1>1, <1>6 DEF n
        <5>2. \A i \in DOMAIN log : /\ log[i].m.by = c /\ log[i].m.t # "SoftReset" =>
                                         (i > read[c] \/ log[i].filtered
                                            <=> i > n \/ log[i].filtered)
          BY <5>1, <3>2 DEF e
        <5> QED BY <1>2, <1>6, <5>2 DEF Returning
      <4>2. Len(u.fork) <= Len(t.fork)
        <5>1. t.fork # <<>> => Len(Tail(t.fork)) = Len(t.fork) - 1
          BY <1>4, HeadTailProperties
        <5>2. CASE u.fork = <<>>
          <6>1. Len(u.fork) = 0
            BY <5>2
          <6> QED BY <3>1, <6>1
        <5>3. CASE t.fork # <<>> /\ u.fork = Tail(t.fork)
          BY <3>1, <5>1, <5>3
        <5>4. CASE u.fork = t.fork
          BY <3>1, <5>4
        <5> QED BY <1>7, <5>2, <5>3, <5>4
      <4>3. Len(u.fork) \in Nat
        <5>1. t.fork # <<>> => Tail(t.fork) \in Seq(Msg)
          BY <1>4
        <5> QED BY <1>4, <1>7, <5>1
      <4> QED BY <1>2, <1>5, <2>1, <2>2, <2>4, <3>1, <4>1, <4>2, <4>3
    <3>3. CASE ~(e.filtered \/ e.m.t = "SoftReset" \/ e.m.by # c)
      <4>1. n \in Returning(c)
        BY <1>3, <1>6, <3>3 DEF Returning, e, n
      <4>2. Returning(c)' = Returning(c) \ {n}
        <5>1. \A i \in DOMAIN log : i \in Int /\ (i > read[c] <=> i > n \/ i = n)
          BY <1>1, <1>6 DEF n
        <5>2. n \in Int /\ ~(n > n) /\ ~log[n].filtered
          BY <1>6, <3>3 DEF n, e
        <5> QED BY <1>2, <1>6, <5>1, <5>2 DEF Returning
      <4>3. Cardinality(Returning(c)') = Cardinality(Returning(c)) - 1
        BY <2>2, <2>4, <4>1, <4>2, FS_RemoveElement
      <4>4. PositionInv'
        BY PositionReceive
      <4>5. Cardinality(Returning(c)') \in Nat
        BY <2>2, <2>4, <4>2, FS_RemoveElement, FS_CardinalityType
      <4>6. CASE u.fork = <<>>
        BY <1>2, <1>5, <2>2, <2>4, <4>5, <4>6
      <4>7. CASE t.fork # <<>> /\ u.fork = Tail(t.fork)
        <5>1. Len(u.fork) = Len(t.fork) - 1
          BY <1>4, <4>7, HeadTailProperties
        <5> QED BY <1>2, <1>5, <2>1, <2>2, <2>4, <3>1, <4>3, <5>1
      <4>8. ~(t.fork # <<>> /\ e.m.by # Head(t.fork).by)
        <5>1. t.fork # <<>> => 1 \in DOMAIN t.fork /\ Head(t.fork) = t.fork[1]
          BY <1>4
        <5> QED BY <1>4, <3>3, <5>1
      <4> QED BY <1>7, <3>3, <4>6, <4>7, <4>8
    <3> QED BY <3>2, <3>3
  <2> QED BY <2>3, <2>4
<1> QED BY <1>8 DEF ForkBounded

LEMMA ForkBoundedNext == PositionInv /\ ForkBounded /\ [Next]_vars => ForkBounded'
<1> SUFFICES ASSUME PositionInv, ForkBounded, [Next]_vars PROVE ForkBounded'
  OBVIOUS
<1>1. CASE UNCHANGED vars
  <2>1. log' = log /\ sent' = sent /\ read' = read /\ tracker' = tracker
    BY <1>1 DEF vars
  <2> QED BY <2>1 DEF ForkBounded, Returning
<1>2. ASSUME NEW c \in Client, SendMessage(c) PROVE ForkBounded'
  BY <1>2, ForkBoundedSend
<1>3. ASSUME NEW c \in Client, SetLocalDrawingInProgress(c) PROVE ForkBounded'
  <2>1. /\ tracker' = [tracker EXCEPT ![c].pen = ~@]
        /\ log' = log /\ sent' = sent /\ read' = read
    BY <1>3 DEF SetLocalDrawingInProgress
  <2>2. tracker \in [Client -> Tracker]
    BY DEF PositionInv, StateOK
  <2>3. \A d \in Client : tracker'[d].fork = tracker[d].fork
    BY <2>1, <2>2 DEF Tracker
  <2>4. \A d \in Client : Returning(d)' = Returning(d)
    BY <2>1 DEF Returning
  <2> QED BY <2>1, <2>3, <2>4 DEF ForkBounded
<1>4. ASSUME NEW c \in Client, AddToHistory(c) PROVE ForkBounded'
  BY <1>4, ForkBoundedAdd
<1>5. ASSUME NEW c \in Client, Receive(c) PROVE ForkBounded'
  BY <1>5, ForkBoundedReceive
<1> QED BY <1>1, <1>2, <1>3, <1>4, <1>5 DEF Next

LEMMA ForkBoundedImplies == PositionInv /\ ForkBounded => ForkInFlight
<1> SUFFICES ASSUME PositionInv, ForkBounded, NEW c \in Client
             PROVE  Len(tracker[c].fork) <= Len(sent[c])
                      + Cardinality({i \in DOMAIN log :
                          log[i].m.by = c /\ (i > read[c] \/ log[i].filtered)})
  BY DEF ForkInFlight
<1> DEFINE R == {i \in DOMAIN log : log[i].m.by = c /\ (i > read[c] \/ log[i].filtered)}
<1>1. log \in Seq(LogEntry) /\ sent[c] \in Seq(Msg) /\ tracker[c] \in Tracker
  BY DEF PositionInv, StateOK
<1>2. IsFiniteSet(R)
  <2>1. Len(log) \in Int /\ 1 \in Int
    BY <1>1
  <2>2. IsFiniteSet(1 .. Len(log))
    BY <2>1, FS_Interval
  <2>3. R \in SUBSET (1 .. Len(log))
    BY <1>1
  <2> HIDE DEF R
  <2> QED BY <2>2, <2>3, FS_Subset
<1>3. Returning(c) \in SUBSET R
  BY DEF Returning
<1> HIDE DEF R
<1>4. Cardinality(Returning(c)) <= Cardinality(R) /\ Cardinality(R) \in Nat
  BY <1>2, <1>3, FS_Subset, FS_CardinalityType
<1>5. Cardinality(Returning(c)) \in Nat
  BY ReturningFinite
<1>6. Cardinality(Outgoing(sent[c])) <= Len(sent[c]) /\ Cardinality(Outgoing(sent[c])) \in Nat
  BY <1>1, OutgoingFinite
<1>7. Len(tracker[c].fork) \in Nat /\ Len(sent[c]) \in Nat
  BY <1>1, TrackerFields
<1>8. Len(tracker[c].fork) <= Cardinality(Outgoing(sent[c])) + Cardinality(Returning(c))
  BY DEF ForkBounded
<1> QED BY <1>4, <1>5, <1>6, <1>7, <1>8 DEF R

(* The local fork never holds more messages than are on their way or were   *)
(* filtered out, whatever was rolled back, filtered or answered late: once  *)
(* all have returned, savepoints can be made again.                         *)
THEOREM ForkDrains == Spec => []ForkInFlight
<1>1. Init => PositionInv /\ ForkBounded
  BY PositionInit, ForkBoundedInit
<1>2. PositionInv /\ ForkBounded /\ [Next]_vars => (PositionInv /\ ForkBounded)'
  BY PositionNext, ForkBoundedNext
<1>3. PositionInv /\ ForkBounded => ForkInFlight
  BY ForkBoundedImplies
<1> QED BY <1>1, <1>2, <1>3, PTL DEF Spec

=============================================================================
