---------------------------- MODULE CanvasProofs ----------------------------
(***************************************************************************)
(* What the clients of a session show, proved for every session: that      *)
(* every savepoint leads back to the canvas, and that without undo the     *)
(* canvas of every client is the one that the log paints.                  *)
(***************************************************************************)
EXTENDS StateTrackerProofs

(***************************************************************************)
(* Painting a run of commands                                              *)
(***************************************************************************)
LEMMA InductionUpto ==
  ASSUME NEW n \in Nat, NEW T, 0 \in T, \A i \in 1 .. n : i - 1 \in T => i \in T
  PROVE  n \in T
<1> DEFINE U == {i \in Nat : i <= n => i \in T}
<1>1. U \in SUBSET Nat /\ 0 \in U
  OBVIOUS
<1>2. ASSUME NEW i \in U PROVE i + 1 \in U
  <2>1. i \in Nat /\ i + 1 \in Nat /\ i + 1 - 1 = i
    OBVIOUS
  <2>2. i + 1 <= n => i + 1 \in 1 .. n /\ i \in T
    BY <2>1
  <2> QED BY <2>1, <2>2
<1>3. U = Nat
  <2> HIDE DEF U
  <2> QED BY <1>1, <1>2, Induction
<1> QED BY <1>3

LEMMA PaintAllSteps ==
  ASSUME NEW S, NEW v, NEW s \in Seq(S)
  PROVE  \E f : /\ f[0] = v
                /\ \A i \in 1 .. Len(s) : f[i] = Paint(f[i - 1], s[i])
                /\ PaintAll(v, s) = f[Len(s)]
<1>1. PICK f : IsPainting(f, v, s) /\ PaintAll(v, s) = f[Len(s)]
  BY PaintAllIs
<1>2. Len(s) \in Nat
  OBVIOUS
<1>3. \A i \in 0 .. Len(s) : f[i] = IF i = 0 THEN v ELSE Paint(f[i - 1], s[i])
  BY <1>1 DEF IsPainting
<1>4. f[0] = v
  BY <1>2, <1>3
<1>5. ASSUME NEW i \in 1 .. Len(s) PROVE f[i] = Paint(f[i - 1], s[i])
  <2>1. i \in 0 .. Len(s) /\ i # 0
    BY <1>2
  <2> QED BY <2>1, <1>3
<1> QED BY <1>1, <1>4, <1>5

LEMMA PaintNone ==
  ASSUME NEW v PROVE PaintAll(v, <<>>) = v
<1>1. PICK s \in Seq(Msg) : s = <<>>
  <2>1. <<>> \in Seq(Msg)
    OBVIOUS
  <2> QED BY <2>1
<1>2. PICK f : f[0] = v /\ PaintAll(v, s) = f[Len(s)]
  BY PaintAllSteps
<1>3. Len(s) = 0
  BY <1>1
<1> QED BY <1>1, <1>2, <1>3

(* The last of a run of commands is painted last.                           *)
LEMMA PaintFront ==
  ASSUME NEW S, NEW v, NEW s \in Seq(S), NEW r \in Seq(S),
         Len(s) = Len(r) + 1, \A i \in 1 .. Len(r) : s[i] = r[i]
  PROVE  PaintAll(v, s) = Paint(PaintAll(v, r), s[Len(s)])
<1>1. PICK f : /\ f[0] = v
               /\ \A i \in 1 .. Len(s) : f[i] = Paint(f[i - 1], s[i])
               /\ PaintAll(v, s) = f[Len(s)]
  BY PaintAllSteps
<1>2. PICK g : /\ g[0] = v
               /\ \A i \in 1 .. Len(r) : g[i] = Paint(g[i - 1], r[i])
               /\ PaintAll(v, r) = g[Len(r)]
  BY PaintAllSteps, SMTT(40)
<1>3. Len(r) \in Nat
  OBVIOUS
<1> DEFINE T == {i \in Nat : f[i] = g[i]}
<1>4. 0 \in T
  BY <1>1, <1>2
<1>5. ASSUME NEW i \in 1 .. Len(r), i - 1 \in T PROVE i \in T
  <2>1. i \in Nat /\ i \in 1 .. Len(s)
    BY <1>3
  <2>2. f[i] = Paint(f[i - 1], s[i]) /\ g[i] = Paint(g[i - 1], r[i])
    BY <1>1, <1>2, <2>1
  <2> QED BY <1>5, <2>1, <2>2
<1>6. Len(r) \in T
  <2> HIDE DEF T
  <2> QED BY <1>3, <1>4, <1>5, InductionUpto
<1>7. Len(s) \in 1 .. Len(s) /\ Len(s) - 1 = Len(r)
  BY <1>3
<1>8. f[Len(s)] = Paint(f[Len(r)], s[Len(s)])
  BY <1>1, <1>7
<1> QED BY <1>1, <1>2, <1>6, <1>8

LEMMA PaintAppend ==
  ASSUME NEW v, NEW s \in Seq(Msg), NEW m \in Msg
  PROVE  PaintAll(v, Append(s, m)) = Paint(PaintAll(v, s), m)
<1> DEFINE a == Append(s, m)
<1>1. /\ a \in Seq(Msg) /\ Len(a) = Len(s) + 1 /\ a[Len(a)] = m
      /\ \A i \in 1 .. Len(s) : a[i] = s[i]
  OBVIOUS
<1> HIDE DEF a
<1>2. PaintAll(v, a) = Paint(PaintAll(v, s), a[Len(a)])
  BY <1>1, PaintFront
<1> QED BY <1>1, <1>2 DEF a

(* The first of a run of commands is painted first.                         *)
LEMMA PaintHead ==
  ASSUME NEW v, NEW s \in Seq(Msg), s # <<>>
  PROVE  PaintAll(v, s) = PaintAll(Paint(v, Head(s)), Tail(s))
<1> DEFINE r == Tail(s)
<1>1. /\ r \in Seq(Msg) /\ Len(r) \in Nat /\ Len(s) = Len(r) + 1 /\ Head(s) = s[1]
      /\ \A i \in 1 .. Len(r) : r[i] = s[i + 1]
  BY HeadTailProperties
<1> HIDE DEF r
<1>2. PICK f : /\ f[0] = v
               /\ \A i \in 1 .. Len(s) : f[i] = Paint(f[i - 1], s[i])
               /\ PaintAll(v, s) = f[Len(s)]
  BY PaintAllSteps
<1>3. PICK g : /\ g[0] = Paint(v, s[1])
               /\ \A i \in 1 .. Len(r) : g[i] = Paint(g[i - 1], r[i])
               /\ PaintAll(Paint(v, s[1]), r) = g[Len(r)]
  BY <1>1, PaintAllSteps
<1> DEFINE T == {i \in Nat : f[i + 1] = g[i]}
<1>4. 0 \in T
  <2>1. 1 \in 1 .. Len(s) /\ 1 - 1 = 0 /\ 0 + 1 = 1
    BY <1>1
  <2>2. f[1] = Paint(f[1 - 1], s[1])
    BY <1>2, <2>1
  <2> QED BY <2>1, <2>2, <1>2, <1>3
<1>5. ASSUME NEW i \in 1 .. Len(r), i - 1 \in T PROVE i \in T
  <2>1. i \in Nat /\ i + 1 \in 1 .. Len(s) /\ i + 1 - 1 = i /\ i - 1 + 1 = i
    BY <1>1
  <2>2. f[i + 1] = Paint(f[i], s[i + 1]) /\ g[i] = Paint(g[i - 1], s[i + 1])
    BY <1>1, <1>2, <1>3, <2>1
  <2>3. f[i] = g[i - 1]
    BY <1>5, <2>1
  <2> QED BY <2>1, <2>2, <2>3
<1>6. Len(r) \in T
  <2> HIDE DEF T
  <2> QED BY <1>1, <1>4, <1>5, InductionUpto
<1> QED BY <1>1, <1>2, <1>3, <1>6 DEF r

(* What paints nothing.                                                     *)
Silent(m) == m.t \notin {"Draw", "Resize"}

LEMMA PaintSilent ==
  ASSUME NEW v \in Canvas, NEW m, Silent(m)
  PROVE  Paint(v, m) = v
  BY DEF Paint, Silent, Canvas

(* Concurrent commands commute.                                             *)
LEMMA PaintCommutes ==
  ASSUME NEW v \in Canvas, NEW m \in Msg, NEW k \in Msg, IsConcurrentWith(m, k)
  PROVE  Paint(Paint(v, m), k) = Paint(Paint(v, k), m)
<1>1. m.t # "Resize" /\ k.t # "Resize" /\ (m.t = "Draw" /\ k.t = "Draw" => m.on # k.on)
  BY DEF IsConcurrentWith, Everything
<1>2. \A x \in Spot : Paint(Paint(v, m), k)[x] = Paint(Paint(v, k), m)[x]
  BY <1>1 DEF Paint
<1>3. Paint(Paint(v, m), k) \in Canvas /\ Paint(Paint(v, k), m) \in Canvas
  BY PaintType
<1> QED BY <1>2, <1>3 DEF Canvas

LEMMA PaintForkCommutes ==
  ASSUME NEW v \in Canvas, NEW m \in Msg, NEW s \in Seq(Msg),
         \A i \in DOMAIN s : IsConcurrentWith(m, s[i])
  PROVE  PaintAll(Paint(v, m), s) = Paint(PaintAll(v, s), m)
<1>1. Len(s) \in Nat /\ DOMAIN s = 1 .. Len(s) /\ \A i \in 1 .. Len(s) : s[i] \in Msg
  OBVIOUS
<1>2. PICK f : /\ f[0] = v
               /\ \A i \in 1 .. Len(s) : f[i] = Paint(f[i - 1], s[i])
               /\ PaintAll(v, s) = f[Len(s)]
  BY PaintAllSteps
<1>3. PICK g : /\ g[0] = Paint(v, m)
               /\ \A i \in 1 .. Len(s) : g[i] = Paint(g[i - 1], s[i])
               /\ PaintAll(Paint(v, m), s) = g[Len(s)]
  BY PaintAllSteps
<1> DEFINE T == {i \in Nat : f[i] \in Canvas /\ g[i] = Paint(f[i], m)}
<1>4. 0 \in T
  BY <1>2, <1>3
<1>5. ASSUME NEW i \in 1 .. Len(s), i - 1 \in T PROVE i \in T
  <2>1. i \in Nat /\ s[i] \in Msg /\ IsConcurrentWith(m, s[i])
    BY <1>1
  <2>2. f[i - 1] \in Canvas /\ g[i - 1] = Paint(f[i - 1], m)
    BY <1>5
  <2>3. f[i] = Paint(f[i - 1], s[i]) /\ g[i] = Paint(Paint(f[i - 1], m), s[i])
    BY <1>2, <1>3, <2>2
  <2>4. f[i] \in Canvas
    BY <2>1, <2>2, <2>3, PaintType
  <2>5. g[i] = Paint(Paint(f[i - 1], s[i]), m)
    BY <2>1, <2>2, <2>3, PaintCommutes
  <2> QED BY <2>1, <2>3, <2>4, <2>5
<1>6. Len(s) \in T
  <2> HIDE DEF T
  <2> QED BY <1>1, <1>4, <1>5, InductionUpto
<1> QED BY <1>2, <1>3, <1>6

(***************************************************************************)
(* Painting a stretch of a history                                         *)
(***************************************************************************)

(* What an entry of the history leaves on the canvas.                       *)
Effect(v, e) == IF e.undo = "DONE" THEN Paint(v, e.m) ELSE v

(* The canvas v, painted with the commands after one index up to another.   *)
Upon(t, v, after, to) == PaintAll(v, Painted(t, after, to))

(* Indices between which the history is known.                              *)
Stretch(t, after, to) ==
  after \in Int /\ to \in Int /\ t.offset <= after + 1 /\ after <= to /\ to < End(t)

LEMMA StretchValid ==
  ASSUME NEW t \in Tracker, NEW after, NEW to, Stretch(t, after, to),
         NEW i \in after + 1 .. to
  PROVE  i \in Valid(t) /\ Stretch(t, after, i) /\ Stretch(t, after, i - 1)
  BY HistoryType, TrackerFields DEF Stretch

LEMMA PaintedType ==
  ASSUME NEW t \in Tracker, NEW after, NEW to, Stretch(t, after, to)
  PROVE  LET s == Painted(t, after, to) IN
         /\ s \in Seq(Msg \cup {Nothing}) /\ Len(s) = to - after
         /\ \A k \in 1 .. to - after :
              s[k] = IF At(t, after + k).undo = "DONE" THEN At(t, after + k).m ELSE Nothing
<1>1. after \in Int /\ to \in Int /\ to - after \in Nat
  BY DEF Stretch
<1> DEFINE M(k) == IF At(t, after + k).undo = "DONE" THEN At(t, after + k).m ELSE Nothing
<1>2. ASSUME NEW k \in 1 .. to - after PROVE M(k) \in Msg \cup {Nothing}
  <2>1. after + k \in after + 1 .. to
    BY <1>1
  <2>2. At(t, after + k).m \in Msg
    BY <2>1, StretchValid, AtType
  <2> QED BY <2>2
<1> HIDE DEF M
<1>3. Painted(t, after, to) = [k \in 1 .. to - after |-> M(k)]
  BY DEF Painted, M
<1> QED BY <1>1, <1>2, <1>3 DEF M

LEMMA UponType ==
  ASSUME NEW t \in Tracker, NEW v \in Canvas, NEW after, NEW to, Stretch(t, after, to)
  PROVE  Upon(t, v, after, to) \in Canvas
  BY PaintedType, PaintAllType DEF Upon

LEMMA UponNothing ==
  ASSUME NEW t \in Tracker, NEW v, NEW a \in Int
  PROVE  Upon(t, v, a, a) = v
<1>1. Painted(t, a, a) = <<>>
  BY DEF Painted
<1> QED BY <1>1, PaintNone DEF Upon

LEMMA UponStep ==
  ASSUME NEW t \in Tracker, NEW v \in Canvas, NEW a, NEW i,
         Stretch(t, a, i), a < i
  PROVE  /\ Upon(t, v, a, i - 1) \in Canvas
         /\ Upon(t, v, a, i) = Effect(Upon(t, v, a, i - 1), At(t, i))
<1> DEFINE s == Painted(t, a, i)
           r == Painted(t, a, i - 1)
           M == Msg \cup {Nothing}
<1>1. a \in Int /\ i \in Int /\ i - a \in Nat /\ i \in a + 1 .. i
  BY DEF Stretch
<1>2. Stretch(t, a, i - 1)
  BY <1>1, StretchValid
<1>3. /\ s \in Seq(M) /\ Len(s) = i - a
      /\ \A k \in 1 .. i - a : s[k] = IF At(t, a + k).undo = "DONE" THEN At(t, a + k).m ELSE Nothing
  BY PaintedType
<1>4. /\ r \in Seq(M) /\ Len(r) = i - 1 - a
      /\ \A k \in 1 .. i - 1 - a : r[k] = IF At(t, a + k).undo = "DONE" THEN At(t, a + k).m ELSE Nothing
  BY <1>2, PaintedType
<1>5. Upon(t, v, a, i - 1) \in Canvas
  BY <1>2, UponType
<1> HIDE DEF s, r, M
<1>6. Len(s) = Len(r) + 1 /\ \A k \in 1 .. Len(r) : s[k] = r[k]
  BY <1>1, <1>3, <1>4
<1>7. PaintAll(v, s) = Paint(PaintAll(v, r), s[Len(s)])
  BY <1>3, <1>4, <1>6, PaintFront
<1>8. s[Len(s)] = IF At(t, i).undo = "DONE" THEN At(t, i).m ELSE Nothing
  <2>1. i - a \in 1 .. i - a /\ a + (i - a) = i
    BY <1>1, <1>3, <1>4, <1>6
  <2> QED BY <1>3, <2>1
<1>9. CASE At(t, i).undo = "DONE"
  BY <1>5, <1>7, <1>8, <1>9 DEF Upon, Effect, s, r
<1>10. CASE At(t, i).undo # "DONE"
  <2>1. Silent(Nothing)
    BY DEF Silent, Nothing
  <2>2. Paint(Upon(t, v, a, i - 1), Nothing) = Upon(t, v, a, i - 1)
    BY <1>5, <2>1, PaintSilent
  <2> QED BY <1>5, <1>7, <1>8, <1>10, <2>2 DEF Upon, Effect, s, r
<1> QED BY <1>5, <1>9, <1>10

(* Entries that leave the same on every canvas.                             *)
Alike(d, e) ==
  \/ d.m = e.m /\ (d.undo = "DONE" <=> e.undo = "DONE")
  \/ (d.undo = "DONE" => Silent(d.m)) /\ (e.undo = "DONE" => Silent(e.m))

LEMMA AlikeEffect ==
  ASSUME NEW v \in Canvas, NEW d, NEW e, Alike(d, e)
  PROVE  Effect(v, d) = Effect(v, e)
  BY PaintSilent DEF Alike, Effect

(* Histories that are alike paint alike.                                    *)
LEMMA UponAlike ==
  ASSUME NEW t \in Tracker, NEW u \in Tracker, NEW v \in Canvas, NEW a, NEW i,
         Stretch(t, a, i), Stretch(u, a, i),
         \A k \in a + 1 .. i : Alike(At(t, k), At(u, k))
  PROVE  Upon(t, v, a, i) = Upon(u, v, a, i)
<1>1. a \in Int /\ i \in Int /\ i - a \in Nat
  BY DEF Stretch
<1> DEFINE T == {k \in Nat : Upon(t, v, a, a + k) = Upon(u, v, a, a + k)}
<1>2. 0 \in T
  <2>1. a + 0 = a
    BY <1>1
  <2>2. Upon(t, v, a, a) = v /\ Upon(u, v, a, a) = v
    BY <1>1, UponNothing
  <2> QED BY <2>1, <2>2
<1>3. ASSUME NEW k \in 1 .. i - a, k - 1 \in T PROVE k \in T
  <2> DEFINE j == a + k
  <2>1. k \in Nat /\ j \in a + 1 .. i /\ a + (k - 1) = j - 1 /\ a < j
    BY <1>1
  <2> HIDE DEF j
  <2>2. Stretch(t, a, j) /\ Stretch(u, a, j)
    BY <2>1, StretchValid
  <2>3. /\ Upon(t, v, a, j) = Effect(Upon(t, v, a, j - 1), At(t, j))
        /\ Upon(u, v, a, j) = Effect(Upon(u, v, a, j - 1), At(u, j))
        /\ Upon(t, v, a, j - 1) \in Canvas
    BY <2>1, <2>2, UponStep
  <2>4. Upon(t, v, a, j - 1) = Upon(u, v, a, j - 1)
    BY <1>3, <2>1
  <2>5. Alike(At(t, j), At(u, j))
    BY <2>1
  <2>6. Upon(t, v, a, j) = Upon(u, v, a, j)
    BY <2>3, <2>4, <2>5, AlikeEffect
  <2> QED BY <2>1, <2>6 DEF j
<1>4. i - a \in T
  <2> HIDE DEF T
  <2> QED BY <1>1, <1>2, <1>3, InductionUpto
<1>5. a + (i - a) = i
  BY <1>1
<1> QED BY <1>4, <1>5


(***************************************************************************)
(* What savepoints lead to                                                 *)
(***************************************************************************)

(* Replaying from each savepoint leads to each later one ...                *)
Chain(t) ==
  \A j, k \in DOMAIN t.savepoints : j <= k =>
    t.savepoints[k].canvas
      = Upon(t, t.savepoints[j].canvas, t.savepoints[j].at, t.savepoints[k].at)

(* ... and, up to an index, to the canvas v.                                *)
Leads(t, v, pos) ==
  /\ v \in Canvas /\ pos \in Int /\ pos < End(t) /\ SavedBy(t, pos)
  /\ \A j \in DOMAIN t.savepoints :
       v = Upon(t, t.savepoints[j].canvas, t.savepoints[j].at, pos)

(* The client shows b and its local fork, and every savepoint leads to b.   *)
Shows(t, b) == Leads(t, b, End(t) - 1) /\ t.canvas = PaintAll(b, t.fork)

(* The history is known after every savepoint.                              *)
LEMMA SavepointStretch ==
  ASSUME NEW t, Good(t), NEW j \in DOMAIN t.savepoints, NEW i \in Int,
         t.savepoints[j].at <= i, i < End(t)
  PROVE  Stretch(t, t.savepoints[j].at, i)
<1>1. t \in Tracker /\ Ordered(t) /\ Window(t)
  BY DEF Good
<1>2. t.savepoints \in Seq(Savepoint) /\ t.offset \in Nat
  BY <1>1, TrackerFields
<1>3. DOMAIN t.savepoints = 1 .. Len(t.savepoints) /\ Len(t.savepoints) \in Nat
  BY <1>2
<1>4. 1 \in DOMAIN t.savepoints /\ 1 <= j
  BY <1>3
<1>5. t.savepoints[1].at \in Int /\ t.savepoints[j].at \in Int
  BY <1>1, <1>4, SavepointType
<1>6. t.savepoints[1].at <= t.savepoints[j].at /\ -1 <= t.savepoints[j].at
  BY <1>1, <1>4 DEF Ordered
<1>7. t.offset <= t.savepoints[j].at + 1
  BY <1>1, <1>2, <1>5, <1>6 DEF Window
<1> QED BY <1>5, <1>7 DEF Stretch

(* Savepoints of u that t has too, d later, lead to what they led to.       *)
Shifted(t, u, d) ==
  d \in Int /\ \A j \in DOMAIN u.savepoints :
                  j + d \in DOMAIN t.savepoints /\ u.savepoints[j] = t.savepoints[j + d]

(* The entries of two histories are alike up to an index.                   *)
AlikeUpto(t, u, pos) ==
  \A i \in Valid(u) : i <= pos => i \in Valid(t) /\ Alike(At(t, i), At(u, i))

LEMMA SavepointAlike ==
  ASSUME NEW t, Good(t), NEW u, Good(u), NEW j \in DOMAIN u.savepoints,
         NEW k \in DOMAIN t.savepoints, u.savepoints[j] = t.savepoints[k],
         NEW pos \in Int, u.savepoints[j].at <= pos, pos < End(t), pos < End(u),
         AlikeUpto(t, u, pos)
  PROVE  Upon(u, u.savepoints[j].canvas, u.savepoints[j].at, pos)
           = Upon(t, t.savepoints[k].canvas, t.savepoints[k].at, pos)
<1> DEFINE a == u.savepoints[j].at
           v == u.savepoints[j].canvas
<1>1. t \in Tracker /\ u \in Tracker
  BY DEF Good
<1>2. a \in Int /\ v \in Canvas
  BY <1>1, SavepointType
<1>3. Stretch(u, a, pos)
  BY SavepointStretch
<1>4. Stretch(t, a, pos)
  BY SavepointStretch
<1>5. ASSUME NEW i \in a + 1 .. pos PROVE Alike(At(t, i), At(u, i))
  <2>1. i \in Valid(u) /\ i <= pos
    BY <1>1, <1>2, <1>3, <1>5, StretchValid
  <2> QED BY <2>1 DEF AlikeUpto
<1> HIDE DEF a, v
<1>6. Upon(t, v, a, pos) = Upon(u, v, a, pos)
  BY <1>1, <1>2, <1>3, <1>4, <1>5, UponAlike
<1> QED BY <1>6 DEF a, v

LEMMA ChainFrame ==
  ASSUME NEW t, Good(t), Chain(t), NEW u, Good(u), NEW d, Shifted(t, u, d),
         \A k \in DOMAIN u.savepoints : AlikeUpto(t, u, u.savepoints[k].at)
  PROVE  Chain(u)
<1> SUFFICES ASSUME NEW j \in DOMAIN u.savepoints, NEW k \in DOMAIN u.savepoints, j <= k
             PROVE  u.savepoints[k].canvas
                      = Upon(u, u.savepoints[j].canvas, u.savepoints[j].at, u.savepoints[k].at)
  BY DEF Chain
<1>1. t \in Tracker /\ u \in Tracker /\ Ordered(t) /\ Ordered(u)
  BY DEF Good
<1>2. /\ d \in Int /\ j + d \in DOMAIN t.savepoints /\ k + d \in DOMAIN t.savepoints
      /\ u.savepoints[j] = t.savepoints[j + d] /\ u.savepoints[k] = t.savepoints[k + d]
  BY DEF Shifted
<1>3. j \in Int /\ k \in Int /\ j + d <= k + d
  <2>1. u.savepoints \in Seq(Savepoint)
    BY <1>1, TrackerFields
  <2> QED BY <1>2, <2>1
<1> DEFINE pos == u.savepoints[k].at
<1>4. pos \in Int /\ pos < End(u) /\ pos < End(t) /\ u.savepoints[j].at <= pos
  BY <1>1, <1>2, SavepointType DEF Ordered
<1>5. AlikeUpto(t, u, pos)
  OBVIOUS
<1> HIDE DEF pos
<1>6. Upon(u, u.savepoints[j].canvas, u.savepoints[j].at, pos)
        = Upon(t, t.savepoints[j + d].canvas, t.savepoints[j + d].at, pos)
  BY <1>2, <1>4, <1>5, SavepointAlike
<1>7. t.savepoints[k + d].canvas
        = Upon(t, t.savepoints[j + d].canvas, t.savepoints[j + d].at, t.savepoints[k + d].at)
  BY <1>2, <1>3 DEF Chain
<1> QED BY <1>2, <1>6, <1>7 DEF pos

LEMMA LeadsFrame ==
  ASSUME NEW t, Good(t), NEW v, NEW pos, Leads(t, v, pos), NEW u, Good(u), NEW d,
         Shifted(t, u, d), pos < End(u), AlikeUpto(t, u, pos)
  PROVE  Leads(u, v, pos)
<1>1. v \in Canvas /\ pos \in Int /\ pos < End(t) /\ SavedBy(t, pos)
  BY DEF Leads
<1>2. ASSUME NEW j \in DOMAIN u.savepoints
      PROVE  /\ u.savepoints[j].at <= pos
             /\ v = Upon(u, u.savepoints[j].canvas, u.savepoints[j].at, pos)
  <2>1. j + d \in DOMAIN t.savepoints /\ u.savepoints[j] = t.savepoints[j + d]
    BY DEF Shifted
  <2>2. u.savepoints[j].at <= pos
    BY <1>1, <2>1 DEF SavedBy
  <2>3. v = Upon(t, t.savepoints[j + d].canvas, t.savepoints[j + d].at, pos)
    BY <2>1 DEF Leads
  <2>4. Upon(u, u.savepoints[j].canvas, u.savepoints[j].at, pos)
          = Upon(t, t.savepoints[j + d].canvas, t.savepoints[j + d].at, pos)
    BY <1>1, <2>1, <2>2, SavepointAlike
  <2> QED BY <2>2, <2>3, <2>4
<1> QED BY <1>1, <1>2 DEF Leads, SavedBy

(* One more entry of the history.                                           *)
LEMMA LeadsStep ==
  ASSUME NEW t, Good(t), NEW v, NEW i \in Int, Leads(t, v, i - 1), i < End(t)
  PROVE  Leads(t, Effect(v, At(t, i)), i) /\ i \in Valid(t)
<1>1. t \in Tracker /\ Ordered(t) /\ v \in Canvas /\ SavedBy(t, i - 1)
  BY DEF Good, Leads
<1>2. ASSUME NEW j \in DOMAIN t.savepoints
      PROVE  /\ t.savepoints[j].at < i /\ Stretch(t, t.savepoints[j].at, i)
             /\ t.savepoints[j].canvas \in Canvas
  <2>1. t.savepoints[j].at \in Int /\ t.savepoints[j].canvas \in Canvas
    BY <1>1, SavepointType
  <2>2. t.savepoints[j].at <= i - 1
    BY <1>1 DEF SavedBy
  <2>3. t.savepoints[j].at < i /\ t.savepoints[j].at <= i
    BY <2>1, <2>2
  <2> QED BY <2>1, <2>3, SavepointStretch
<1>3. ASSUME NEW j \in DOMAIN t.savepoints
      PROVE  Effect(v, At(t, i)) = Upon(t, t.savepoints[j].canvas, t.savepoints[j].at, i)
  <2>1. Upon(t, t.savepoints[j].canvas, t.savepoints[j].at, i)
          = Effect(Upon(t, t.savepoints[j].canvas, t.savepoints[j].at, i - 1), At(t, i))
    BY <1>1, <1>2, UponStep
  <2>2. v = Upon(t, t.savepoints[j].canvas, t.savepoints[j].at, i - 1)
    BY DEF Leads
  <2> QED BY <2>1, <2>2
<1>4. PICK j \in DOMAIN t.savepoints : TRUE
  <2>1. t.savepoints \in Seq(Savepoint) /\ t.savepoints # <<>>
    BY <1>1, TrackerFields DEF Ordered
  <2>2. 1 \in DOMAIN t.savepoints
    BY <2>1
  <2> QED BY <2>2
<1>5. i \in Valid(t)
  <2>1. i \in t.savepoints[j].at + 1 .. i
    BY <1>1, <1>2, SavepointType
  <2> QED BY <1>1, <1>2, <2>1, StretchValid
<1>6. Effect(v, At(t, i)) \in Canvas
  BY <1>1, <1>5, AtType, PaintType DEF Effect
<1>7. SavedBy(t, i)
  <2>1. \A k \in DOMAIN t.savepoints : t.savepoints[k].at \in Int
    BY <1>1, SavepointType
  <2> QED BY <1>2, <2>1 DEF SavedBy
<1> QED BY <1>3, <1>5, <1>6, <1>7 DEF Leads

(* A savepoint of the canvas that the others lead to.                       *)
LEMMA AppendSavepoint ==
  ASSUME NEW t, Good(t), Chain(t), NEW v, NEW pos, Leads(t, v, pos),
         NEW u, Good(u), u.offset = t.offset, u.history = t.history,
         u.savepoints = Append(t.savepoints, [at |-> pos, canvas |-> v])
  PROVE  Chain(u) /\ Leads(u, v, pos)
<1> DEFINE s == t.savepoints
           new == [at |-> pos, canvas |-> v]
           n == Len(s) + 1
<1>1. t \in Tracker /\ u \in Tracker /\ Ordered(t)
  BY DEF Good
<1>2. s \in Seq(Savepoint)
  BY <1>1, TrackerFields
<1>3. v \in Canvas /\ pos \in Int /\ pos < End(t) /\ SavedBy(t, pos)
  BY DEF Leads
<1>4. new \in Savepoint /\ new.at = pos /\ new.canvas = v
  BY <1>3 DEF Savepoint
<1> HIDE DEF new
<1>5. /\ DOMAIN u.savepoints = 1 .. n /\ n \in Nat
      /\ \A j \in 1 .. n : (j \in DOMAIN s /\ u.savepoints[j] = s[j]) \/ (j = n /\ u.savepoints[j] = new)
  BY <1>2, <1>4 DEF new
<1>6. \A a, b, w : Upon(u, w, a, b) = Upon(t, w, a, b)
  BY DEF Upon, Painted, At
<1>7. End(u) = End(t)
  BY DEF End
<1> HIDE DEF n
<1>8. ASSUME NEW j \in 1 .. n
      PROVE  /\ v = Upon(u, u.savepoints[j].canvas, u.savepoints[j].at, pos)
             /\ u.savepoints[j].at <= pos
  <2>1. CASE j \in DOMAIN s /\ u.savepoints[j] = s[j]
    BY <1>3, <1>6, <2>1 DEF Leads, SavedBy
  <2>2. CASE u.savepoints[j] = new
    <3>1. Upon(t, v, pos, pos) = v
      BY <1>1, <1>3, UponNothing
    <3> DEFINE q == u.savepoints[j]
    <3>2. q = new
      BY <2>2
    <3> HIDE DEF q
    <3>3. q.canvas = v /\ q.at = pos /\ pos <= pos
      BY <1>3, <1>4, <3>2
    <3>4. v = Upon(u, q.canvas, q.at, pos) /\ q.at <= pos
      BY <1>6, <3>1, <3>3
    <3> QED BY <3>4 DEF q
  <2> QED BY <1>5, <2>1, <2>2
<1>9. Leads(u, v, pos)
  BY <1>3, <1>5, <1>7, <1>8 DEF Leads, SavedBy
<1>10. ASSUME NEW j \in 1 .. n, NEW k \in 1 .. n, j <= k
       PROVE  u.savepoints[k].canvas
                = Upon(u, u.savepoints[j].canvas, u.savepoints[j].at, u.savepoints[k].at)
  <2>1. CASE k \in DOMAIN s /\ u.savepoints[k] = s[k]
    <3>1. j \in DOMAIN s /\ u.savepoints[j] = s[j]
      BY <1>2, <1>5, <1>10, <2>1 DEF n
    <3> QED BY <1>6, <1>10, <2>1, <3>1 DEF Chain
  <2>2. CASE u.savepoints[k] = new
    BY <1>4, <1>8, <2>2
  <2> QED BY <1>5, <2>1, <2>2
<1> QED BY <1>5, <1>9, <1>10 DEF Chain


(***************************************************************************)
(* Commands                                                                *)
(***************************************************************************)

(* Nothing that savepoints lead through differs.                            *)
LEMMA SameHistoryFrame ==
  ASSUME NEW t, Good(t), Chain(t), NEW u, Good(u), u.offset = t.offset,
         u.history = t.history, u.savepoints = t.savepoints
  PROVE  /\ Chain(u) /\ End(u) = End(t)
         /\ \A v, pos : Leads(t, v, pos) => Leads(u, v, pos)
<1>1. \A a, b, w : Upon(u, w, a, b) = Upon(t, w, a, b)
  BY DEF Upon, Painted, At
<1>2. End(u) = End(t)
  BY DEF End
<1>3. Chain(u)
  BY <1>1 DEF Chain
<1> QED BY <1>1, <1>2, <1>3 DEF Leads, SavedBy

(* makeSavepoint keeps the canvas of the history up to a position.          *)
LEMMA MakeSavepointLeads ==
  ASSUME NEW t, Good(t), Chain(t), NEW v, NEW pos, Leads(t, v, pos), -1 <= pos,
         t.fork = <<>> => v = t.canvas, NEW clock
  PROVE  LET u == MakeSavepoint(t, pos, clock) IN
         Chain(u) /\ Leads(u, v, pos) /\ u.canvas = t.canvas
<1> DEFINE u == MakeSavepoint(t, pos, clock)
<1>1. pos \in Int /\ pos < End(t) /\ SavedBy(t, pos)
  BY DEF Leads
<1>2. Good(u) /\ u.offset = t.offset /\ u.history = t.history /\ u.canvas = t.canvas
  BY <1>1, MakeSavepointGood DEF SavedBy
<1>3. \/ u = t
      \/ t.fork = <<>> /\ u = [t EXCEPT !.savepoints = Append(@, [at |-> pos, canvas |-> t.canvas])]
  BY MakeSavepointIs
<1> HIDE DEF u
<1>4. CASE u = t
  BY <1>4 DEF u
<1>5. CASE /\ t.fork = <<>>
           /\ u = [t EXCEPT !.savepoints = Append(@, [at |-> pos, canvas |-> t.canvas])]
  <2>1. t \in Tracker
    BY DEF Good
  <2>2. u.savepoints = Append(t.savepoints, [at |-> pos, canvas |-> t.canvas])
    BY <1>5, <2>1 DEF Tracker
  <2>3. Chain(u) /\ Leads(u, v, pos)
    BY <1>2, <1>5, <2>2, AppendSavepoint
  <2> QED BY <1>2, <2>3 DEF u
<1> QED BY <1>3, <1>4, <1>5

(* Forgetting old savepoints and history keeps what the others lead to.     *)
LEMMA TrimmedLeads ==
  ASSUME NEW t, Good(t), Chain(t), NEW v, NEW pos, Leads(t, v, pos),
         NEW u, Good(u), Trimmed(t, u)
  PROVE  Chain(u) /\ Leads(u, v, pos)
<1>1. t \in Tracker /\ u \in Tracker
  BY DEF Good
<1>2. PICK k \in DOMAIN t.savepoints : u.savepoints = SubSeq(t.savepoints, k, Len(t.savepoints))
  BY DEF Trimmed
<1>3. k \in Int
  <2>1. t.savepoints \in Seq(Savepoint)
    BY <1>1, TrackerFields
  <2> QED BY <2>1
<1>4. Shifted(t, u, k - 1)
  <2>1. \A i \in DOMAIN u.savepoints :
          i + k - 1 \in DOMAIN t.savepoints /\ u.savepoints[i] = t.savepoints[i + k - 1]
    BY <1>1, <1>2, SuffixIs
  <2>2. \A i \in DOMAIN u.savepoints : i \in Int
    <3>1. u.savepoints \in Seq(Savepoint)
      BY <1>1, TrackerFields
    <3> QED BY <3>1
  <2>3. \A i \in DOMAIN u.savepoints : i + (k - 1) = i + k - 1
    BY <1>3, <2>2
  <2> QED BY <1>3, <2>1, <2>3 DEF Shifted
<1>5. \A p : AlikeUpto(t, u, p)
  BY DEF AlikeUpto, Trimmed, Alike
<1>6. End(u) = End(t) /\ pos < End(t)
  BY DEF Trimmed, Leads
<1>7. Chain(u)
  BY <1>4, <1>5, ChainFrame
<1>8. Leads(u, v, pos)
  BY <1>4, <1>5, <1>6, LeadsFrame
<1> QED BY <1>7, <1>8

(* handleCommand paints the command on what the savepoints lead to, and on  *)
(* the canvas that is shown.                                                *)
LEMMA HandleCommandLeads ==
  ASSUME NEW t, Good(t), Chain(t), NEW v, NEW pos \in Int, Leads(t, v, pos - 1),
         pos < End(t), NEW m \in Msg, At(t, pos) = [m |-> m, undo |-> "DONE"],
         t.fork = <<>> => v = t.canvas,
         NEW replay \in BOOLEAN, NEW clock
  PROVE  LET u == HandleCommand(t, m, replay, pos, clock) IN
         Chain(u) /\ Leads(u, Paint(v, m), pos) /\ u.canvas = Paint(t.canvas, m)
<1> DEFINE u == HandleCommand(t, m, replay, pos, clock)
<1>1. Effect(v, At(t, pos)) = Paint(v, m)
  BY DEF Effect
<1>2. Leads(t, Paint(v, m), pos) /\ pos \in Valid(t)
  BY <1>1, LeadsStep
<1>3. t \in Tracker /\ t.canvas \in Canvas /\ v \in Canvas
  BY TrackerFields DEF Good, Leads
<1>4. -1 <= pos
  BY <1>2, <1>3, TrackerFields, HistoryType
<1>5. Paint(t.canvas, m) \in Canvas
  BY <1>3, PaintType
<1> DEFINE w == [t EXCEPT !.canvas = Paint(t.canvas, m)]
<1>6. /\ w \in Tracker /\ w.history = t.history /\ w.offset = t.offset
      /\ w.savepoints = t.savepoints /\ w.canvas = Paint(t.canvas, m) /\ SameFork(t, w)
  BY <1>3, <1>5, SetCanvasFields
<1> HIDE DEF w
<1>7. Good(w)
  BY <1>6 DEF Good, Ordered, Window, BeforeFork, SameFork, End
<1>8. Chain(w) /\ Leads(w, Paint(v, m), pos)
  BY <1>2, <1>6, <1>7, SameHistoryFrame
<1>9. CASE m.t = "UndoPoint"
  <2>1. PICK x : /\ Good(x) /\ Trimmed(t, x)
                 /\ HandleUndoPoint(t, m, replay, pos, clock) = MakeSavepoint(x, pos, clock)
    BY HandleUndoPointIs
  <2>2. u = MakeSavepoint(x, pos, clock)
    BY <1>9, <2>1 DEF HandleCommand
  <2>3. Silent(m)
    BY <1>9 DEF Silent
  <2>4. Paint(v, m) = v /\ Paint(t.canvas, m) = t.canvas
    BY <1>3, <2>3, PaintSilent
  <2>5. Chain(x) /\ Leads(x, v, pos)
    BY <1>2, <2>1, <2>4, TrimmedLeads
  <2>6. x.canvas = t.canvas /\ x.fork = t.fork
    BY <2>1 DEF Trimmed, SameFork
  <2> HIDE DEF u
  <2>7. Chain(u) /\ Leads(u, v, pos) /\ u.canvas = x.canvas
    BY <1>4, <2>1, <2>2, <2>5, <2>6, MakeSavepointLeads
  <2> QED BY <2>4, <2>6, <2>7 DEF u
<1>10. CASE m.t = "Draw"
  <2>1. u = w
    BY <1>10 DEF HandleCommand, w
  <2> QED BY <2>1, <1>6, <1>8
<1>11. CASE m.t = "Resize"
  <2>1. u = MakeSavepoint(w, pos, clock)
    BY <1>11 DEF HandleCommand, w
  <2>2. w.fork = <<>> => Paint(v, m) = w.canvas
    BY <1>6 DEF SameFork
  <2> HIDE DEF u
  <2>3. Chain(u) /\ Leads(u, Paint(v, m), pos) /\ u.canvas = w.canvas
    BY <1>4, <1>7, <1>8, <2>1, <2>2, MakeSavepointLeads
  <2> QED BY <1>6, <2>3 DEF u
<1>12. CASE m.t \notin {"UndoPoint", "Draw", "Resize"}
  <2>1. u = t
    BY <1>12 DEF HandleCommand
  <2>2. Paint(t.canvas, m) = t.canvas
    BY <1>3, <1>12, PaintSilent DEF Silent
  <2> QED BY <1>2, <2>1, <2>2
<1> QED BY <1>9, <1>10, <1>11, <1>12


(***************************************************************************)
(* Replay                                                                  *)
(***************************************************************************)

(* The first savepoint of a client that replays is not disturbed.           *)
SameFirst(t, u) == u.savepoints[1] = t.savepoints[1]

LEMMA ReplayFirst ==
  ASSUME NEW t, Good(t), NEW i \in Valid(t), SavedBy(t, i), NEW m \in Msg, NEW clock
  PROVE  SameFirst(t, HandleCommand(t, m, TRUE, i, clock))
<1> DEFINE u == HandleCommand(t, m, TRUE, i, clock)
           w == [t EXCEPT !.canvas = Paint(t.canvas, m)]
<1>1. t \in Tracker /\ t.canvas \in Canvas
  BY TrackerFields DEF Good
<1>2. i \in Int /\ -1 <= i /\ i < End(t)
  BY <1>1, HistoryType, TrackerFields
<1>3. /\ w \in Tracker /\ w.history = t.history /\ w.offset = t.offset
      /\ w.savepoints = t.savepoints /\ SameFork(t, w)
  BY <1>1, PaintType, SetCanvasFields
<1> HIDE DEF w
<1>4. Good(w) /\ End(w) = End(t)
  BY <1>3 DEF Good, Ordered, Window, BeforeFork, SameFork, End
<1>5. CASE m.t = "UndoPoint"
  <2>1. PICK yes \in BOOLEAN : yes = TRUE
    OBVIOUS
  <2>2. HandleUndoPoint(t, m, yes, i, clock) = MakeSavepoint(t, i, clock)
    <3>1. PICK x : /\ yes => x = t
                   /\ HandleUndoPoint(t, m, yes, i, clock) = MakeSavepoint(x, i, clock)
      BY <1>2, HandleUndoPointIs
    <3> QED BY <2>1, <3>1
  <2>3. u = MakeSavepoint(t, i, clock)
    BY <1>5, <2>1, <2>2 DEF HandleCommand
  <2>4. MakeSavepoint(t, i, clock).savepoints[1] = t.savepoints[1]
    BY <1>2, MakeSavepointGood DEF SavedBy
  <2> QED BY <2>3, <2>4 DEF SameFirst
<1>6. CASE m.t = "Draw"
  BY <1>3, <1>6 DEF HandleCommand, SameFirst, w
<1>7. CASE m.t = "Resize"
  <2>1. u = MakeSavepoint(w, i, clock)
    BY <1>7 DEF HandleCommand, w
  <2>2. MakeSavepoint(w, i, clock).savepoints[1] = w.savepoints[1]
    BY <1>2, <1>3, <1>4, MakeSavepointGood DEF SavedBy
  <2> QED BY <1>3, <2>1, <2>2 DEF SameFirst
<1>8. CASE m.t \notin {"UndoPoint", "Draw", "Resize"}
  BY <1>8 DEF HandleCommand, SameFirst
<1> QED BY <1>5, <1>6, <1>7, <1>8

LEMMA ReplayCommandLeads ==
  ASSUME NEW t, Good(t), Chain(t), NEW i \in Int, i < End(t),
         Leads(t, t.canvas, i - 1), NEW clock
  PROVE  LET u == ReplayCommand(t, i, clock) IN
         /\ Good(u) /\ u.offset = t.offset /\ u.history = t.history /\ SameFork(t, u)
         /\ Chain(u) /\ Leads(u, u.canvas, i) /\ SameFirst(t, u)
<1> DEFINE u == ReplayCommand(t, i, clock)
           e == At(t, i)
<1>1. Leads(t, Effect(t.canvas, e), i) /\ i \in Valid(t)
  BY LeadsStep
<1>2. t \in Tracker /\ t.canvas \in Canvas /\ SavedBy(t, i)
  BY <1>1, TrackerFields DEF Good, Leads
<1>3. Good(u) /\ u.offset = t.offset /\ u.history = t.history /\ SameFork(t, u)
  BY <1>1, <1>2, ReplayCommandGood
<1>4. e \in Entry /\ e.m \in Msg
  BY <1>1, <1>2, AtType
<1> HIDE DEF e
<1>5. CASE e.undo = "DONE" /\ ~IsUndo(e.m)
  <2>1. u = HandleCommand(t, e.m, TRUE, i, clock)
    BY <1>5 DEF ReplayCommand, e
  <2>2. At(t, i) = [m |-> e.m, undo |-> "DONE"]
    BY <1>4, <1>5 DEF Entry, e
  <2>3. PICK yes \in BOOLEAN : yes = TRUE
    OBVIOUS
  <2>4. Effect(t.canvas, e) = Paint(t.canvas, e.m)
    BY <1>5 DEF Effect
  <2> HIDE DEF u
  <2>5. Chain(u) /\ Leads(u, Paint(t.canvas, e.m), i) /\ u.canvas = Paint(t.canvas, e.m)
    <3> DEFINE w == HandleCommand(t, e.m, yes, i, clock)
    <3>1. Chain(w) /\ Leads(w, Paint(t.canvas, e.m), i) /\ w.canvas = Paint(t.canvas, e.m)
      BY <1>4, <2>2, HandleCommandLeads
    <3>2. u = w
      BY <2>1, <2>3
    <3> HIDE DEF w
    <3> QED BY <3>1, <3>2
  <2>6. SameFirst(t, u)
    BY <1>1, <1>2, <1>4, <2>1, ReplayFirst
  <2> QED BY <1>3, <2>5, <2>6 DEF u
<1>6. CASE ~(e.undo = "DONE" /\ ~IsUndo(e.m))
  <2>1. u = t
    BY <1>6 DEF ReplayCommand, e
  <2>2. Effect(t.canvas, e) = t.canvas
    <3>1. e.undo = "DONE" => Silent(e.m)
      BY <1>6 DEF IsUndo, Silent
    <3> QED BY <1>2, <3>1, PaintSilent DEF Effect
  <2> QED BY <1>1, <1>3, <2>1, <2>2 DEF SameFirst
<1> QED BY <1>5, <1>6

LEMMA ReplayLeads ==
  ASSUME NEW t, Good(t), Chain(t), NEW after, NEW to \in Int, after <= to,
         to < End(t), Leads(t, t.canvas, after), NEW clock
  PROVE  LET u == Replay(t, after, to, clock) IN
         /\ Good(u) /\ u.offset = t.offset /\ u.history = t.history /\ SameFork(t, u)
         /\ Chain(u) /\ Leads(u, u.canvas, to) /\ SameFirst(t, u)
<1>1. after \in Int /\ to - after \in Nat /\ t \in Tracker /\ End(t) \in Nat
  BY HistoryType DEF Leads, Good
<1>2. PICK f : /\ f[after] = t
               /\ \A i \in after + 1 .. to : f[i] = ReplayCommand(f[i - 1], i, clock)
               /\ Replay(t, after, to, clock) = f[to]
  BY <1>1, ReplayIs
<1> DEFINE Fine(u, i) ==
             /\ Good(u) /\ u.offset = t.offset /\ u.history = t.history /\ SameFork(t, u)
             /\ Chain(u) /\ Leads(u, u.canvas, i) /\ SameFirst(t, u)
           T == {k \in Nat : Fine(f[after + k], after + k)}
<1>3. 0 \in T
  <2>1. after + 0 = after
    BY <1>1
  <2> QED BY <1>2, <2>1 DEF SameFork, SameFirst
<1>4. ASSUME NEW k \in 1 .. to - after, k - 1 \in T PROVE k \in T
  <2> DEFINE i == after + k
             w == f[i - 1]
  <2>1. k \in Nat /\ i \in Int /\ i \in after + 1 .. to /\ after + (k - 1) = i - 1 /\ i < End(t)
    BY <1>1
  <2> HIDE DEF i
  <2>2. Fine(w, i - 1)
    BY <1>4, <2>1
  <2>3. f[i] = ReplayCommand(w, i, clock)
    BY <1>2, <2>1
  <2> HIDE DEF w
  <2>4. End(w) = End(t)
    BY <2>2 DEF End
  <2> DEFINE u == ReplayCommand(w, i, clock)
  <2>5. /\ Good(u) /\ u.offset = w.offset /\ u.history = w.history /\ SameFork(w, u)
        /\ Chain(u) /\ Leads(u, u.canvas, i) /\ SameFirst(w, u)
    BY <2>1, <2>2, <2>4, ReplayCommandLeads
  <2> HIDE DEF u
  <2>6. Fine(u, i)
    BY <2>2, <2>5 DEF SameFork, SameFirst
  <2> HIDE DEF Fine
  <2> QED BY <2>1, <2>3, <2>6 DEF i, u
<1>5. to - after \in T
  <2> HIDE DEF T
  <2> QED BY <1>1, <1>3, <1>4, InductionUpto
<1>6. after + (to - after) = to
  BY <1>1
<1>7. Fine(f[to], to)
  BY <1>5, <1>6
<1> QED BY <1>2, <1>7

(* Going back to a savepoint and replaying leads where the savepoints lead. *)
LEMMA RevertAndReplayLeads ==
  ASSUME NEW t, Good(t), NEW sp \in DOMAIN t.savepoints, Chain(Revert(t, sp)), NEW clock
  PROVE  LET u == Replay(Revert(t, sp), t.savepoints[sp].at, End(t) - 1, clock) IN
         /\ Good(u) /\ u.offset = t.offset /\ u.history = t.history /\ SameFork(t, u)
         /\ Chain(u) /\ Leads(u, u.canvas, End(u) - 1) /\ SameFirst(t, u)
<1> DEFINE w == Revert(t, sp)
           at == t.savepoints[sp].at
           u == Replay(w, at, End(t) - 1, clock)
<1>1. /\ Good(w) /\ w.offset = t.offset /\ w.history = t.history /\ SameFork(t, w)
      /\ w.canvas = t.savepoints[sp].canvas
      /\ DOMAIN w.savepoints = 1 .. sp
      /\ \A i \in 1 .. sp : i \in DOMAIN t.savepoints /\ w.savepoints[i] = t.savepoints[i]
      /\ SavedBy(w, at)
  BY RevertIs
<1>2. t \in Tracker /\ Ordered(t)
  BY DEF Good
<1>3. at \in Int /\ w.canvas \in Canvas /\ at < End(t) /\ End(t) \in Nat
  BY <1>1, <1>2, SavepointType, HistoryType DEF Ordered
<1>4. sp \in Nat /\ sp >= 1
  <2>1. t.savepoints \in Seq(Savepoint)
    BY <1>2, TrackerFields
  <2> QED BY <2>1
<1>5. Chain(w)
  OBVIOUS
<1> HIDE DEF w
<1>6. End(w) = End(t) /\ sp \in DOMAIN w.savepoints /\ 1 \in 1 .. sp
  BY <1>1, <1>4 DEF End
<1>7. w.savepoints[sp] = t.savepoints[sp]
  BY <1>1, <1>6
<1>8. Leads(w, w.canvas, at)
  <2>1. ASSUME NEW j \in DOMAIN w.savepoints
        PROVE  w.canvas = Upon(w, w.savepoints[j].canvas, w.savepoints[j].at, at)
    <3>1. j <= sp
      BY <1>1, <1>4
    <3> QED BY <1>1, <1>5, <1>6, <1>7, <3>1 DEF Chain
  <2> QED BY <1>1, <1>3, <1>6, <2>1 DEF Leads
<1>9. at <= End(t) - 1 /\ End(t) - 1 \in Int /\ End(t) - 1 < End(w)
  BY <1>3, <1>6
<1> HIDE DEF at
<1>10. /\ Good(u) /\ u.offset = w.offset /\ u.history = w.history /\ SameFork(w, u)
       /\ Chain(u) /\ Leads(u, u.canvas, End(t) - 1) /\ SameFirst(w, u)
  BY <1>1, <1>5, <1>8, <1>9, ReplayLeads
<1> HIDE DEF u
<1>11. End(u) = End(t)
  BY <1>1, <1>10 DEF End
<1>12. SameFork(t, u) /\ SameFirst(t, u)
  BY <1>1, <1>6, <1>10 DEF SameFork, SameFirst
<1> QED BY <1>1, <1>10, <1>11, <1>12 DEF u, w, at

(* Savepoints lead to one canvas, which the first tells.                    *)
LEMMA LeadsOnce ==
  ASSUME NEW t, Good(t), NEW u, u.offset = t.offset, u.history = t.history,
         SameFirst(t, u), Good(u), NEW v, NEW w, NEW pos, Leads(t, v, pos), Leads(u, w, pos)
  PROVE  v = w
<1>1. 1 \in DOMAIN t.savepoints /\ 1 \in DOMAIN u.savepoints
  <2>1. t.savepoints \in Seq(Savepoint) /\ t.savepoints # <<>>
    BY TrackerFields DEF Good, Ordered
  <2>2. u.savepoints \in Seq(Savepoint) /\ u.savepoints # <<>>
    BY TrackerFields DEF Good, Ordered
  <2> QED BY <2>1, <2>2
<1>2. v = Upon(t, t.savepoints[1].canvas, t.savepoints[1].at, pos)
  BY <1>1 DEF Leads
<1>3. w = Upon(u, u.savepoints[1].canvas, u.savepoints[1].at, pos)
  BY <1>1 DEF Leads
<1>4. \A x, a, b : Upon(u, x, a, b) = Upon(t, x, a, b)
  BY DEF Upon, Painted, At
<1> QED BY <1>2, <1>3, <1>4 DEF SameFirst

(* replayFork                                                               *)
LEMMA ReplayForkShows ==
  ASSUME NEW t, Good(t), Chain(t), Leads(t, t.canvas, End(t) - 1)
  PROVE  LET u == ReplayFork(t) IN Good(u) /\ Chain(u) /\ Shows(u, t.canvas)
<1> DEFINE u == ReplayFork(t)
<1>1. /\ Good(u) /\ u.offset = t.offset /\ u.history = t.history
      /\ u.savepoints = t.savepoints /\ u.fork = t.fork
      /\ u.canvas = IF t.fork = <<>> THEN t.canvas ELSE PaintAll(t.canvas, t.fork)
  BY ReplayForkGood
<1> HIDE DEF u
<1>2. Chain(u) /\ End(u) = End(t) /\ Leads(u, t.canvas, End(t) - 1)
  BY <1>1, SameHistoryFrame
<1>3. u.canvas = PaintAll(t.canvas, u.fork)
  BY <1>1, PaintNone
<1> QED BY <1>1, <1>2, <1>3 DEF Shows, u


(***************************************************************************)
(* Undo                                                                    *)
(***************************************************************************)

(* An undo or a redo starts at an undo point.                               *)
LEMMA StartIsUndoPoint ==
  ASSUME NEW t \in Tracker, NEW u, NEW pos \in UndoStart(t, u) \cup RedoStart(t, u)
  PROVE  pos \in Valid(t) /\ IsUndoPoint(t, pos)
<1>1. t.offset \in Int /\ End(t) - 1 \in Int /\ Valid(t) = t.offset .. End(t) - 1
  BY TrackerFields, HistoryType
<1>2. PointsOf(t, u) \subseteq Valid(t) /\ \A i \in PointsOf(t, u) : IsUndoPoint(t, i)
  BY DEF PointsOf
<1>3. pos \in PointsOf(t, u)
  <2>1. CASE pos \in UndoStart(t, u)
    <3> DEFINE done == {i \in PointsOf(t, u) : At(t, i).undo = "DONE"}
    <3>1. done # {} /\ pos = Max(done)
      BY <2>1 DEF UndoStart
    <3>2. done \subseteq t.offset .. End(t) - 1
      BY <1>1, <1>2
    <3> HIDE DEF done
    <3>3. Max(done) \in done
      BY <1>1, <3>1, <3>2, MaxInSet
    <3> QED BY <3>1, <3>3 DEF done
  <2>2. CASE pos \in RedoStart(t, u)
    <3> DEFINE done == {i \in PointsOf(t, u) : At(t, i).undo = "DONE"}
               last == IF done = {} THEN t.offset - 1 ELSE Max(done)
               undone == {i \in PointsOf(t, u) : i > last}
    <3>1. undone # {} /\ pos = Min(undone)
      BY <2>2 DEF RedoStart
    <3>2. undone \subseteq t.offset .. End(t) - 1
      BY <1>1, <1>2
    <3>3. undone \subseteq PointsOf(t, u)
      OBVIOUS
    <3> HIDE DEF undone
    <3>4. Min(undone) \in undone
      BY <1>1, <3>1, <3>2, MinInSet
    <3> QED BY <3>1, <3>3, <3>4
  <2> QED BY <2>1, <2>2
<1> QED BY <1>2, <1>3

(* The undo states of commands that paint nothing do not matter.            *)
LEMMA SetUndoStateAlike ==
  ASSUME NEW t \in Tracker, NEW Ix, NEW st \in UndoState, NEW pos,
         \A i \in Valid(t) : i <= pos /\ i \in Ix => Silent(At(t, i).m)
  PROVE  AlikeUpto(t, SetUndoState(t, Ix, st), pos)
<1> DEFINE u == SetUndoState(t, Ix, st)
<1>1. /\ u \in Tracker /\ u.offset = t.offset /\ End(u) = End(t)
      /\ \A i \in Valid(t) : /\ At(u, i).m = At(t, i).m
                             /\ At(u, i).undo = IF i \in Ix THEN st ELSE At(t, i).undo
  BY SetUndoStateIs
<1> HIDE DEF u
<1>2. Valid(u) = Valid(t)
  BY <1>1 DEF Valid
<1>3. ASSUME NEW i \in Valid(t), i <= pos PROVE Alike(At(t, i), At(u, i))
  <2>1. CASE i \in Ix
    BY <1>1, <1>3, <2>1 DEF Alike
  <2>2. CASE i \notin Ix
    BY <1>1, <2>2 DEF Alike
  <2> QED BY <2>1, <2>2
<1> QED BY <1>2, <1>3 DEF AlikeUpto, u

(* Undo states that differ only where nothing is painted.                   *)
LEMMA SetUndoStateShows ==
  ASSUME NEW t, Good(t), Chain(t), NEW Ix, NEW st \in UndoState,
         \A i \in Valid(t) : i \in Ix => Silent(At(t, i).m)
  PROVE  LET u == SetUndoState(t, Ix, st) IN
         /\ Chain(u)
         /\ \A b : Shows(t, b) => Shows(u, b)
<1> DEFINE u == SetUndoState(t, Ix, st)
<1>1. t \in Tracker
  BY DEF Good
<1>2. /\ Good(u) /\ End(u) = End(t) /\ u.savepoints = t.savepoints
      /\ u.canvas = t.canvas /\ SameFork(t, u)
  BY SetUndoStateGood
<1>3. \A p : AlikeUpto(t, u, p)
  BY <1>1, SetUndoStateAlike
<1> HIDE DEF u
<1>4. Shifted(t, u, 0)
  <2>1. t.savepoints \in Seq(Savepoint)
    BY <1>1, TrackerFields
  <2>2. \A j \in DOMAIN t.savepoints : j + 0 = j
    BY <2>1
  <2> QED BY <1>2, <2>2 DEF Shifted
<1>5. Chain(u)
  BY <1>2, <1>3, <1>4, ChainFrame
<1>6. ASSUME NEW b, Shows(t, b) PROVE Shows(u, b)
  <2>1. Leads(t, b, End(t) - 1) /\ t.canvas = PaintAll(b, t.fork)
    BY <1>6 DEF Shows
  <2>2. End(t) - 1 < End(u)
    BY <1>1, <1>2, HistoryType
  <2>3. Leads(u, b, End(t) - 1)
    BY <1>2, <1>3, <1>4, <2>1, <2>2, LeadsFrame
  <2> QED BY <1>2, <2>1, <2>3 DEF Shows, SameFork
<1> QED BY <1>5, <1>6 DEF u

(* Undo states that differ only from a position on: the savepoints up to    *)
(* there can be gone back to.                                               *)
LEMMA RevertMarkedChain ==
  ASSUME NEW t, Good(t), Chain(t), NEW Ix, NEW st \in UndoState, NEW pos \in Int,
         \A i \in Valid(t) : i <= pos /\ i \in Ix => Silent(At(t, i).m),
         NEW sp \in DOMAIN t.savepoints, t.savepoints[sp].at <= pos
  PROVE  Chain(Revert(SetUndoState(t, Ix, st), sp))
<1> DEFINE u == SetUndoState(t, Ix, st)
           w == Revert(u, sp)
<1>1. t \in Tracker /\ Ordered(t)
  BY DEF Good
<1>2. /\ Good(u) /\ End(u) = End(t) /\ u.savepoints = t.savepoints
      /\ u.canvas = t.canvas /\ SameFork(t, u)
  BY SetUndoStateGood
<1>3. AlikeUpto(t, u, pos)
  BY <1>1, SetUndoStateAlike
<1> HIDE DEF u
<1>4. /\ Good(w) /\ w.offset = u.offset /\ w.history = u.history
      /\ DOMAIN w.savepoints = 1 .. sp
      /\ \A i \in 1 .. sp : i \in DOMAIN u.savepoints /\ w.savepoints[i] = u.savepoints[i]
      /\ SavedBy(w, u.savepoints[sp].at)
  BY <1>2, RevertIs
<1> HIDE DEF w
<1>5. Shifted(t, w, 0)
  <2>1. \A j \in 1 .. sp : j + 0 = j
    OBVIOUS
  <2> QED BY <1>2, <1>4, <2>1 DEF Shifted
<1>6. ASSUME NEW k \in DOMAIN w.savepoints PROVE AlikeUpto(t, w, w.savepoints[k].at)
  <2>1. w.savepoints[k].at <= t.savepoints[sp].at
    BY <1>2, <1>4 DEF SavedBy
  <2>2. w.savepoints[k].at \in Int /\ t.savepoints[sp].at \in Int /\ w \in Tracker
    BY <1>1, <1>4, SavepointType DEF Good
  <2>3. \A i \in Valid(w) : i \in Int /\ i \in Valid(u) /\ At(w, i) = At(u, i)
    BY <1>4, <2>2, HistoryType, TrackerFields DEF Valid, At, End
  <2>4. \A i \in Valid(w) : i <= w.savepoints[k].at => i <= pos
    BY <2>1, <2>2, <2>3
  <2> QED BY <1>3, <2>3, <2>4 DEF AlikeUpto
<1>7. Chain(w)
  BY <1>4, <1>5, <1>6, ChainFrame
<1> QED BY <1>7 DEF w, u

LEMMA RevertSavepointAndReplayShows ==
  ASSUME NEW t, Good(t), NEW sp \in DOMAIN t.savepoints, Chain(Revert(t, sp)), NEW clock
  PROVE  LET u == RevertSavepointAndReplay(t, sp, clock) IN
         Chain(u) /\ \E b : Shows(u, b)
<1> DEFINE w == Replay(Revert(t, sp), t.savepoints[sp].at, End(t) - 1, clock)
<1>1. Good(w) /\ Chain(w) /\ Leads(w, w.canvas, End(w) - 1)
  BY RevertAndReplayLeads
<1> HIDE DEF w
<1>2. RevertSavepointAndReplay(t, sp, clock) = ReplayFork(w)
  BY DEF RevertSavepointAndReplay, w
<1>3. Chain(ReplayFork(w)) /\ Shows(ReplayFork(w), w.canvas)
  BY <1>1, ReplayForkShows
<1> QED BY <1>2, <1>3

(* handleUndo                                                               *)
LEMMA HandleUndoShows ==
  ASSUME NEW t, Good(t), Chain(t), NEW b, Shows(t, b), NEW m, NEW clock,
         Silent(At(t, End(t) - 1).m)
  PROVE  LET u == HandleUndo(t, m, clock) IN Chain(u) /\ \E w : Shows(u, w)
<1> DEFINE gone == SetUndoState(t, {End(t) - 1}, "GONE")
           u == HandleUndo(t, m, clock)
<1>1. t \in Tracker
  BY DEF Good
<1>2. "GONE" \in UndoState /\ "DONE" \in UndoState /\ "UNDONE" \in UndoState
  BY DEF UndoState
<1>3. Chain(gone) /\ Shows(gone, b)
  BY <1>2, SetUndoStateShows
<1>4. Good(gone) /\ gone.savepoints = t.savepoints /\ gone \in Tracker
  BY <1>2, SetUndoStateGood DEF Good
<1>5. \/ u = gone
      \/ \E pos \in UndoStart(gone, m.on), sp \in DOMAIN t.savepoints :
           /\ t.savepoints[sp].at <= pos
           /\ u = RevertSavepointAndReplay(
                    SetUndoState(gone, ToUndo(gone, m.on, pos), "UNDONE"), sp, clock)
      \/ \E pos \in RedoStart(gone, m.on), sp \in DOMAIN t.savepoints :
           /\ t.savepoints[sp].at <= pos
           /\ u = RevertSavepointAndReplay(
                    SetUndoState(gone, ToRedo(gone, m.on, pos), "DONE"), sp, clock)
  BY <1>1, HandleUndoIs
<1> HIDE DEF gone, u
<1>6. CASE u = gone
  BY <1>3, <1>6 DEF u
<1>7. ASSUME NEW pos \in UndoStart(gone, m.on) \cup RedoStart(gone, m.on),
             NEW sp \in DOMAIN t.savepoints, t.savepoints[sp].at <= pos,
             NEW Ix, \A i \in Ix : i >= pos, NEW st \in UndoState
      PROVE  LET x == RevertSavepointAndReplay(SetUndoState(gone, Ix, st), sp, clock)
             IN  Chain(x) /\ \E w : Shows(x, w)
  <2> DEFINE y == SetUndoState(gone, Ix, st)
  <2>1. pos \in Valid(gone) /\ IsUndoPoint(gone, pos)
    BY <1>4, StartIsUndoPoint
  <2>2. \A i \in Valid(gone) : i \in Int
    <3>1. gone.offset \in Nat /\ End(gone) \in Nat
          /\ Valid(gone) = gone.offset .. End(gone) - 1
      BY <1>4, TrackerFields, HistoryType
    <3> QED BY <3>1
  <2>3. \A i \in Valid(gone) : i <= pos /\ i \in Ix => Silent(At(gone, i).m)
    <3>1. ASSUME NEW i \in Valid(gone), i <= pos, i \in Ix PROVE i = pos
      BY <1>7, <2>1, <2>2, <3>1
    <3>2. Silent(At(gone, pos).m)
      BY <2>1 DEF IsUndoPoint, Silent
    <3> QED BY <3>1, <3>2
  <2>4. pos \in Int
    BY <2>1, <2>2
  <2>5. Chain(Revert(y, sp))
    BY <1>3, <1>4, <1>7, <2>3, <2>4, RevertMarkedChain
  <2>6. Good(y) /\ y.savepoints = gone.savepoints
    BY <1>4, SetUndoStateGood
  <2> HIDE DEF y
  <2>7. Chain(RevertSavepointAndReplay(y, sp, clock))
        /\ \E w : Shows(RevertSavepointAndReplay(y, sp, clock), w)
    BY <1>4, <2>5, <2>6, RevertSavepointAndReplayShows
  <2> QED BY <2>7 DEF y
<1>8. CASE \E pos \in UndoStart(gone, m.on), sp \in DOMAIN t.savepoints :
             /\ t.savepoints[sp].at <= pos
             /\ u = RevertSavepointAndReplay(
                      SetUndoState(gone, ToUndo(gone, m.on, pos), "UNDONE"), sp, clock)
  <2>1. PICK pos \in UndoStart(gone, m.on), sp \in DOMAIN t.savepoints :
             /\ t.savepoints[sp].at <= pos
             /\ u = RevertSavepointAndReplay(
                      SetUndoState(gone, ToUndo(gone, m.on, pos), "UNDONE"), sp, clock)
    BY <1>8
  <2>2. \A i \in ToUndo(gone, m.on, pos) : i >= pos
    BY DEF ToUndo
  <2>3. Chain(u) /\ \E w : Shows(u, w)
    BY <1>2, <1>7, <2>1, <2>2
  <2> QED BY <2>3 DEF u
<1>9. CASE \E pos \in RedoStart(gone, m.on), sp \in DOMAIN t.savepoints :
             /\ t.savepoints[sp].at <= pos
             /\ u = RevertSavepointAndReplay(
                      SetUndoState(gone, ToRedo(gone, m.on, pos), "DONE"), sp, clock)
  <2>1. PICK pos \in RedoStart(gone, m.on), sp \in DOMAIN t.savepoints :
             /\ t.savepoints[sp].at <= pos
             /\ u = RevertSavepointAndReplay(
                      SetUndoState(gone, ToRedo(gone, m.on, pos), "DONE"), sp, clock)
    BY <1>9
  <2>2. \A i \in ToRedo(gone, m.on, pos) : i >= pos
    <3>1. /\ gone.offset \in Nat /\ End(gone) \in Nat
          /\ Valid(gone) = gone.offset .. End(gone) - 1
      BY <1>4, TrackerFields, HistoryType
    <3>2. pos \in Valid(gone)
      BY <1>4, StartIsUndoPoint
    <3> QED BY <3>1, <3>2 DEF ToRedo
  <2>3. Chain(u) /\ \E w : Shows(u, w)
    BY <1>2, <1>7, <2>1, <2>2
  <2> QED BY <2>3 DEF u
<1> QED BY <1>5, <1>6, <1>8, <1>9


(***************************************************************************)
(* Received and local commands                                             *)
(***************************************************************************)

(* An inconsistency is repaired by going back to a savepoint: the client    *)
(* shows what the log says, whatever it showed before.  When the fork is    *)
(* kept, because the pen is down, an undo would paint it twice.             *)
LEMMA RollbackShows ==
  ASSUME NEW t, Good(t), Chain(t), SavedBy(t, t.forkAt), NEW m, NEW clock,
         Silent(At(t, End(t) - 1).m) \/ ~IsUndo(m), ~(IsUndo(m) /\ t.pen /\ t.fork # <<>>)
  PROVE  LET u == Rollback(t, m, clock) IN
         /\ Chain(u) /\ \E w : Shows(u, w)
         /\ ~IsUndo(m) => \A b : Leads(t, b, End(t) - 1) => Shows(u, b)
<1> DEFINE sp == NewestSavepoint(t, t.forkAt)
           t1 == IF t.pen THEN t ELSE ClearFork(t)
           t2 == Replay(Revert(t1, sp), t1.savepoints[sp].at, End(t1) - 1, clock)
           u == Rollback(t, m, clock)
<1>1. /\ sp \in DOMAIN t.savepoints
      /\ Good(t1) /\ t1.savepoints = t.savepoints /\ t1.offset = t.offset
      /\ t1.history = t.history
      /\ t1.fork = IF t.pen THEN t.fork ELSE <<>>
      /\ u = ReplayFork(IF IsUndo(m) THEN HandleUndo(t2, m, clock) ELSE t2)
  BY RollbackIs
<1> HIDE DEF t1, u, sp
<1>2. Chain(t1) /\ End(t1) = End(t) /\ \A v, pos : Leads(t, v, pos) => Leads(t1, v, pos)
  BY <1>1, SameHistoryFrame
<1> DEFINE w == Revert(t1, sp)
<1>3. /\ Good(w) /\ w.offset = t1.offset /\ w.history = t1.history
      /\ DOMAIN w.savepoints = 1 .. sp
      /\ \A i \in 1 .. sp : i \in DOMAIN t1.savepoints /\ w.savepoints[i] = t1.savepoints[i]
  BY <1>1, RevertIs
<1>4. Chain(w)
  <2> HIDE DEF w
  <2>1. \A a, b, x : Upon(w, x, a, b) = Upon(t1, x, a, b)
    BY <1>3 DEF Upon, Painted, At
  <2> QED BY <1>2, <1>3, <2>1 DEF Chain
<1>5. /\ Good(t2) /\ t2.offset = t1.offset /\ t2.history = t1.history /\ SameFork(t1, t2)
      /\ Chain(t2) /\ Leads(t2, t2.canvas, End(t2) - 1) /\ SameFirst(t1, t2)
  BY <1>1, <1>4, RevertAndReplayLeads
<1> HIDE DEF t2
<1>6. End(t2) = End(t)
  BY <1>1, <1>5 DEF End
<1>7. CASE ~IsUndo(m)
  <2>1. u = ReplayFork(t2)
    BY <1>1, <1>7
  <2>2. Chain(u) /\ Shows(u, t2.canvas)
    BY <1>5, <2>1, ReplayForkShows
  <2>3. ASSUME NEW b, Leads(t, b, End(t) - 1) PROVE Shows(u, b)
    <3>1. Leads(t1, b, End(t) - 1)
      BY <1>2, <2>3
    <3>2. b = t2.canvas
      BY <1>1, <1>5, <1>6, <3>1, LeadsOnce
    <3> QED BY <2>2, <3>2
  <2> QED BY <2>2, <2>3 DEF u
<1>8. CASE IsUndo(m)
  <2>1. t1.fork = <<>> /\ t2.fork = <<>>
    BY <1>1, <1>5, <1>8 DEF SameFork
  <2>2. Shows(t2, t2.canvas)
    BY <1>5, <2>1, PaintNone DEF Shows
  <2>3. At(t2, End(t2) - 1) = At(t, End(t) - 1)
    BY <1>1, <1>5, <1>6 DEF At
  <2> DEFINE x == HandleUndo(t2, m, clock)
  <2>4. Chain(x) /\ \E b : Shows(x, b)
    BY <1>5, <1>8, <2>2, <2>3, HandleUndoShows
  <2>5. x.fork = <<>>
    BY <1>5, <2>1, HandleUndoGood
  <2>6. u = ReplayFork(x)
    BY <1>1, <1>8
  <2> HIDE DEF x
  <2>7. u = x
    BY <2>5, <2>6 DEF ReplayFork
  <2> QED BY <1>8, <2>4, <2>7 DEF u
<1> QED BY <1>7, <1>8

(* When the pen is down, only what the client itself undoes is received.    *)
OwnUndo(t, m) == IsUndo(m) /\ t.pen => \A i \in DOMAIN t.fork : t.fork[i].by = m.by

(* receiveCommand                                                           *)
LEMMA ReceiveCommandShows ==
  ASSUME NEW t, Good(t), Chain(t), NEW b, Shows(t, b), NEW m \in Msg, NEW clock,
         OwnUndo(t, m)
  PROVE  LET u == ReceiveCommand(t, m, clock) IN
         /\ Chain(u) /\ \E w : Shows(u, w)
         /\ ~IsUndo(m) => Shows(u, Paint(b, m))
<1> DEFINE a == HandleReceivedMessage(AppendMessage(t, m), m)
           t1 == a[2]
           u == ReceiveCommand(t, m, clock)
<1>1. /\ Good(t1) /\ End(t1) = End(t) + 1 /\ t1.offset = t.offset
      /\ t1.history = Append(t.history, [m |-> m, undo |-> "DONE"])
      /\ t1.savepoints = t.savepoints /\ t1.canvas = t.canvas
      /\ t1.forkAt = t.forkAt /\ t1.pen = t.pen
      /\ Outcome(t, m, a)
  BY ReceivedGood
<1> DEFINE pos == End(t1) - 1
<1>2. /\ t \in Tracker /\ t1 \in Tracker /\ End(t) \in Nat /\ t.fork \in Seq(Msg)
      /\ t.history \in Seq(Entry) /\ t.offset \in Nat
      /\ t.savepoints \in Seq(Savepoint) /\ t1.fork \in Seq(Msg)
  BY <1>1, HistoryType, TrackerFields DEF Good
<1>3. /\ a[1] = "ROLLBACK" => u = Rollback(t1, m, clock)
      /\ a[1] = "CONCURRENT" /\ IsUndo(m) => u = HandleUndo(t1, m, clock)
      /\ a[1] = "CONCURRENT" /\ ~IsUndo(m) => u = HandleCommand(t1, m, FALSE, pos, clock)
      /\ a[1] = "ALREADYDONE" /\ IsUndo(m) => u = HandleUndo(t1, m, clock)
      /\ a[1] = "ALREADYDONE" /\ ~IsUndo(m) /\ m.t = "UndoPoint"
           => u = HandleCommand(t1, m, FALSE, pos, clock)
      /\ a[1] = "ALREADYDONE" /\ ~IsUndo(m) /\ m.t # "UndoPoint" => u = t1
  BY DEF ReceiveCommand
<1> HIDE DEF t1, u, a
<1>4. pos = End(t) /\ pos \in Int /\ pos < End(t1) /\ pos - 1 = End(t) - 1
  BY <1>1, <1>2
<1>5. At(t1, pos) = [m |-> m, undo |-> "DONE"] /\ \A i \in Valid(t) : At(t1, i) = At(t, i)
  <2>1. [m |-> m, undo |-> "DONE"] \in Entry
    BY DEF Entry, UndoState
  <2>2. pos - t.offset + 1 = Len(t.history) + 1
    BY <1>2, <1>4 DEF End
  <2>3. \A i \in Valid(t) : i - t.offset + 1 \in 1 .. Len(t.history)
    BY <1>2 DEF Valid, End
  <2> QED BY <1>1, <1>2, <2>1, <2>2, <2>3 DEF At
<1> HIDE DEF pos
<1>6. Shifted(t, t1, 0)
  <2>1. \A j \in DOMAIN t.savepoints : j + 0 = j
    BY <1>2
  <2> QED BY <1>1, <2>1 DEF Shifted
<1>7. \A p \in Int : p <= End(t) - 1 => AlikeUpto(t, t1, p)
  <2>1. \A i \in Valid(t1) : i <= End(t) - 1 => i \in Valid(t)
    BY <1>1, <1>2 DEF Valid
  <2>2. \A i \in Valid(t1) : i \in Int
    BY <1>1, <1>2 DEF Valid
  <2>3. \A p \in Int : p <= End(t) - 1 => \A i \in Valid(t1) : i <= p => i <= End(t) - 1
    BY <1>2, <2>2
  <2> QED BY <1>5, <2>1, <2>3 DEF AlikeUpto, Alike
<1>8. Chain(t1)
  <2>1. \A k \in DOMAIN t1.savepoints : t1.savepoints[k].at \in Int
                                        /\ t1.savepoints[k].at <= End(t) - 1
    BY <1>1, <1>2, SavepointType DEF Good, Ordered
  <2>2. \A k \in DOMAIN t1.savepoints : AlikeUpto(t, t1, t1.savepoints[k].at)
    BY <1>7, <2>1
  <2> QED BY <1>1, <1>6, <2>2, ChainFrame
<1>9. Leads(t, b, End(t) - 1) /\ t.canvas = PaintAll(b, t.fork) /\ b \in Canvas
  BY DEF Shows, Leads
<1>10. Leads(t1, b, pos - 1)
  <2>1. AlikeUpto(t, t1, End(t) - 1) /\ End(t) - 1 < End(t1)
    BY <1>1, <1>2, <1>7
  <2> QED BY <1>1, <1>4, <1>6, <1>9, <2>1, LeadsFrame
<1>11. Leads(t1, Paint(b, m), pos)
  <2>1. Effect(b, At(t1, pos)) = Paint(b, m)
    BY <1>5 DEF Effect
  <2> QED BY <1>1, <1>4, <1>10, <2>1, LeadsStep
<1>12. Paint(b, m) \in Canvas
  BY <1>9, PaintType
<1>13. Silent(m) => Paint(b, m) = b
  BY <1>9, PaintSilent
<1>14. IsUndo(m) => Silent(m)
  BY DEF IsUndo, Silent
<1>15. ASSUME t1.canvas = PaintAll(Paint(b, m), t1.fork)
       PROVE  Shows(t1, Paint(b, m))
  BY <1>11, <1>15 DEF Shows, pos
<1>16. ASSUME IsUndo(m), Shows(t1, Paint(b, m)), u = HandleUndo(t1, m, clock)
       PROVE  Chain(u) /\ \E w : Shows(u, w)
  <2>1. Silent(At(t1, End(t1) - 1).m)
    BY <1>5, <1>14, <1>16 DEF pos
  <2> QED BY <1>1, <1>8, <1>16, <2>1, HandleUndoShows
<1>17. ASSUME t1.fork = <<>> => b = t1.canvas, u = HandleCommand(t1, m, FALSE, pos, clock),
              Paint(t1.canvas, m) = PaintAll(Paint(b, m), t1.fork)
       PROVE  Chain(u) /\ Shows(u, Paint(b, m))
  <2>1. PICK no \in BOOLEAN : no = FALSE
    OBVIOUS
  <2> DEFINE w == HandleCommand(t1, m, no, pos, clock)
  <2>2. Chain(w) /\ Leads(w, Paint(b, m), pos) /\ w.canvas = Paint(t1.canvas, m)
    BY <1>1, <1>4, <1>5, <1>8, <1>10, <1>17, HandleCommandLeads
  <2>3. -1 <= pos /\ SavedBy(t1, pos)
    BY <1>2, <1>4, <1>11 DEF Leads
  <2>4. End(w) = End(t1) /\ SameFork(t1, w)
    BY <1>1, <1>4, <2>3, HandleCommandGood
  <2>5. u = w
    BY <1>17, <2>1
  <2> HIDE DEF w
  <2>6. Shows(w, Paint(b, m))
    BY <1>17, <2>2, <2>4 DEF Shows, SameFork, pos
  <2> QED BY <2>2, <2>5, <2>6
<1>18. CASE t.fork = <<>> /\ a[1] = "CONCURRENT" /\ t1.fork = t.fork
  <2>1. t1.canvas = b
    BY <1>1, <1>9, <1>18, PaintNone
  <2>2. PaintAll(Paint(b, m), t1.fork) = Paint(b, m)
    BY <1>18, PaintNone
  <2>3. CASE IsUndo(m)
    <3>1. Shows(t1, Paint(b, m))
      BY <1>13, <1>14, <1>15, <2>1, <2>2, <2>3
    <3>2. Chain(u) /\ \E w : Shows(u, w)
      BY <1>3, <1>16, <1>18, <2>3, <3>1
    <3> QED BY <2>3, <3>2 DEF u
  <2>4. CASE ~IsUndo(m)
    <3>1. Chain(u) /\ Shows(u, Paint(b, m))
      BY <1>3, <1>17, <1>18, <2>1, <2>2, <2>4
    <3> QED BY <3>1 DEF u
  <2> QED BY <2>3, <2>4
<1>19. CASE /\ t.fork # <<>> /\ m = Head(t.fork)
            /\ a[1] = "ALREADYDONE" /\ t1.fork = Tail(t.fork)
  <2>1. t1.canvas = PaintAll(Paint(b, m), t1.fork)
    BY <1>1, <1>2, <1>9, <1>19, PaintHead
  <2>2. Shows(t1, Paint(b, m))
    BY <1>15, <2>1
  <2>3. CASE IsUndo(m)
    <3>1. Chain(u) /\ \E w : Shows(u, w)
      BY <1>3, <1>16, <1>19, <2>2, <2>3
    <3> QED BY <2>3, <3>1 DEF u
  <2>4. CASE ~IsUndo(m) /\ m.t = "UndoPoint"
    <3>1. Silent(m)
      BY <2>4 DEF Silent
    <3>2. t1.canvas \in Canvas
      BY <1>2, TrackerFields
    <3>3. Paint(t1.canvas, m) = t1.canvas
      BY <3>1, <3>2, PaintSilent
    <3>4. t1.fork = <<>> => b = t1.canvas
      BY <1>13, <2>1, <3>1, PaintNone
    <3>5. Chain(u) /\ Shows(u, Paint(b, m))
      BY <1>3, <1>17, <1>19, <2>1, <2>4, <3>3, <3>4
    <3> QED BY <3>5 DEF u
  <2>5. CASE ~IsUndo(m) /\ m.t # "UndoPoint"
    <3>1. u = t1
      BY <1>3, <1>19, <2>5
    <3> QED BY <1>8, <2>2, <3>1 DEF u
  <2> QED BY <2>3, <2>4, <2>5
<1>20. CASE /\ a[1] = "ROLLBACK" /\ t.fork # <<>>
            /\ t1.fork = <<>> \/ m.by # Head(t.fork).by
  <2>1. u = Rollback(t1, m, clock)
    BY <1>3, <1>20
  <2>2. SavedBy(t1, t1.forkAt)
    BY <1>1, <1>20 DEF Good, BeforeFork, SavedBy
  <2>3. Silent(At(t1, End(t1) - 1).m) \/ ~IsUndo(m)
    BY <1>5, <1>14 DEF pos
  <2>4. Leads(t1, Paint(b, m), End(t1) - 1)
    BY <1>11 DEF pos
  <2>5. /\ Chain(u) /\ \E w : Shows(u, w)
        /\ ~IsUndo(m) => \A x : Leads(t1, x, End(t1) - 1) => Shows(u, x)
    <3>1. 1 \in DOMAIN t.fork /\ Head(t.fork) = t.fork[1]
      BY <1>2, <1>20
    <3>2. ~(IsUndo(m) /\ t1.pen /\ t1.fork # <<>>)
      BY <1>1, <1>20, <3>1 DEF OwnUndo
    <3> QED BY <1>1, <1>8, <2>1, <2>2, <2>3, <3>2, RollbackShows
  <2> QED BY <2>4, <2>5 DEF u
<1>21. CASE /\ t.fork # <<>> /\ \A i \in DOMAIN t.fork : IsConcurrentWith(m, t.fork[i])
            /\ a[1] = "CONCURRENT" /\ t1.fork = t.fork
  <2>1. ~IsUndo(m)
    <3>1. 1 \in DOMAIN t.fork
      BY <1>2, <1>21
    <3> QED BY <1>21, <3>1 DEF IsConcurrentWith, Everything, IsUndo
  <2>2. Paint(t1.canvas, m) = PaintAll(Paint(b, m), t1.fork)
    BY <1>1, <1>2, <1>9, <1>21, PaintForkCommutes
  <2>3. Chain(u) /\ Shows(u, Paint(b, m))
    BY <1>3, <1>17, <1>21, <2>1, <2>2
  <2> QED BY <2>3 DEF u
<1>22. \/ t.fork = <<>> /\ a[1] = "CONCURRENT" /\ t1.fork = t.fork
       \/ /\ t.fork # <<>> /\ m = Head(t.fork)
          /\ a[1] = "ALREADYDONE" /\ t1.fork = Tail(t.fork)
       \/ /\ a[1] = "ROLLBACK" /\ t.fork # <<>>
          /\ t1.fork = <<>> \/ m.by # Head(t.fork).by
       \/ /\ t.fork # <<>> /\ \A i \in DOMAIN t.fork : IsConcurrentWith(m, t.fork[i])
          /\ a[1] = "CONCURRENT" /\ t1.fork = t.fork
  BY <1>1 DEF Outcome, t1
<1> QED BY <1>18, <1>19, <1>20, <1>21, <1>22

(* localCommand                                                             *)
LEMMA LocalCommandShows ==
  ASSUME NEW t, Good(t), Chain(t), NEW b, Shows(t, b), NEW m \in Msg, NEW clock
  PROVE  LET u == LocalCommand(t, m, clock) IN Chain(u) /\ Shows(u, b)
<1> DEFINE u == LocalCommand(t, m, clock)
<1>1. PICK w : ForkBegun(t, w) /\ u = WithMessage(w, m)
  BY LocalCommandIs
<1>2. Good(u)
  BY LocalCommandGood
<1> HIDE DEF u
<1>3. /\ Good(w) /\ w.offset = t.offset /\ w.history = t.history
      /\ w.canvas = t.canvas /\ w.fork = t.fork
  BY <1>1 DEF ForkBegun
<1>4. Leads(t, b, End(t) - 1) /\ t.canvas = PaintAll(b, t.fork) /\ b \in Canvas
  BY DEF Shows, Leads
<1>5. Chain(w) /\ Leads(w, b, End(t) - 1)
  <2>1. CASE w.savepoints = t.savepoints
    BY <1>3, <1>4, <2>1, SameHistoryFrame
  <2>2. CASE /\ t.fork = <<>>
             /\ w.savepoints = Append(t.savepoints, [at |-> End(t) - 1, canvas |-> t.canvas])
    <3>1. t.canvas = b
      BY <1>4, <2>2, PaintNone
    <3> QED BY <1>3, <1>4, <2>2, <3>1, AppendSavepoint
  <2> QED BY <1>1, <2>1, <2>2 DEF ForkBegun
<1>6. w \in Tracker /\ w.fork \in Seq(Msg)
  BY <1>3, TrackerFields DEF Good
<1>7. /\ u.offset = w.offset /\ u.history = w.history /\ u.savepoints = w.savepoints
      /\ u.fork = Append(w.fork, m) /\ u.canvas = Paint(w.canvas, m)
  BY <1>1, <1>6 DEF WithMessage, Tracker
<1>8. Chain(u) /\ End(u) = End(w) /\ Leads(u, b, End(t) - 1)
  BY <1>2, <1>3, <1>5, <1>7, SameHistoryFrame
<1>9. End(w) = End(t)
  BY <1>3 DEF End
<1>10. u.canvas = PaintAll(b, u.fork)
  BY <1>3, <1>4, <1>6, <1>7, PaintAppend
<1> QED BY <1>8, <1>9, <1>10 DEF Shows, u

(* What a message of the log adds to the canvas of a client.                *)
Logged(v, e) == IF e.filtered THEN v ELSE Paint(v, e.m)

LEMMA HandledShows ==
  ASSUME NEW t, Good(t), Chain(t), NEW b, Shows(t, b), NEW e \in LogEntry, NEW clock,
         OwnUndo(t, e.m)
  PROVE  LET u == Handled(t, e, clock) IN
         /\ Chain(u) /\ \E w : Shows(u, w)
         /\ ~IsUndo(e.m) => Shows(u, Logged(b, e))
<1>1. e.m \in Msg /\ b \in Canvas
  BY DEF LogEntry, Shows, Leads
<1>2. CASE e.filtered
  BY <1>2 DEF Handled, Logged
<1>3. CASE ~e.filtered /\ e.m.t = "SoftReset"
  <2> DEFINE Ix == {i \in Valid(t) : IsUndoPoint(t, i)
                                     /\ UndoPoints(t, i + 1, End(t) - 1) <= UndoDepth}
  <2>1. Handled(t, e, clock) = SetUndoState(t, Ix, "GONE")
    BY <1>3, HandleTruncateHistoryIs DEF Handled
  <2>2. \A i \in Valid(t) : i \in Ix => Silent(At(t, i).m)
    BY DEF IsUndoPoint, Silent
  <2> HIDE DEF Ix
  <2>3. "GONE" \in UndoState
    BY DEF UndoState
  <2> DEFINE u == SetUndoState(t, Ix, "GONE")
  <2>4. Chain(u) /\ Shows(u, b)
    BY <2>2, <2>3, SetUndoStateShows
  <2>5. Logged(b, e) = b
    BY <1>1, <1>3, PaintSilent DEF Logged, Silent
  <2> HIDE DEF u
  <2>6. Chain(u) /\ (\E w : Shows(u, w)) /\ Shows(u, Logged(b, e))
    BY <2>4, <2>5
  <2> QED BY <2>1, <2>6 DEF u
<1>4. CASE ~e.filtered /\ e.m.t # "SoftReset"
  <2> DEFINE u == ReceiveCommand(t, e.m, clock)
  <2>1. Handled(t, e, clock) = u
    BY <1>4 DEF Handled
  <2>2. /\ Chain(u) /\ \E w : Shows(u, w)
        /\ ~IsUndo(e.m) => Shows(u, Paint(b, e.m))
    BY <1>1, ReceiveCommandShows
  <2>3. Logged(b, e) = Paint(b, e.m)
    BY <1>4 DEF Logged
  <2> HIDE DEF u
  <2> QED BY <2>1, <2>2, <2>3
<1> QED BY <1>2, <1>3, <1>4

(***************************************************************************)
(* Pens and undo                                                           *)
(***************************************************************************)

(* Who sends an Undo or a Redo.                                             *)
Undoes(c) == Does[c] \cap {"Undo", "Redo"} # {}

NobodyUndoes == \A c \in Client : ~Undoes(c)

(* Only pen users have the pen down.                                        *)
PensDown == \A c \in Client : tracker[c].pen => c \in PenUsers

(* An Undo or Redo in the log, or on its way to it, is of somebody who      *)
(* sends them.                                                              *)
MayBeSaid(m) == IsUndo(m) => Undoes(m.by)

UndoSent ==
  /\ \A i \in DOMAIN log : MayBeSaid(log[i].m)
  /\ \A c \in Client : \A i \in DOMAIN sent[c] : MayBeSaid(sent[c][i])

LEMMA PensInit == Init => PensDown
  BY DEF Init, PensDown, NewTracker

LEMMA PensNext == PositionInv /\ PensDown /\ [Next]_vars => PensDown'
<1> SUFFICES ASSUME PositionInv, PensDown, [Next]_vars PROVE PensDown'
  OBVIOUS
<1>1. tracker \in [Client -> Tracker] /\ log \in Seq(LogEntry) /\ read \in [Client -> Nat]
  BY DEF PositionInv, StateOK
<1>2. \A d \in Client : Good(tracker[d])
  BY DEF PositionInv, ClientOK
<1>3. CASE UNCHANGED vars
  BY <1>3 DEF vars, PensDown
<1>4. ASSUME NEW c \in Client, SendMessage(c) PROVE PensDown'
  <2>1. PICK m \in Msg :
           \/ m.t = "SoftReset" /\ tracker' = tracker
           \/ \E clock : tracker' = [tracker EXCEPT ![c] = LocalCommand(@, m, clock)]
    BY <1>4, SendMessageIs
  <2>2. CASE tracker' = tracker
    BY <2>2 DEF PensDown
  <2>3. CASE \E clock : tracker' = [tracker EXCEPT ![c] = LocalCommand(@, m, clock)]
    <3>1. PICK clock : tracker' = [tracker EXCEPT ![c] = LocalCommand(@, m, clock)]
      BY <2>3
    <3>2. LocalCommand(tracker[c], m, clock).pen = tracker[c].pen
      BY <1>2, LocalCommandGood
    <3>3. \A d \in Client : tracker'[d].pen = tracker[d].pen
      BY <1>1, <3>1, <3>2
    <3> QED BY <3>3 DEF PensDown
  <2> QED BY <2>1, <2>2, <2>3
<1>5. ASSUME NEW c \in Client, SetLocalDrawingInProgress(c) PROVE PensDown'
  <2>1. c \in PenUsers /\ tracker' = [tracker EXCEPT ![c].pen = ~@]
    BY <1>5 DEF SetLocalDrawingInProgress
  <2>2. \A d \in Client : d # c => tracker'[d] = tracker[d]
    BY <1>1, <2>1
  <2> QED BY <2>1, <2>2 DEF PensDown
<1>6. ASSUME NEW c \in Client, AddToHistory(c) PROVE PensDown'
  BY <1>6 DEF AddToHistory, PensDown
<1>7. ASSUME NEW c \in Client, Receive(c) PROVE PensDown'
  <2>1. PICK clock :
           /\ tracker' = [tracker EXCEPT ![c] = Handled(@, log[read[c] + 1], clock)]
           /\ read[c] < Len(log)
    BY <1>7, ReceiveIs
  <2>2. log[read[c] + 1] \in LogEntry
    BY <1>1, <2>1
  <2>3. Handled(tracker[c], log[read[c] + 1], clock).pen = tracker[c].pen
    BY <1>2, <2>2, HandledGood
  <2>4. \A d \in Client : tracker'[d].pen = tracker[d].pen
    BY <1>1, <2>1, <2>3
  <2> QED BY <2>4 DEF PensDown
<1> QED BY <1>3, <1>4, <1>5, <1>6, <1>7 DEF Next

LEMMA UndoSentInit == Init => UndoSent
  BY DEF Init, UndoSent

LEMMA UndoSentNext == PositionInv /\ UndoSent /\ [Next]_vars => UndoSent'
<1> SUFFICES ASSUME PositionInv, UndoSent, [Next]_vars PROVE UndoSent'
  OBVIOUS
<1>1. log \in Seq(LogEntry) /\ sent \in [Client -> Seq(Msg)] /\ count \in [Client -> Nat]
  BY DEF PositionInv, StateOK
<1>2. CASE UNCHANGED vars
  BY <1>2 DEF vars, UndoSent
<1>3. ASSUME NEW c \in Client, SendMessage(c) PROVE UndoSent'
  <2>1. PICK m \in Message(c) : m.t \in Does[c] /\ sent' = [sent EXCEPT ![c] = Append(@, m)]
    BY <1>3 DEF SendMessage, MayDo
  <2>2. m \in Msg /\ m.by = c
    BY <1>1, MessageType
  <2>3. MayBeSaid(m)
    BY <2>1, <2>2 DEF MayBeSaid, IsUndo, Undoes
  <2>4. log' = log
    BY <1>3 DEF SendMessage
  <2>5. ASSUME NEW d \in Client, NEW i \in DOMAIN sent'[d] PROVE MayBeSaid(sent'[d][i])
    <3>1. CASE d # c
      BY <1>1, <2>1, <2>5, <3>1 DEF UndoSent
    <3>2. CASE d = c
      <4>1. sent[c] \in Seq(Msg) /\ sent'[d] = Append(sent[c], m)
        BY <1>1, <2>1, <3>2
      <4>2. i \in 1 .. Len(sent[c]) + 1
        BY <2>2, <2>5, <4>1
      <4>3. CASE i \in 1 .. Len(sent[c])
        <5>1. i \in DOMAIN sent[c] /\ sent'[d][i] = sent[c][i]
          BY <2>2, <4>1, <4>3
        <5> QED BY <5>1 DEF UndoSent
      <4>4. CASE i = Len(sent[c]) + 1
        <5>1. sent'[d][i] = m
          BY <2>2, <4>1, <4>4
        <5> QED BY <2>3, <5>1
      <4> QED BY <4>1, <4>2, <4>3, <4>4
    <3> QED BY <3>1, <3>2
  <2> QED BY <2>4, <2>5 DEF UndoSent
<1>4. ASSUME NEW c \in Client, SetLocalDrawingInProgress(c) PROVE UndoSent'
  BY <1>4 DEF SetLocalDrawingInProgress, UndoSent
<1>5. ASSUME NEW c \in Client, AddToHistory(c) PROVE UndoSent'
  <2>1. PICK e \in LogEntry :
           /\ sent[c] # <<>> /\ e.m = Head(sent[c])
           /\ log' = Append(log, e)
           /\ sent' = [sent EXCEPT ![c] = Tail(@)]
    BY <1>5, AddToHistoryIs
  <2>2. sent[c] \in Seq(Msg)
    BY <1>1
  <2>3. 1 \in DOMAIN sent[c] /\ Head(sent[c]) = sent[c][1]
    BY <2>1, <2>2
  <2>4. MayBeSaid(e.m)
    BY <2>1, <2>3 DEF UndoSent
  <2>5. \A i \in DOMAIN log' : MayBeSaid(log'[i].m)
    <3>1. \A i \in DOMAIN log' : (i \in DOMAIN log /\ log'[i] = log[i]) \/ log'[i] = e
      BY <1>1, <2>1
    <3> QED BY <2>4, <3>1 DEF UndoSent
  <2>6. \A i \in DOMAIN Tail(sent[c]) : i + 1 \in DOMAIN sent[c] /\ Tail(sent[c])[i] = sent[c][i + 1]
    BY <2>1, <2>2, HeadTailProperties
  <2>7. \A d \in Client : \A i \in DOMAIN sent'[d] : MayBeSaid(sent'[d][i])
    <3>1. sent'[c] = Tail(sent[c]) /\ \A d \in Client : d # c => sent'[d] = sent[d]
      BY <1>1, <2>1
    <3>2. \A i \in DOMAIN sent'[c] : MayBeSaid(sent'[c][i])
      <4>1. \A i \in DOMAIN sent[c] : MayBeSaid(sent[c][i])
        BY DEF UndoSent
      <4> QED BY <2>6, <3>1, <4>1
    <3>3. ASSUME NEW d \in Client, d # c
          PROVE  \A i \in DOMAIN sent'[d] : MayBeSaid(sent'[d][i])
      BY <3>1, <3>3 DEF UndoSent
    <3> QED BY <3>2, <3>3
  <2> QED BY <2>5, <2>7 DEF UndoSent
<1>6. ASSUME NEW c \in Client, Receive(c) PROVE UndoSent'
  BY <1>6 DEF Receive, UndoSent
<1> QED BY <1>2, <1>3, <1>4, <1>5, <1>6 DEF Next


(***************************************************************************)
(* Every savepoint restores the canvas                                     *)
(***************************************************************************)

(* The one thing the repair gets wrong is excluded: an Undo of somebody     *)
(* else that meets a local fork, kept because the pen is down.              *)
NoUndoUnderPen == \A c \in PenUsers : \A d \in Client : d # c => ~Undoes(d)

(* Every client shows its local fork on the canvas its savepoints lead to.  *)
Restored ==
  \A c \in Client : Chain(tracker[c]) /\ \E b : Shows(tracker[c], b)

CanvasInv ==
  PositionInv /\ PensDown /\ NoUndoUnderPen /\ UndoSent /\ Restored

LEMMA NewTrackerShows == Chain(NewTracker) /\ Shows(NewTracker, Blank)
<1> DEFINE t == NewTracker
<1>1. Good(t) /\ End(t) = 0 /\ t.fork = <<>> /\ t \in Tracker
  BY NewTrackerGood DEF Good
<1>2. t.canvas = Blank /\ t.savepoints = <<[at |-> -1, canvas |-> Blank]>>
  BY DEF NewTracker
<1> HIDE DEF t
<1>3. \A j \in DOMAIN t.savepoints : t.savepoints[j] = [at |-> -1, canvas |-> Blank]
  BY <1>2
<1>4. Upon(t, Blank, -1, -1) = Blank
  BY <1>1, UponNothing
<1>5. Chain(t)
  BY <1>3, <1>4 DEF Chain
<1>6. Leads(t, Blank, -1)
  BY <1>1, <1>3, <1>4, BlankType DEF Leads, SavedBy
<1>7. End(t) - 1 = -1
  BY <1>1
<1>8. Shows(t, Blank)
  BY <1>1, <1>2, <1>6, <1>7, PaintNone DEF Shows
<1> QED BY <1>5, <1>8 DEF t

(* The steps of the system, as far as the trackers go.                      *)
LEMMA TrackerSteps ==
  ASSUME PositionInv, [Next]_vars, NEW d \in Client
  PROVE  \/ tracker'[d] = tracker[d] /\ read'[d] = read[d]
         \/ /\ \E m \in Msg : \E clock : tracker'[d] = LocalCommand(tracker[d], m, clock)
            /\ read'[d] = read[d]
         \/ /\ tracker'[d] = [tracker[d] EXCEPT !.pen = ~@]
            /\ read'[d] = read[d]
         \/ /\ \E clock : tracker'[d] = Handled(tracker[d], log[read[d] + 1], clock)
            /\ read'[d] = read[d] + 1 /\ read[d] + 1 \in DOMAIN log
            /\ log[read[d] + 1] \in LogEntry /\ log' = log
<1>1. tracker \in [Client -> Tracker] /\ log \in Seq(LogEntry) /\ read \in [Client -> Nat]
  BY DEF PositionInv, StateOK
<1>2. CASE UNCHANGED vars
  BY <1>2 DEF vars
<1>3. ASSUME NEW c \in Client, SendMessage(c)
      PROVE  \/ tracker'[d] = tracker[d] /\ read'[d] = read[d]
             \/ /\ \E m \in Msg : \E clock : tracker'[d] = LocalCommand(tracker[d], m, clock)
                /\ read'[d] = read[d]
  <2>1. PICK m \in Msg :
           \/ m.t = "SoftReset" /\ tracker' = tracker
           \/ \E clock : tracker' = [tracker EXCEPT ![c] = LocalCommand(@, m, clock)]
    BY <1>3, SendMessageIs
  <2>2. read' = read
    BY <1>3 DEF SendMessage
  <2>3. CASE tracker' = tracker
    BY <2>2, <2>3
  <2>4. CASE \E clock : tracker' = [tracker EXCEPT ![c] = LocalCommand(@, m, clock)]
    <3>1. PICK clock : tracker' = [tracker EXCEPT ![c] = LocalCommand(@, m, clock)]
      BY <2>4
    <3>2. CASE d = c
      <4>1. tracker'[d] = LocalCommand(tracker[d], m, clock)
        BY <1>1, <3>1, <3>2
      <4> QED BY <2>2, <4>1
    <3>3. CASE d # c
      BY <1>1, <2>2, <3>1, <3>3
    <3> QED BY <3>2, <3>3
  <2> QED BY <2>1, <2>3, <2>4
<1>4. ASSUME NEW c \in Client, SetLocalDrawingInProgress(c)
      PROVE  \/ tracker'[d] = tracker[d] /\ read'[d] = read[d]
             \/ /\ tracker'[d] = [tracker[d] EXCEPT !.pen = ~@]
                /\ read'[d] = read[d]
  <2>1. tracker' = [tracker EXCEPT ![c].pen = ~@] /\ read' = read
    BY <1>4 DEF SetLocalDrawingInProgress
  <2> QED BY <1>1, <2>1
<1>5. ASSUME NEW c \in Client, AddToHistory(c)
      PROVE  tracker'[d] = tracker[d] /\ read'[d] = read[d]
  BY <1>5 DEF AddToHistory
<1>6. ASSUME NEW c \in Client, Receive(c)
      PROVE  \/ tracker'[d] = tracker[d] /\ read'[d] = read[d]
             \/ /\ \E clock : tracker'[d] = Handled(tracker[d], log[read[d] + 1], clock)
                /\ read'[d] = read[d] + 1 /\ read[d] + 1 \in DOMAIN log
                /\ log[read[d] + 1] \in LogEntry /\ log' = log
  <2>1. PICK clock :
           /\ tracker' = [tracker EXCEPT ![c] = Handled(@, log[read[c] + 1], clock)]
           /\ read' = [read EXCEPT ![c] = @ + 1] /\ read[c] < Len(log)
           /\ log' = log
    BY <1>6, ReceiveIs
  <2>2. CASE d # c
    BY <1>1, <2>1, <2>2
  <2>3. CASE d = c
    <3>1. tracker'[d] = Handled(tracker[d], log[read[d] + 1], clock) /\ read'[d] = read[d] + 1
      BY <1>1, <2>1, <2>3
    <3>2. read[d] + 1 \in DOMAIN log /\ log[read[d] + 1] \in LogEntry
      BY <1>1, <2>1, <2>3
    <3> QED BY <2>1, <3>1, <3>2
  <2> QED BY <2>2, <2>3
<1> QED BY <1>2, <1>3, <1>4, <1>5, <1>6 DEF Next

(* Putting the pen down or lifting it shows nothing new.                    *)
LEMMA PenShows ==
  ASSUME NEW t, Good(t), Chain(t), NEW b, Shows(t, b)
  PROVE  LET u == [t EXCEPT !.pen = ~@] IN Chain(u) /\ Shows(u, b)
<1> DEFINE u == [t EXCEPT !.pen = ~@]
<1>1. t \in Tracker
  BY DEF Good
<1>2. /\ u.offset = t.offset /\ u.history = t.history /\ u.savepoints = t.savepoints
      /\ u.fork = t.fork /\ u.canvas = t.canvas
  BY <1>1 DEF Tracker
<1> HIDE DEF u
<1>3. \A a, i, w : Upon(u, w, a, i) = Upon(t, w, a, i)
  BY <1>2 DEF Upon, Painted, At
<1>4. End(u) = End(t)
  BY <1>2 DEF End
<1>5. Chain(u)
  BY <1>2, <1>3 DEF Chain
<1>6. Shows(u, b)
  BY <1>2, <1>3, <1>4 DEF Shows, Leads, SavedBy
<1> QED BY <1>5, <1>6 DEF u

LEMMA CanvasInit == Init /\ NoUndoUnderPen => CanvasInv
<1> SUFFICES ASSUME Init, NoUndoUnderPen PROVE CanvasInv
  OBVIOUS
<1>1. \A c \in Client : tracker[c] = NewTracker
  BY DEF Init
<1>2. Restored
  BY <1>1, NewTrackerShows DEF Restored
<1> QED BY <1>2, PositionInit, PensInit, UndoSentInit DEF CanvasInv

LEMMA CanvasNext == CanvasInv /\ [Next]_vars => CanvasInv'
<1> SUFFICES ASSUME CanvasInv, [Next]_vars PROVE CanvasInv'
  OBVIOUS
<1>1. PositionInv /\ PensDown /\ NoUndoUnderPen /\ UndoSent /\ Restored
  BY DEF CanvasInv
<1>2. PositionInv' /\ PensDown' /\ UndoSent'
  BY <1>1, PositionNext, PensNext, UndoSentNext
<1>3. ASSUME NEW d \in Client PROVE Chain(tracker'[d]) /\ \E b : Shows(tracker'[d], b)
  <2> DEFINE t == tracker[d]
             u == tracker'[d]
  <2>1. Good(t) /\ Chain(t)
    BY <1>1 DEF PositionInv, ClientOK, Restored
  <2>2. PICK b : Shows(t, b)
    BY <1>1 DEF Restored
  <2>3. \/ u = t
        \/ \E m \in Msg : \E clock : u = LocalCommand(t, m, clock)
        \/ u = [t EXCEPT !.pen = ~@]
        \/ /\ \E clock : u = Handled(t, log[read[d] + 1], clock)
           /\ read[d] + 1 \in DOMAIN log /\ log[read[d] + 1] \in LogEntry
    BY <1>1, TrackerSteps
  <2>4. t.pen => d \in PenUsers
    BY <1>1 DEF PensDown
  <2> HIDE DEF t, u
  <2>5. CASE u = t
    BY <2>1, <2>2, <2>5 DEF u
  <2>6. CASE \E m \in Msg : \E clock : u = LocalCommand(t, m, clock)
    <3>1. Chain(u) /\ Shows(u, b)
      BY <2>1, <2>2, <2>6, LocalCommandShows
    <3> QED BY <3>1 DEF u
  <2>7. CASE u = [t EXCEPT !.pen = ~@]
    <3>1. Chain(u) /\ Shows(u, b)
      BY <2>1, <2>2, <2>7, PenShows
    <3> QED BY <3>1 DEF u
  <2>8. CASE /\ \E clock : u = Handled(t, log[read[d] + 1], clock)
             /\ read[d] + 1 \in DOMAIN log /\ log[read[d] + 1] \in LogEntry
    <3>1. OwnUndo(t, log[read[d] + 1].m)
      <4> DEFINE m == log[read[d] + 1].m
      <4>1. MayBeSaid(m) /\ m.by \in Client
        BY <1>1, <2>8 DEF UndoSent, LogEntry, Msg
      <4>2. \A i \in DOMAIN t.fork : t.fork[i].by = d
        BY <1>1 DEF PositionInv, ClientOK, t
      <4> HIDE DEF m
      <4>3. IsUndo(m) /\ t.pen => m.by = d
        BY <1>1, <2>4, <4>1 DEF MayBeSaid, NoUndoUnderPen
      <4> QED BY <4>2, <4>3 DEF OwnUndo, m
    <3>2. Chain(u) /\ \E w : Shows(u, w)
      BY <2>1, <2>2, <2>8, <3>1, HandledShows
    <3> QED BY <3>2 DEF u
  <2> QED BY <2>3, <2>5, <2>6, <2>7, <2>8
<1>4. Restored'
  BY <1>3 DEF Restored
<1>5. NoUndoUnderPen'
  BY <1>1 DEF NoUndoUnderPen, Undoes
<1> QED BY <1>2, <1>4, <1>5 DEF CanvasInv

LEMMA CanvasImpliesRestore == CanvasInv => SavepointsRestore
<1> SUFFICES ASSUME CanvasInv, NEW c \in Client, NEW sp \in DOMAIN tracker[c].savepoints
             PROVE  LET t == tracker[c] IN
                    t.canvas = PaintAll(PaintAll(t.savepoints[sp].canvas,
                                 Painted(t, t.savepoints[sp].at, End(t) - 1)), t.fork)
  BY DEF SavepointsRestore
<1>1. PICK b : Shows(tracker[c], b)
  BY DEF CanvasInv, Restored
<1> QED BY <1>1 DEF Shows, Leads, Upon

(* Every savepoint that a client keeps leads back to the canvas it shows,   *)
(* whatever was drawn ahead, rolled back, undone, redone, released or       *)
(* forgotten, unless somebody else undoes while the pen is down: the fork   *)
(* may then be painted twice.                                               *)
THEOREM SavepointsLeadBack == Spec /\ NoUndoUnderPen => []SavepointsRestore
<1>1. Init /\ NoUndoUnderPen => CanvasInv
  BY CanvasInit
<1>2. CanvasInv /\ [Next]_vars => CanvasInv'
  BY CanvasNext
<1>3. CanvasInv => SavepointsRestore
  BY CanvasImpliesRestore
<1> QED BY <1>1, <1>2, <1>3, PTL DEF Spec

(***************************************************************************)
(* Without undo, every client shows what the log paints                    *)
(***************************************************************************)
LogPainted(l, n) == [i \in 1 .. n |-> IF l[i].filtered THEN Nothing ELSE l[i].m]

(* The canvas that the first n messages of the log paint.                   *)
LogCanvas(l, n) == PaintAll(Blank, LogPainted(l, n))

LogInv ==
  /\ PositionInv /\ NobodyUndoes /\ UndoSent
  /\ \A c \in Client : Chain(tracker[c]) /\ Shows(tracker[c], LogCanvas(log, read[c]))

LEMMA LogPaintedType ==
  ASSUME NEW l \in Seq(LogEntry), NEW n \in Nat, n <= Len(l)
  PROVE  /\ LogPainted(l, n) \in Seq(Msg \cup {Nothing}) /\ Len(LogPainted(l, n)) = n
         /\ \A i \in 1 .. n : LogPainted(l, n)[i] = IF l[i].filtered THEN Nothing ELSE l[i].m
<1>1. ASSUME NEW i \in 1 .. n
      PROVE  (IF l[i].filtered THEN Nothing ELSE l[i].m) \in Msg \cup {Nothing}
  <2>1. l[i] \in LogEntry
    OBVIOUS
  <2>2. l[i].m \in Msg
    BY <2>1 DEF LogEntry
  <2> QED BY <2>2
<1> QED BY <1>1 DEF LogPainted

LEMMA LogCanvasStep ==
  ASSUME NEW l \in Seq(LogEntry), NEW n \in Nat, n < Len(l), LogCanvas(l, n) \in Canvas
  PROVE  LogCanvas(l, n + 1) = Logged(LogCanvas(l, n), l[n + 1])
<1> DEFINE s == LogPainted(l, n + 1)
           r == LogPainted(l, n)
           M == Msg \cup {Nothing}
<1>1. /\ s \in Seq(M) /\ Len(s) = n + 1
      /\ \A i \in 1 .. n + 1 : s[i] = IF l[i].filtered THEN Nothing ELSE l[i].m
  <2>1. n + 1 \in Nat /\ n + 1 <= Len(l)
    OBVIOUS
  <2> QED BY <2>1, LogPaintedType
<1>2. /\ r \in Seq(M) /\ Len(r) = n
      /\ \A i \in 1 .. n : r[i] = IF l[i].filtered THEN Nothing ELSE l[i].m
  BY LogPaintedType
<1> HIDE DEF s, r, M
<1>3. Len(s) = Len(r) + 1 /\ \A i \in 1 .. Len(r) : s[i] = r[i]
  BY <1>1, <1>2
<1>4. PaintAll(Blank, s) = Paint(PaintAll(Blank, r), s[Len(s)])
  BY <1>1, <1>2, <1>3, PaintFront
<1>5. s[Len(s)] = IF l[n + 1].filtered THEN Nothing ELSE l[n + 1].m
  BY <1>1
<1>6. Paint(LogCanvas(l, n), Nothing) = LogCanvas(l, n)
  BY PaintSilent DEF Silent, Nothing
<1> QED BY <1>4, <1>5, <1>6 DEF LogCanvas, Logged, s, r

LEMMA LogInit == Init /\ NobodyUndoes => LogInv
<1> SUFFICES ASSUME Init, NobodyUndoes PROVE LogInv
  OBVIOUS
<1>1. LogPainted(log, 0) = <<>>
  BY DEF LogPainted
<1>2. LogCanvas(log, 0) = Blank
  BY <1>1, PaintNone DEF LogCanvas
<1>3. \A c \in Client : tracker[c] = NewTracker /\ read[c] = 0
  BY DEF Init
<1> QED BY <1>2, <1>3, NewTrackerShows, PositionInit, UndoSentInit DEF LogInv

LEMMA LogNext == LogInv /\ [Next]_vars => LogInv'
<1> SUFFICES ASSUME LogInv, [Next]_vars PROVE LogInv'
  OBVIOUS
<1>1. PositionInv /\ NobodyUndoes /\ UndoSent
  BY DEF LogInv
<1>2. PositionInv' /\ UndoSent'
  BY <1>1, PositionNext, UndoSentNext
<1>3. log \in Seq(LogEntry) /\ read \in [Client -> Nat]
  BY <1>1 DEF PositionInv, StateOK
<1>4. ASSUME NEW n \in Nat, n <= Len(log) PROVE LogCanvas(log', n) = LogCanvas(log, n)
  <2>1. \A i \in 1 .. n : log'[i] = log[i]
    <3>1. log' = log \/ \E e \in LogEntry : log' = Append(log, e)
      <4>1. CASE UNCHANGED vars
        BY <4>1 DEF vars
      <4>2. ASSUME NEW c \in Client, SendMessage(c) PROVE log' = log
        BY <4>2 DEF SendMessage
      <4>3. ASSUME NEW c \in Client, SetLocalDrawingInProgress(c) PROVE log' = log
        BY <4>3 DEF SetLocalDrawingInProgress
      <4>4. ASSUME NEW c \in Client, AddToHistory(c)
            PROVE  \E e \in LogEntry : log' = Append(log, e)
        BY <1>1, <4>4, AddToHistoryIs
      <4>5. ASSUME NEW c \in Client, Receive(c) PROVE log' = log
        BY <4>5 DEF Receive
      <4> QED BY <4>1, <4>2, <4>3, <4>4, <4>5 DEF Next
    <3>2. \A e \in LogEntry : \A i \in 1 .. n : Append(log, e)[i] = log[i]
      BY <1>3, <1>4
    <3> QED BY <3>1, <3>2
  <2>2. LogPainted(log', n) = LogPainted(log, n)
    BY <2>1 DEF LogPainted
  <2> QED BY <2>2 DEF LogCanvas
<1>5. ASSUME NEW d \in Client
      PROVE  Chain(tracker'[d]) /\ Shows(tracker'[d], LogCanvas(log', read'[d]))
  <2> DEFINE t == tracker[d]
             u == tracker'[d]
             n == read[d]
             b == LogCanvas(log, n)
  <2>1. Good(t) /\ Chain(t) /\ Shows(t, b) /\ n <= Len(log) /\ n \in Nat
    BY <1>1, <1>3 DEF PositionInv, ClientOK, LogInv
  <2>2. b \in Canvas
    BY <2>1 DEF Shows, Leads
  <2>3. \/ u = t /\ read'[d] = n
        \/ (\E m \in Msg : \E clock : u = LocalCommand(t, m, clock)) /\ read'[d] = n
        \/ u = [t EXCEPT !.pen = ~@] /\ read'[d] = n
        \/ /\ \E clock : u = Handled(t, log[n + 1], clock)
           /\ read'[d] = n + 1 /\ n + 1 \in DOMAIN log
           /\ log[n + 1] \in LogEntry /\ log' = log
    BY <1>1, TrackerSteps
  <2>4. read'[d] = n => LogCanvas(log', read'[d]) = b
    BY <1>4, <2>1
  <2> HIDE DEF t, u, n, b
  <2>5. CASE u = t /\ read'[d] = n
    BY <2>1, <2>4, <2>5 DEF u
  <2>6. CASE (\E m \in Msg : \E clock : u = LocalCommand(t, m, clock)) /\ read'[d] = n
    <3>1. Chain(u) /\ Shows(u, b)
      BY <2>1, <2>6, LocalCommandShows
    <3> QED BY <2>4, <2>6, <3>1 DEF u
  <2>7. CASE u = [t EXCEPT !.pen = ~@] /\ read'[d] = n
    <3>1. Chain(u) /\ Shows(u, b)
      BY <2>1, <2>7, PenShows
    <3> QED BY <2>4, <2>7, <3>1 DEF u
  <2>8. CASE /\ \E clock : u = Handled(t, log[n + 1], clock)
             /\ read'[d] = n + 1 /\ n + 1 \in DOMAIN log
             /\ log[n + 1] \in LogEntry /\ log' = log
    <3>1. ~IsUndo(log[n + 1].m)
      BY <1>1, <2>8 DEF UndoSent, MayBeSaid, NobodyUndoes, LogEntry, Msg
    <3>2. Chain(u) /\ Shows(u, Logged(b, log[n + 1]))
      BY <2>1, <2>8, <3>1, HandledShows DEF OwnUndo
    <3>3. n + 1 \in Nat /\ n + 1 <= Len(log) /\ n < Len(log)
      BY <1>3, <2>1, <2>8
    <3>4. LogCanvas(log, n + 1) = Logged(b, log[n + 1])
      BY <1>3, <2>1, <2>2, <3>3, LogCanvasStep DEF b
    <3>5. LogCanvas(log', read'[d]) = LogCanvas(log, n + 1)
      BY <1>4, <2>8, <3>3
    <3> QED BY <3>2, <3>4, <3>5 DEF u
  <2> QED BY <2>3, <2>5, <2>6, <2>7, <2>8
<1>6. NobodyUndoes'
  BY <1>1 DEF NobodyUndoes, Undoes
<1> QED BY <1>2, <1>5, <1>6 DEF LogInv

(* When nobody undoes, clients that have handled the same messages and have *)
(* nothing of their own on the way show the same canvas: that of the log,   *)
(* whatever each of them drew ahead of it, rolled back, and kept savepoints *)
(* of, and whether the pen was down or not.                                 *)
THEOREM CanvasConverges == Spec /\ NobodyUndoes => []Converged
<1>1. Init /\ NobodyUndoes => LogInv
  BY LogInit
<1>2. LogInv /\ [Next]_vars => LogInv'
  BY LogNext
<1>3. LogInv => Converged
  <2> SUFFICES ASSUME LogInv, NEW c \in Client, NEW d \in Client, read[c] = read[d],
                      tracker[c].fork = <<>>, tracker[d].fork = <<>>
               PROVE  tracker[c].canvas = tracker[d].canvas
    BY DEF Converged
  <2>1. /\ tracker[c].canvas = PaintAll(LogCanvas(log, read[c]), tracker[c].fork)
        /\ tracker[d].canvas = PaintAll(LogCanvas(log, read[d]), tracker[d].fork)
    BY DEF LogInv, Shows
  <2> QED BY <2>1
<1> QED BY <1>1, <1>2, <1>3, PTL DEF Spec


=============================================================================
