---------------------------- MODULE StateTracker ----------------------------
(***************************************************************************)
(* The canvas of every client of a session: class StateTracker with its    *)
(* History, LocalFork and savepoints (libclient/canvas/statetracker.cpp,   *)
(* history.h, retcon.cpp).  A client applies its own commands at once, in  *)
(* a local fork, and sends them to the server; the server puts everybody's *)
(* commands in one order, the log; each client receives the log at its own *)
(* pace and repairs its canvas when the order is not the one it guessed.   *)
(*                                                                         *)
(* The canvas is abstracted to what the repair can get wrong: for each     *)
(* spot (pixels of a layer that two commands either share or do not) the   *)
(* sequence of the strokes painted there.  Commands on different spots     *)
(* commute, commands on the same spot do not.                              *)
(***************************************************************************)
EXTENDS Integers, FiniteSets, FiniteSetsExt, Sequences, SequencesExt

CONSTANTS
  Client,     \* the users, each with one client
  Spot,       \* places to paint on
  UndoDepth,  \* UNDO_DEPTH_LIMIT (30 in the code)
  MaxBehind,  \* LocalFork::m_maxFallBehind (10000 in the code, 0: no limit)
  Does,       \* [Client -> set of the kinds of message it sends]
  Paints,     \* [Client -> set of the spots it draws on]
  Budget,     \* [Client -> how many messages it sends], bounds the model
  Operators,  \* the clients that may undo for others
  Savers,     \* the clients that find the time to make savepoints
  MaxSavepoints, \* bound: the clock allows no more savepoints at a time
  PenUsers,   \* the clients that hold the pen down while they draw
  CanFilter   \* may the access control filter reject a message?

ASSUME DepthAssumption == UndoDepth \in Nat /\ UndoDepth >= 2
ASSUME BehindAssumption == MaxBehind \in Nat
ASSUME BudgetAssumption == Budget \in [Client -> Nat]

VARIABLES
  log,      \* the session history of the server: every client reads this order
  sent,     \* [Client -> messages on their way to the server]
  count,    \* [Client -> number of messages it has sent]
  read,     \* [Client -> number of log entries it has handled]
  tracker   \* [Client -> its StateTracker]

vars == <<log, sent, count, read, tracker>>

(* The kinds of message.  A SoftReset is not a drawing command: clients     *)
(* turn it into the internal TruncateHistory.                               *)
Kind == {"UndoPoint", "Draw", "Resize", "Undo", "Redo", "SoftReset"}

(* by: the context ID; on: what it acts on, the spot for a Draw and the     *)
(* user whose actions are undone for an Undo or Redo (an operator may name  *)
(* somebody else); n: tells two strokes of a user apart.                    *)
Message(c) ==
  LET M(t, on, n) == [by |-> c, t |-> t, on |-> on, n |-> n] IN
       {M("UndoPoint", c, 0), M("Resize", c, count[c] + 1), M("SoftReset", c, 0)}
  \cup {M("Draw", x, count[c] + 1) : x \in Spot}
  \cup {M(t, u, 0) : t \in {"Undo", "Redo"}, u \in Client}

IsUndo(m) == m.t \in {"Undo", "Redo"}

(* No command: paints nowhere.                                              *)
Nothing == [by |-> 0, t |-> "Nothing", on |-> 0, n |-> 0]

(***************************************************************************)
(* LocalFork and AffectedArea                                              *)
(***************************************************************************)

(* The message types whose area is EVERYTHING.                              *)
Everything == {"Resize", "Undo", "Redo"}

(* Mutant: the rectangles of two strokes are not compared.                  *)
ConcurrentUnlessEverything(a, b) == {a.t, b.t} \cap Everything = {}

(* AffectedArea::isConcurrentWith: undo points are USERATTRS, draws PIXELS. *)
IsConcurrentWith(a, b) ==
  /\ {a.t, b.t} \cap Everything = {}
  /\ a.t = "Draw" /\ b.t = "Draw" => a.on # b.on

ClearFork(t) == [t EXCEPT !.fork = <<>>, !.behind = 0]

(* Mutant: an unexpected message of our own does not clear the fork.        *)
HandleReceivedKeepingFork(t, m) ==
  LET own == m.by = Head(t.fork).by
      rest == [t EXCEPT !.fork = Tail(@)]
  IN IF t.fork = <<>> THEN <<"CONCURRENT", t>>
     ELSE CASE own /\ m = Head(t.fork) -> <<"ALREADYDONE", rest>>
            [] own /\ m # Head(t.fork) -> <<"ROLLBACK", t>>
            [] OTHER -> << IF \A i \in DOMAIN t.fork : IsConcurrentWith(m, t.fork[i])
                           THEN "CONCURRENT" ELSE "ROLLBACK", t >>

(* LocalFork::handleReceivedMessage: what to do with a received message,    *)
(* and the fork afterwards.                                                 *)
HandleReceivedMessage(t, m) ==
  LET own == m.by = Head(t.fork).by
      late == t.behind + 1
      tooLate == MaxBehind > 0 /\ late >= MaxBehind
      behind == [t EXCEPT !.behind = IF MaxBehind > 0 THEN late ELSE @]
      rest == [t EXCEPT !.fork = Tail(@), !.behind = IF Len(t.fork) = 1 THEN 0 ELSE @]
  IN IF t.fork = <<>> THEN <<"CONCURRENT", t>>
     ELSE CASE own /\ m = Head(t.fork) -> <<"ALREADYDONE", rest>>
            [] own /\ m # Head(t.fork) -> <<"ROLLBACK", ClearFork(t)>>
            [] ~own /\ tooLate         -> <<"ROLLBACK", ClearFork(t)>>
            [] OTHER -> << IF \A i \in DOMAIN t.fork : IsConcurrentWith(m, t.fork[i])
                           THEN "CONCURRENT" ELSE "ROLLBACK", behind >>

(***************************************************************************)
(* History: a window of the received commands, with their undo states      *)
(***************************************************************************)
End(t) == t.offset + Len(t.history)
Valid(t) == t.offset .. End(t) - 1
At(t, i) == t.history[i - t.offset + 1]
IsUndoPoint(t, i) == At(t, i).m.t = "UndoPoint"

(* How many undo points there are from index i to index j.                  *)
UndoPoints(t, i, j) == Cardinality({k \in i .. j : k \in Valid(t) /\ IsUndoPoint(t, k)})

AppendMessage(t, m) == [t EXCEPT !.history = Append(@, [m |-> m, undo |-> "DONE"])]

(* setUndoState of the messages at the given indices.                       *)
SetUndoState(t, Ix, state) ==
  [t EXCEPT !.history = [k \in DOMAIN @ |->
      IF k + t.offset - 1 \in Ix THEN [@[k] EXCEPT !.undo = state] ELSE @[k]]]

(* Mutant: one message too many is forgotten.                               *)
CleanupOneMore(t, limit) ==
  IF limit < t.offset THEN t
  ELSE [t EXCEPT !.offset = limit + 1, !.history = SubSeq(@, limit + 2 - t.offset, Len(@))]

(* History::cleanup                                                         *)
Cleanup(t, limit) ==
  IF limit <= t.offset THEN t
  ELSE [t EXCEPT !.offset = limit, !.history = SubSeq(@, limit - t.offset + 1, Len(@))]

(***************************************************************************)
(* Painting and savepoints                                                 *)
(***************************************************************************)
Paint(canvas, m) ==
  [x \in Spot |-> IF m.t = "Resize" \/ (m.t = "Draw" /\ m.on = x)
                  THEN Append(canvas[x], <<m.by, m.n>>) ELSE canvas[x]]

(* Paints a run of commands, one after the other.                           *)
PaintAll(canvas, msgs) ==
  LET painted[i \in 0 .. Len(msgs)] ==
        IF i = 0 THEN canvas ELSE Paint(painted[i - 1], msgs[i])
  IN painted[Len(msgs)]

(* Mutant: savepoints are made while there is a local fork, too.            *)
MakeSavepointAnyway(t, pos, clock) ==
  IF pos \notin clock \/ Len(t.savepoints) >= MaxSavepoints THEN t
  ELSE [t EXCEPT !.savepoints = Append(@, [at |-> pos, canvas |-> t.canvas])]

(* StateTracker::makeSavepoint.  Whether enough time or messages have       *)
(* passed since the last one is not modelled: "clock" is the set of the     *)
(* positions at which they have.                                            *)
MakeSavepoint(t, pos, clock) ==
  IF t.fork # <<>> \/ pos \notin clock \/ Len(t.savepoints) >= MaxSavepoints THEN t
  ELSE [t EXCEPT !.savepoints = Append(@, [at |-> pos, canvas |-> t.canvas])]

(* The newest savepoint at or before a position, 0 if there is none.        *)
NewestSavepoint(t, pos) == SelectLastInSeq(t.savepoints, LAMBDA sp : sp.at <= pos)

(***************************************************************************)
(* Undo points: StateTracker::handleUndoPoint                              *)
(***************************************************************************)

(* The index at which the search for undone commands meets the first        *)
(* command that is GONE already, or -1.                                     *)
GoneBefore(t, m, pos) ==
  LET G == {i \in t.offset .. pos - 1 :
              /\ 1 + UndoPoints(t, i + 1, pos - 1) < UndoDepth
              /\ At(t, i).m.by = m.by /\ ~IsUndo(At(t, i).m) /\ At(t, i).undo = "GONE"}
  IN IF G = {} THEN -1 ELSE Max(G)

(* "Mark undone actions as GONE"                                            *)
MarkGone(t, m, pos) ==
  SetUndoState(t, {i \in t.offset .. pos - 1 :
                     /\ i > GoneBefore(t, m, pos)
                     /\ 1 + UndoPoints(t, i + 1, pos - 1) < UndoDepth
                     /\ At(t, i).m.by = m.by /\ At(t, i).undo = "UNDONE"}, "GONE")

(* "Keep rewinding until the oldest reachable undo point is found": the     *)
(* index before it; -2 when there are not that many undo points.  A GONE    *)
(* undo point that ended the first search is counted again by the second.   *)
OldestReachable(t, m, pos) ==
  LET gone == GoneBefore(t, m, pos)
      again(i) == IF gone >= i /\ IsUndoPoint(t, gone) THEN 1 ELSE 0
      enough == {i \in t.offset .. pos - 1 :
                   1 + UndoPoints(t, i, pos - 1) + again(i) >= UndoDepth}
  IN CASE gone >= 0 /\ 1 + UndoPoints(t, gone, pos - 1) >= UndoDepth -> gone
       [] enough # {} /\ ~(gone >= 0 /\ 1 + UndoPoints(t, gone, pos - 1) >= UndoDepth)
            -> Max(enough) - 1
       [] OTHER -> -2

(* "Release all state savepoints older then the oldest UndoPoint", but one. *)
ReleaseSavepoints(t, oldest) ==
  LET i == IF t.fork = <<>> THEN oldest ELSE Min({oldest, t.forkAt - 1})
      kept == NewestSavepoint(t, i)
  IN IF oldest = -2 \/ kept = 0 THEN t
     ELSE [t EXCEPT !.savepoints = SubSeq(@, kept, Len(@))]

HandleUndoPoint(t, m, replay, pos, clock) ==
  LET t1 == IF replay THEN t
            ELSE ReleaseSavepoints(MarkGone(t, m, pos), OldestReachable(t, m, pos))
  IN MakeSavepoint(Cleanup(t1, t1.savepoints[1].at), pos, clock)

(* StateTracker::handleCommand, but for the Undo and Redo.                  *)
HandleCommand(t, m, replay, pos, clock) ==
  CASE m.t = "UndoPoint" -> HandleUndoPoint(t, m, replay, pos, clock)
    [] m.t = "Draw"      -> [t EXCEPT !.canvas = Paint(@, m)]
    [] m.t = "Resize"    -> MakeSavepoint([t EXCEPT !.canvas = Paint(@, m)], pos, clock)
    [] OTHER             -> t

(***************************************************************************)
(* StateTracker::revertSavepointAndReplay, in its three parts              *)
(***************************************************************************)

(* Mutant: the savepoints after the one reverted to are kept.               *)
RevertKeepingSavepoints(t, sp) == [t EXCEPT !.canvas = t.savepoints[sp].canvas]

(* "Reverting a savepoint destroys all newer savepoints"                    *)
Revert(t, sp) == [t EXCEPT !.canvas = t.savepoints[sp].canvas,
                           !.savepoints = SubSeq(@, 1, sp)]

(* Replays the command at an index, unless it is undone.                    *)
ReplayCommand(t, i, clock) ==
  IF At(t, i).undo = "DONE" /\ ~IsUndo(At(t, i).m)
  THEN HandleCommand(t, At(t, i).m, TRUE, i, clock) ELSE t

(* Replays the commands after one index, up to another.                     *)
Replay(t, after, to, clock) ==
  LET replayed[i \in after .. to] ==
        IF i = after THEN t ELSE ReplayCommand(replayed[i - 1], i, clock)
  IN replayed[to]

ReplayFork(t) ==
  IF t.fork = <<>> THEN t
  ELSE [t EXCEPT !.forkAt = End(t) - 1, !.canvas = PaintAll(@, t.fork)]

RevertSavepointAndReplay(t, sp, clock) ==
  ReplayFork(Replay(Revert(t, sp), t.savepoints[sp].at, End(t) - 1, clock))

(***************************************************************************)
(* Undo and redo: StateTracker::handleUndo                                 *)
(***************************************************************************)

(* The undo points of a user in the history.                                *)
PointsOf(t, u) == {i \in Valid(t) : IsUndoPoint(t, i) /\ At(t, i).m.by = u}

(* Step 1 for an undo: the newest undo point of the user not yet undone, if *)
(* it is not beyond the depth limit.                                        *)
UndoStart(t, u) ==
  LET done == {i \in PointsOf(t, u) : At(t, i).undo = "DONE"}
  IN IF done # {} /\ UndoPoints(t, Max(done), End(t) - 1) <= UndoDepth THEN {Max(done)} ELSE {}

(* Step 1 for a redo: the oldest undo point of the latest run of undone     *)
(* ones.  The search goes on to the user's newest point that is not undone, *)
(* and gives up when the depth limit is passed on the way.                  *)
RedoStart(t, u) ==
  LET done == {i \in PointsOf(t, u) : At(t, i).undo = "DONE"}
      last == IF done = {} THEN t.offset - 1 ELSE Max(done)
      undone == {i \in PointsOf(t, u) : i > last}
  IN IF undone # {} /\ UndoPoints(t, last, End(t) - 1) <= UndoDepth THEN {Min(undone)} ELSE {}

(* Step 3: the actions of the user to mark as undone, or to take back.      *)
(* GONE messages cannot be redone.                                          *)
ToUndo(t, u, pos) == {i \in Valid(t) : i >= pos /\ At(t, i).m.by = u /\ At(t, i).undo = "DONE"}

ToRedo(t, u, pos) ==
  LET starts == {i \in PointsOf(t, u) : i >= pos /\ At(t, i).undo # "GONE"}
      next == IF Cardinality(starts) < 2 THEN End(t) ELSE Min(starts \ {Min(starts)})
  IN {i \in Valid(t) : pos <= i /\ i < next /\ At(t, i).m.by = u /\ At(t, i).undo = "UNDONE"}

(* Mutant: the latest savepoint, whether or not it precedes the undo point. *)
LatestSavepoint(t, pos) == Len(t.savepoints)

(* Step 2: find nearest save point.                                         *)
UndoSavepoint(t, pos) == NewestSavepoint(t, pos)

HandleUndo(t, m, clock) ==
  LET gone == SetUndoState(t, {End(t) - 1}, "GONE")
      start == IF m.t = "Redo" THEN RedoStart(gone, m.on) ELSE UndoStart(gone, m.on)
      pos == CHOOSE i \in start : TRUE
      sp == UndoSavepoint(t, pos)
      marked == IF m.t = "Redo" THEN SetUndoState(gone, ToRedo(gone, m.on, pos), "DONE")
                ELSE SetUndoState(gone, ToUndo(gone, m.on, pos), "UNDONE")
  IN IF start = {} \/ sp = 0 THEN gone ELSE RevertSavepointAndReplay(marked, sp, clock)

(***************************************************************************)
(* StateTracker::receiveCommand                                            *)
(***************************************************************************)

(* An inconsistency was detected.  The message just received is replayed    *)
(* with the rest; when it is an Undo, that in turn reverts and replays.     *)
Rollback(t, m, clock) ==
  LET sp == NewestSavepoint(t, t.forkAt)
      t1 == IF t.pen THEN t ELSE ClearFork(t)
      t2 == Replay(Revert(t1, sp), t.savepoints[sp].at, End(t) - 1, clock)
  IN IF sp = 0 THEN t ELSE ReplayFork(IF IsUndo(m) THEN HandleUndo(t2, m, clock) ELSE t2)

ReceiveCommand(t, m, clock) ==
  LET action == HandleReceivedMessage(AppendMessage(t, m), m)
      t1 == action[2]
      do == IF IsUndo(m) THEN HandleUndo(t1, m, clock)
            ELSE HandleCommand(t1, m, FALSE, End(t1) - 1, clock)
  IN CASE action[1] = "ROLLBACK"   -> Rollback(t1, m, clock)
       [] action[1] = "CONCURRENT" -> do
       [] action[1] = "ALREADYDONE" -> IF IsUndo(m) \/ m.t = "UndoPoint" THEN do ELSE t1

(* StateTracker::handleTruncateHistory                                      *)
HandleTruncateHistory(t) ==
  SetUndoState(t, {i \in Valid(t) : IsUndoPoint(t, i)
                                    /\ UndoPoints(t, i + 1, End(t) - 1) <= UndoDepth}, "GONE")

(* StateTracker::localCommand                                               *)
LocalCommand(t, m, clock) ==
  LET t1 == IF t.fork # <<>> THEN t
            ELSE LET t0 == [t EXCEPT !.forkAt = End(t) - 1]
                 IN IF m.t = "UndoPoint" THEN MakeSavepoint(t0, End(t) - 1, clock) ELSE t0
  IN [t1 EXCEPT !.fork = Append(@, m), !.canvas = Paint(@, m)]

(***************************************************************************)
(* The system                                                              *)
(***************************************************************************)
Blank == [x \in Spot |-> <<>>]

NewTracker ==
  [offset |-> 0, history |-> <<>>, fork |-> <<>>, forkAt |-> 0, behind |-> 0,
   savepoints |-> <<[at |-> -1, canvas |-> Blank]>>, canvas |-> Blank, pen |-> FALSE]

Init ==
  /\ log = <<>>
  /\ sent = [c \in Client |-> <<>>]
  /\ count = [c \in Client |-> 0]
  /\ read = [c \in Client |-> 0]
  /\ tracker = [c \in Client |-> NewTracker]

(* The positions at which the clock may allow a client a savepoint.         *)
Clocks(c, Positions) == IF c \in Savers THEN SUBSET Positions ELSE {{}}

(* Everything a client has sent, in order.                                  *)
Said(c) ==
  LET own == SelectSeq(log, LAMBDA e : e.m.by = c)
  IN [i \in DOMAIN own |-> own[i].m] \o sent[c]

(* What the user interface sends: the tools begin each undoable sequence    *)
(* with an undo point, and only operators undo for somebody else.           *)
MayDo(c, m) ==
  LET last == IF Said(c) = <<>> THEN "none" ELSE Last(Said(c)).t IN
  /\ m.t \in Does[c]
  /\ last = "UndoPoint" => m.t \in {"Draw", "Resize"}
  /\ m.t = "Draw" => last \in {"UndoPoint", "Draw"} /\ m.on \in Paints[c]
  /\ m.t = "Resize" => last = "UndoPoint"
  /\ IsUndo(m) => m.on = c \/ c \in Operators

(* Client::sendMessage: drawing commands go to the local fork too.          *)
SendMessage(c) ==
  /\ count[c] < Budget[c]
  /\ \E m \in Message(c) : 
       /\ MayDo(c, m)
       /\ \E clock \in Clocks(c, IF m.t = "UndoPoint" THEN {End(tracker[c]) - 1} ELSE {}) :
            tracker' = [tracker EXCEPT ![c] = IF m.t = "SoftReset" THEN @
                                              ELSE LocalCommand(@, m, clock)]
       /\ sent' = [sent EXCEPT ![c] = Append(@, m)]
  /\ count' = [count EXCEPT ![c] = @ + 1]
  /\ UNCHANGED <<log, read>>

(* ToolController::startDrawing and endDrawing                              *)
SetLocalDrawingInProgress(c) ==
  /\ c \in PenUsers
  /\ tracker' = [tracker EXCEPT ![c].pen = ~@]
  /\ UNCHANGED <<log, sent, count, read>>

(* The server puts a message at the end of the history.  The access control *)
(* filter of every client decides alike whether the user may send it.       *)
AddToHistory(c) ==
  /\ sent[c] # <<>>
  /\ \E filtered \in (IF CanFilter THEN BOOLEAN ELSE {FALSE}) :
       log' = Append(log, [m |-> Head(sent[c]), filtered |-> filtered])
  /\ sent' = [sent EXCEPT ![c] = Tail(@)]
  /\ UNCHANGED <<count, read, tracker>>

(* The positions at which handling the next message may make a savepoint.   *)
SavepointSpots(t) ==
  {i \in Valid(t) : At(t, i).m.t \in {"UndoPoint", "Resize"}} \cup {End(t)}

(* CanvasModel::handleCommand                                               *)
Receive(c) ==
  /\ read[c] < Len(log)
  /\ read' = [read EXCEPT ![c] = @ + 1]
  /\ LET e == log[read[c] + 1] IN
       \E clock \in Clocks(c, SavepointSpots(tracker[c])) :
         tracker' = [tracker EXCEPT ![c] =
           CASE e.filtered          -> @
             [] ~e.filtered /\ e.m.t = "SoftReset" -> HandleTruncateHistory(@)
             [] OTHER               -> ReceiveCommand(@, e.m, clock)]
  /\ UNCHANGED <<log, sent, count>>

Next == \E c \in Client : \/ SendMessage(c)
                          \/ SetLocalDrawingInProgress(c)
                          \/ AddToHistory(c)
                          \/ Receive(c)

Spec == Init /\ [][Next]_vars

(***************************************************************************)
(* Properties                                                              *)
(***************************************************************************)
(* Type correctness: histories are windows of what was received, the        *)
(* savepoints lie in them, and a fork holds only its owner's messages.      *)
TypeOK ==
  \A c \in Client :
    LET t == tracker[c] IN
    /\ read[c] \in 0 .. Len(log) /\ count[c] \in 0 .. Budget[c]
    /\ t.offset >= 0 /\ End(t) <= read[c]
    /\ \A i \in DOMAIN t.history : t.history[i].undo \in {"DONE", "UNDONE", "GONE"}
    /\ t.savepoints # <<>>
    /\ \A i \in DOMAIN t.savepoints : LET at == t.savepoints[i].at IN
         at < End(t) /\ (at >= t.offset \/ (at = -1 /\ t.offset = 0))
    /\ \A i \in DOMAIN t.fork : t.fork[i].by = c
    /\ t.pen \in BOOLEAN

(* Two clients that have handled the same messages and have nothing of      *)
(* their own on the way show the same canvas, whatever each of them drew    *)
(* ahead of the server, rolled back, undid, and kept savepoints of: what    *)
(* receiveCommand and handleUndo are for.                                   *)
Converged ==
  \A c, d \in Client :
    read[c] = read[d] /\ tracker[c].fork = <<>> /\ tracker[d].fork = <<>>
      => tracker[c].canvas = tracker[d].canvas

(* What the commands after one index, up to another, leave on the canvas:   *)
(* those that are undone nothing.                                           *)
Painted(t, after, to) ==
  [k \in 1 .. to - after |-> LET e == At(t, after + k) IN
                             IF e.undo = "DONE" THEN e.m ELSE Nothing]

(* Every savepoint a client keeps leads back to the canvas it shows:        *)
(* restoring it and replaying the commands after it that are not undone,    *)
(* and then the local fork, as revertSavepointAndReplay does, changes       *)
(* nothing.                                                                 *)
SavepointsRestore ==
  \A c \in Client : \A sp \in DOMAIN tracker[c].savepoints :
    LET t == tracker[c]
        restored == PaintAll(t.savepoints[sp].canvas,
                             Painted(t, t.savepoints[sp].at, End(t) - 1))
    IN t.canvas = PaintAll(restored, t.fork)

(* The commands that an Undo and a Redo for user u would now change.        *)
Changes(t, u) ==
  << UNION {ToUndo(t, u, p) : p \in {q \in UndoStart(t, u) : UndoSavepoint(t, q) # 0}},
     UNION {ToRedo(t, u, p) : p \in {q \in RedoStart(t, u) : UndoSavepoint(t, q) # 0}} >>

(* "To ensure undo works consistently, each client must store at least this *)
(* many undo points ... but also limit the functional undo depth to this    *)
(* many points" (undo.h): the next Undo or Redo of a user would change the  *)
(* same commands on every client that has received the same messages,       *)
(* however much history and however many savepoints each of them has kept.  *)
UndoAgrees ==
  \A c, d \in Client : read[c] = read[d] =>
    \A u \in Client : Changes(tracker[c], u) = Changes(tracker[d], u)

(* There is always a savepoint that precedes the local fork, and no other:  *)
(* receiveCommand's "should never happen" does not, and neither does the    *)
(* assertion on the fork's offset in revertSavepointAndReplay fail.         *)
SavepointsBeforeFork ==
  \A c \in Client : tracker[c].fork # <<>> =>
    \A i \in DOMAIN tracker[c].savepoints : tracker[c].savepoints[i].at <= tracker[c].forkAt

(* The local fork holds no more messages than are on their way (or were     *)
(* filtered out): once all have returned it is empty, and savepoints can be *)
(* made again.                                                              *)
ForkInFlight ==
  \A c \in Client :
    Len(tracker[c].fork) <= Len(sent[c])
      + Cardinality({i \in DOMAIN log : log[i].m.by = c /\ (i > read[c] \/ log[i].filtered)})
=============================================================================
