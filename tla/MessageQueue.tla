---------------------------- MODULE MessageQueue ----------------------------
(***************************************************************************)
(* The outgoing half of protocol::MessageQueue, the queue of one            *)
(* connection, as operators on a record: m_outbox, what is written to the   *)
(* socket and not sent yet (wire), m_ignoreIncoming and m_closeWhenReady.    *)
(*                                                                         *)
(* QTcpSocket::write takes all it is given, so m_sendbuffer is empty between *)
(* two events.  A message has a kind, k.                                    *)
(***************************************************************************)
EXTENDS Integers, Sequences

\* How many messages one call of writeData may write (64 kilobytes)
CONSTANT BatchLimit

ASSUME BatchAssumption == BatchLimit \in Nat \ {0}

NewQueue == [outbox |-> <<>>, wire |-> <<>>, ignoreIncoming |-> FALSE,
             closeWhenReady |-> FALSE]

\* isUploading
IsUploading(q) == q.wire # <<>>

\* How much of the outbox writeData takes: up to the limit, and up to the
\* first Disconnect
Writable(box) ==
  CHOOSE n \in 0..Len(box) :
    /\ n <= BatchLimit
    /\ \A i \in 1..(n - 1) : box[i].k # "Disconnect"
    /\ \/ n = BatchLimit \/ n = Len(box)
       \/ n > 0 /\ box[n].k = "Disconnect"

\* Mutant: what is queued behind the Disconnect stays there
WriteDataOn(q) ==
  LET n == Writable(q.outbox)
  IN  [q EXCEPT
        !.wire = @ \o SubSeq(q.outbox, 1, n),
        !.outbox = SubSeq(@, n + 1, Len(@))]

\* MessageQueue::writeData
WriteData(q) ==
  LET n == Writable(q.outbox)
      last == n > 0 /\ q.outbox[n].k = "Disconnect"
  IN  [q EXCEPT
        !.wire = @ \o SubSeq(q.outbox, 1, n),
        !.outbox = IF last THEN <<>> ELSE SubSeq(@, n + 1, Len(@)),
        !.closeWhenReady = @ \/ last]

\* send(MessageList), send(MessagePtr)
Send(q, msgs) ==
  IF q.closeWhenReady THEN q
  ELSE WriteData([q EXCEPT !.outbox = @ \o msgs])

\* sendNow: ahead of everything that waits
SendNow(q, m) ==
  IF q.closeWhenReady THEN q
  ELSE WriteData([q EXCEPT !.outbox = <<m>> \o @])

\* sendDisconnect
SendDisconnect(q, m) == [Send(q, <<m>>) EXCEPT !.ignoreIncoming = TRUE]

\* Mutant: the rest of the outbox waits for the next message
DataWrittenOnly(q) == [q EXCEPT !.wire = <<>>]

\* dataWritten, when nothing is left in the socket; before, it does nothing
DataWritten(q) == WriteData([q EXCEPT !.wire = <<>>])

=============================================================================
