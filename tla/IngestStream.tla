----------------------------- MODULE IngestStream -----------------------------
(***************************************************************************)
(* ingest_stream and BackpressureFilter of src/src/gateway/stream.rs: one  *)
(* task per meter connection turns datagrams into events and pushes them   *)
(* into a bounded channel, awaiting a free place; one consumer takes them  *)
(* out and may go away.                                                    *)
(*                                                                         *)
(* An event is the connection it came over and its number there.  The      *)
(* consumer and the connections are outside the module.                    *)
(***************************************************************************)
EXTENDS Integers, Sequences

CONSTANTS
  Connections,
  Capacity,      \* buffer_capacity
  MaxDatagrams   \* bound on the datagrams of a connection

VARIABLES
  task,      \* where the task of each connection is
  received,  \* datagrams each connection has delivered
  buffer,    \* the channel
  consumer,  \* whether the receiver exists
  consumed   \* history: what the consumer took, in order

vars == <<task, received, buffer, consumer, consumed>>

Init ==
  /\ task = [c \in Connections |-> "reading"]
  /\ received = [c \in Connections |-> 0]
  /\ buffer = << >>
  /\ consumer = TRUE
  /\ consumed = << >>

\* stream.next() gives a datagram; the task goes on to push its event.
Datagram(c) ==
  /\ task[c] = "reading"
  /\ received[c] < MaxDatagrams
  /\ received' = [received EXCEPT ![c] = @ + 1]
  /\ task' = [task EXCEPT ![c] = "pushing"]
  /\ UNCHANGED <<buffer, consumer, consumed>>

\* The stream ends.  (A read error is only logged: nothing changes.)
End(c) ==
  /\ task[c] = "reading"
  /\ task' = [task EXCEPT ![c] = "ended"]
  /\ UNCHANGED <<received, buffer, consumer, consumed>>

\* Mutant of Push: an event that finds the buffer full is dropped.
PushOrDrop(c) ==
  /\ task[c] = "pushing"
  /\ consumer
  /\ buffer' = IF Len(buffer) < Capacity THEN Append(buffer, <<c, received[c]>>)
               ELSE buffer
  /\ task' = [task EXCEPT ![c] = "reading"]
  /\ UNCHANGED <<received, consumer, consumed>>

\* send().await finds a place; until then the task reads no further.
Push(c) ==
  /\ task[c] = "pushing"
  /\ consumer
  /\ Len(buffer) < Capacity
  /\ buffer' = Append(buffer, <<c, received[c]>>)
  /\ task' = [task EXCEPT ![c] = "reading"]
  /\ UNCHANGED <<received, consumer, consumed>>

\* The receiver is gone: the event is dropped, as "buffer full", and the task
\* reads on.
PushFails(c) ==
  /\ task[c] = "pushing"
  /\ ~ consumer
  /\ task' = [task EXCEPT ![c] = "reading"]
  /\ UNCHANGED <<received, buffer, consumer, consumed>>

Consume ==
  /\ consumer
  /\ buffer # << >>
  /\ consumed' = Append(consumed, Head(buffer))
  /\ buffer' = Tail(buffer)
  /\ UNCHANGED <<task, received, consumer>>

\* The receiver is dropped, and the buffer with it.
ConsumerGone ==
  /\ consumer
  /\ consumer' = FALSE
  /\ buffer' = << >>
  /\ UNCHANGED <<task, received, consumed>>

Next ==
  \/ \E c \in Connections : Datagram(c) \/ End(c) \/ Push(c) \/ PushFails(c)
  \/ Consume
  \/ ConsumerGone

Spec == Init /\ [][Next]_vars

-----------------------------------------------------------------------------
Events == Connections \X (1 .. MaxDatagrams)

\* Every variable has its type, and the buffer its bound.
TypeOK ==
  /\ task \in [Connections -> {"reading", "pushing", "ended"}]
  /\ received \in [Connections -> 0 .. MaxDatagrams]
  /\ buffer \in Seq(Events) /\ Len(buffer) <= Capacity
  /\ consumer \in BOOLEAN
  /\ consumed \in Seq(Events)

\* What was ever put into the channel and not lost with it.
Sent == consumed \o buffer

\* The numbers of the events of a connection among them.
SentFrom(c) == {n \in 1 .. MaxDatagrams : \E i \in DOMAIN Sent : Sent[i] = <<c, n>>}

\* However slow the consumer is and however the connections overlap, it gets the
\* events of each connection in order, each once and none before the ones that
\* came before it; while it lives, all that were received are with it or in the
\* buffer, but for the one being pushed (stream.rs:31-36, stream.rs:44-59).
NoGapWhileConsumed ==
  /\ \A i, j \in DOMAIN Sent :
       i < j /\ Sent[i][1] = Sent[j][1] => Sent[i][2] < Sent[j][2]
  /\ \A c \in Connections : \A n \in SentFrom(c) : 1 .. n \subseteq SentFrom(c)
  /\ consumer => \A c \in Connections :
       SentFrom(c) =
         1 .. (IF task[c] = "pushing" THEN received[c] - 1 ELSE received[c])
=============================================================================
