--------------------------- MODULE SignalingQueue ---------------------------
(***************************************************************************)
(* server/signaling_queue.cc: the byte ring between the threads of a       *)
(* process, with one buffer per direction of every socket.  Add and Remove *)
(* hold the queue's mutex except while they wait on a condition variable,  *)
(* so a call is one step up to its end or its wait, and one step from each *)
(* wakeup on.                                                              *)
(***************************************************************************)
EXTENDS Integers, Sequences, FiniteSets

CONSTANTS
  queue_size,     \* bytes
  num_producers,  \* Signal calls after which nothing more may be added
  Messages,       \* what producers add: sequences of bytes
  MaxSize,        \* max_size of Remove(char*, ...)
  Producers,      \* threads that call Add
  Consumers,      \* threads that call Remove
  Nothing         \* no message

ASSUME QueueAssumption ==
  /\ queue_size \in Nat \ {0}
  /\ num_producers \in Nat
  /\ Messages \subseteq Seq(Nat) \ {<<>>}
  /\ MaxSize \in Nat
  /\ Nothing \notin Messages
  /\ IsFiniteSet(Producers) /\ IsFiniteSet(Consumers)

VARIABLES
  queue,              \* the bytes
  free_size,
  write_pointer,
  message_positions,  \* <<start, length>> of each message, oldest first
  finished_producers,
  pending,            \* per producer: the message of its unfinished Add
  removing,           \* consumers inside an unfinished Remove
  not_full,           \* threads waiting on cond_not_full_
  not_empty,          \* threads waiting on cond_not_empty_
  received            \* per consumer: the last message Remove gave it

vars == <<queue, free_size, write_pointer, message_positions,
          finished_producers, pending, removing, not_full, not_empty, received>>

Positions == (0 .. queue_size - 1) \X (1 .. queue_size)

\* Every variable stays in its range: pointers lie in the ring, stored
\* positions too, and only a caller of Remove waits for a message.
TypeOK ==
  /\ queue \in [0 .. queue_size - 1 -> Nat]
  /\ free_size \in 0 .. queue_size
  /\ write_pointer \in 0 .. queue_size - 1
  /\ message_positions \in Seq(Positions)
  /\ finished_producers \subseteq Producers
  /\ pending \in [Producers -> Messages \cup {Nothing}]
  /\ removing \subseteq Consumers
  /\ not_full \subseteq Producers
  /\ not_empty \subseteq removing
  /\ DOMAIN received = Consumers

Init ==
  /\ queue = [i \in 0 .. queue_size - 1 |-> 0]
  /\ free_size = queue_size
  /\ write_pointer = 0
  /\ message_positions = <<>>
  /\ finished_producers = {}
  /\ pending = [p \in Producers |-> Nothing]
  /\ removing = {}
  /\ not_full = {} /\ not_empty = {}
  /\ received = [c \in Consumers |-> Nothing]

NoMoreAdd == Cardinality(finished_producers) >= num_producers

\* ConditionVariable::Signal wakes one of the waiting threads, if any.
SignalOne(waiting, waiting_next) ==
  \/ waiting = {} /\ waiting_next = {}
  \/ \E th \in waiting : waiting_next = waiting \ {th}

-----------------------------------------------------------------------------
(* Add *)

\* Mutant of Written: what lies past the end of the ring is not written.
WrittenToEnd(msg) ==
  [i \in DOMAIN queue |->
     IF i \in write_pointer .. write_pointer + Len(msg) - 1
     THEN msg[i - write_pointer + 1] ELSE queue[i]]

\* The message goes behind the write pointer, in two parts when it reaches
\* the end of the ring.
Written(msg) ==
  LET size == Len(msg)
      tail == queue_size - write_pointer
  IN  [i \in DOMAIN queue |->
         IF write_pointer + size <= queue_size
         THEN IF i \in write_pointer .. write_pointer + size - 1
              THEN msg[i - write_pointer + 1] ELSE queue[i]
         ELSE IF i >= write_pointer THEN msg[i - write_pointer + 1]
              ELSE IF i < size - tail THEN msg[tail + i + 1]
              ELSE queue[i]]

\* Mutant of NextWritePointer: the end of the ring is not its head.
NextWritePointerLate(size) ==
  IF write_pointer + size <= queue_size THEN write_pointer + size
  ELSE write_pointer + size - queue_size

NextWritePointer(size) ==
  IF write_pointer + size < queue_size THEN write_pointer + size
  ELSE write_pointer + size - queue_size

Fits(msg) == Len(msg) <= free_size

\* Mutant of Write: no consumer is woken.
WriteSilently(msg) ==
  /\ message_positions' = Append(message_positions, <<write_pointer, Len(msg)>>)
  /\ free_size' = free_size - Len(msg)
  /\ queue' = Written(msg)
  /\ write_pointer' = NextWritePointer(Len(msg))
  /\ UNCHANGED not_empty

Write(msg) ==
  /\ message_positions' = Append(message_positions, <<write_pointer, Len(msg)>>)
  /\ free_size' = free_size - Len(msg)
  /\ queue' = Written(msg)
  /\ write_pointer' = NextWritePointer(Len(msg))
  /\ SignalOne(not_empty, not_empty')

\* The part of Add behind the loop condition: write, or wait for space.
FinishAdd(p, msg) ==
  \/ /\ Fits(msg)
     /\ Write(msg)
     /\ pending' = [pending EXCEPT ![p] = Nothing]
     /\ UNCHANGED not_full
  \/ /\ ~Fits(msg)
     /\ pending' = [pending EXCEPT ![p] = msg]
     /\ not_full' = not_full \cup {p}
     /\ UNCHANGED <<queue, free_size, write_pointer, message_positions,
                    not_empty>>

\* A new call.  Too long a message and a finished queue are refused.
Add(p, msg) ==
  /\ pending[p] = Nothing
  /\ Len(msg) <= queue_size
  /\ ~NoMoreAdd
  /\ FinishAdd(p, msg)
  /\ UNCHANGED <<finished_producers, removing, received>>

\* A producer that was woken looks at the free space again.
ResumeAdd(p) ==
  /\ pending[p] # Nothing
  /\ p \notin not_full
  /\ FinishAdd(p, pending[p])
  /\ UNCHANGED <<finished_producers, removing, received>>

-----------------------------------------------------------------------------
(* Remove *)

\* The bytes at a position; past the end of the ring they go on at its head.
Bytes(pos) ==
  [i \in 1 .. pos[2] |->
     IF pos[1] + pos[2] <= queue_size \/ i <= queue_size - pos[1]
     THEN queue[pos[1] + i - 1]
     ELSE queue[i - 1 - (queue_size - pos[1])]]

\* Mutant of Pop: no producer is woken.
PopSilently(c) ==
  /\ received' = [received EXCEPT ![c] = Bytes(Head(message_positions))]
  /\ free_size' = free_size + Head(message_positions)[2]
  /\ message_positions' = Tail(message_positions)
  /\ UNCHANGED not_full

\* Remove(string*) takes any message; Remove(char*, max_size) pops a message
\* that is too long for it without returning it.
Pop(c) ==
  LET pos == Head(message_positions)
  IN  /\ \/ received' = [received EXCEPT ![c] = Bytes(pos)]
         \/ pos[2] > MaxSize /\ UNCHANGED received
      /\ free_size' = free_size + pos[2]
      /\ message_positions' = Tail(message_positions)
      /\ SignalOne(not_full, not_full')

\* The part of Remove from its loop condition on: take the oldest message,
\* give up when nothing more will come, or wait.
FinishRemove(c) ==
  \/ /\ message_positions # <<>>
     /\ Pop(c)
     /\ removing' = removing \ {c}
     /\ UNCHANGED not_empty
  \/ /\ message_positions = <<>>
     /\ NoMoreAdd
     /\ removing' = removing \ {c}
     /\ UNCHANGED <<free_size, message_positions, not_full, not_empty, received>>
  \/ /\ message_positions = <<>>
     /\ ~NoMoreAdd
     /\ removing' = removing \cup {c}
     /\ not_empty' = not_empty \cup {c}
     /\ UNCHANGED <<free_size, message_positions, not_full, received>>

\* A new call.
Remove(c) ==
  /\ c \notin removing
  /\ FinishRemove(c)
  /\ UNCHANGED <<queue, write_pointer, finished_producers, pending>>

\* A consumer that was woken looks for a message again.
ResumeRemove(c) ==
  /\ c \in removing \ not_empty
  /\ FinishRemove(c)
  /\ UNCHANGED <<queue, write_pointer, finished_producers, pending>>

\* Mutant of Signal: the last producer wakes one consumer only.
SignalNoBroadcast(p) ==
  /\ finished_producers' = finished_producers \cup {p}
  /\ SignalOne(not_empty, not_empty')
  /\ UNCHANGED <<queue, free_size, write_pointer, message_positions, pending,
                 removing, not_full, received>>

\* Producer p adds nothing any more; the last one wakes every consumer.
Signal(p) ==
  /\ finished_producers' = finished_producers \cup {p}
  /\ not_empty' = IF Cardinality(finished_producers') >= num_producers THEN {}
                  ELSE not_empty
  /\ UNCHANGED <<queue, free_size, write_pointer, message_positions, pending,
                 removing, not_full, received>>

-----------------------------------------------------------------------------
Next ==
  \/ \E p \in Producers :
       \/ \E msg \in Messages : Add(p, msg)
       \/ ResumeAdd(p)
       \/ Signal(p)
  \/ \E c \in Consumers : Remove(c) \/ ResumeRemove(c)

Spec == Init /\ [][Next]_vars

-----------------------------------------------------------------------------
(* Properties *)

\* The ring implements a bounded FIFO of whole messages: what Remove reads
\* from the bytes is what Add was given, across the end of the ring and
\* whatever producers and consumers overtake each other.
Fifo == INSTANCE BoundedFifo WITH
  Capacity <- queue_size,
  Limit <- MaxSize,
  used <- queue_size - free_size,
  fifo <- [i \in DOMAIN message_positions |-> Bytes(message_positions[i])]

FifoSpec == Fifo!Spec

\* No consumer sleeps over a message: while one waits, every message in the
\* queue has a woken consumer that will look for it (cond_not_empty_.Signal
\* wakes one thread per Add).
NoSleepOverMessages ==
  not_empty # {} =>
    Len(message_positions) <= Cardinality(removing \ not_empty)

\* Producers never all sleep at an empty queue, although cond_not_full_.Signal
\* wakes one of them only and that one may find too little space: some woken
\* producer is left, or a message whose removal will signal again.
NoSleepAtEmptyQueue ==
  not_full # {} =>
    \/ message_positions # <<>>
    \/ \E p \in Producers \ not_full : pending[p] # Nothing

\* signaling_queue.h: consumers do not wait after all producers finished.
NoWaitAfterFinish == NoMoreAdd => not_empty = {}

Fairness ==
  /\ \A p \in Producers : WF_vars(ResumeAdd(p))
  /\ \A c \in Consumers : WF_vars(Remove(c)) /\ WF_vars(ResumeRemove(c))

LiveSpec == Spec /\ Fairness

\* Once all producers have finished, the queue runs empty and every Add and
\* Remove that was still waiting returns, whoever was woken in which order.
FinishDrains ==
  NoMoreAdd ~> /\ message_positions = <<>>
               /\ removing = {}
               /\ \A p \in Producers : pending[p] = Nothing
=============================================================================
