---------------------------- MODULE BoundedFifo ----------------------------
(***************************************************************************)
(* What a SignalingQueue promises to its users (server/signaling_queue.h): *)
(* messages come out whole and in the order in which they went in, and     *)
(* their total size never exceeds the size of the queue.                   *)
(***************************************************************************)
EXTENDS Integers, Sequences

CONSTANTS
  Capacity,   \* bytes
  Limit,      \* a consumer's buffer; a longer message is popped and lost
  Messages,   \* sequences of bytes
  Consumers,
  Nothing     \* a consumer that received no message yet

VARIABLES
  fifo,       \* the messages in the queue
  used,       \* their total size
  received    \* per consumer: the last message it got

vars == <<fifo, used, received>>

Init ==
  /\ fifo = <<>> /\ used = 0
  /\ received = [c \in Consumers |-> Nothing]

Put(msg) ==
  /\ used + Len(msg) <= Capacity
  /\ fifo' = Append(fifo, msg)
  /\ used' = used + Len(msg)
  /\ UNCHANGED received

Get(c) ==
  /\ fifo # <<>>
  /\ fifo' = Tail(fifo)
  /\ used' = used - Len(Head(fifo))
  /\ \/ received' = [received EXCEPT ![c] = Head(fifo)]
     \/ Len(Head(fifo)) > Limit /\ UNCHANGED received

Next ==
  \/ \E msg \in Messages : Put(msg)
  \/ \E c \in Consumers : Get(c)

Spec == Init /\ [][Next]_vars
=============================================================================
