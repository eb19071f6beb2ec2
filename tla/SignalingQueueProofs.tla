------------------------ MODULE SignalingQueueProofs ------------------------
(***************************************************************************)
(* Proofs about SignalingQueue, for a ring of any size, any messages and   *)
(* any threads.  The invariant behind them lays the messages out on a line *)
(* that goes past the end of the ring: there they follow each other        *)
(* without a gap, and the free bytes are those between the write pointer   *)
(* and the second appearance of the oldest message.                        *)
(***************************************************************************)
EXTENDS SignalingQueue, SequenceTheorems, FiniteSetTheorems, TLAPS

\* The place in the ring of a point of the line.
Wrap(x) == IF x < queue_size THEN x ELSE x - queue_size

\* The line is the ring, and what lies behind its end up to the head again.
Line == 0 .. 2 * queue_size - 1

Count == Len(message_positions)

\* off gives the start of each message on the line, and the end of the last:
\* the first is in the ring, and what is not free lies between the two;
Ends(off) ==
  /\ off[1] < queue_size
  /\ off[Count + 1] = off[1] + queue_size - free_size
  /\ write_pointer = Wrap(off[Count + 1])

\* each message is where its position says, and ends where the next one starts;
Placed(off) ==
  \A i \in 1 .. Count :
    /\ message_positions[i][1] = Wrap(off[i])
    /\ off[i + 1] = off[i] + message_positions[i][2]

\* and each one ends before any later one starts.
Ordered(off) ==
  \A i \in 1 .. Count, j \in 1 .. Count + 1 :
    i < j => off[i] + message_positions[i][2] <= off[j]

Ring == \E off \in [1 .. Count + 1 -> Line] : Ends(off) /\ Placed(off) /\ Ordered(off)

\* Who waits for space has a message to add, and one the ring can hold.
WaitersHaveMessages ==
  /\ \A p \in not_full : pending[p] # Nothing
  /\ \A p \in Producers : pending[p] # Nothing => Len(pending[p]) <= queue_size

IInv ==
  /\ TypeOK /\ Ring /\ WaitersHaveMessages
  /\ NoSleepOverMessages /\ NoSleepAtEmptyQueue /\ NoWaitAfterFinish
-----------------------------------------------------------------------------
(* The ring *)

\* Stored positions lie in the ring.
LEMMA PositionType ==
  ASSUME TypeOK, NEW i \in 1 .. Len(message_positions)
  PROVE  /\ message_positions[i] \in Positions
         /\ message_positions[i][1] \in 0 .. queue_size - 1
         /\ message_positions[i][2] \in 1 .. queue_size
  <1>1. message_positions[i] \in Positions
    BY ElementOfSeq DEF TypeOK
  <1> QED
    BY <1>1 DEF Positions

\* What producers add has bytes.
LEMMA MessageType ==
  ASSUME NEW msg \in Messages
  PROVE  /\ msg \in Seq(Nat)
         /\ Len(msg) \in Nat \ {0}
         /\ DOMAIN msg = 1 .. Len(msg)
         /\ msg # Nothing
  BY QueueAssumption, EmptySeq, LenProperties

\* SignalingQueue::Add: the written message extends the line at its end.
LEMMA WriteKeepsRing ==
  ASSUME TypeOK, Ring, NEW msg \in Messages, Fits(msg), Write(msg)
  PROVE  /\ Ring'
         /\ message_positions' \in Seq(Positions)
         /\ free_size' \in 0 .. queue_size
         /\ write_pointer' \in 0 .. queue_size - 1
  <1>0. PICK n : n = Count
    OBVIOUS
  <1> DEFINE size == Len(msg)
             pos == <<write_pointer, size>>
  <1>1. PICK off \in [1 .. n + 1 -> Line] : Ends(off) /\ Placed(off) /\ Ordered(off)
    BY <1>0 DEF Ring
  <1>2. size \in 1 .. queue_size /\ size <= free_size
    BY MessageType, QueueAssumption DEF Fits, TypeOK
  <1>3. /\ queue_size \in Nat \ {0} /\ free_size \in 0 .. queue_size
        /\ write_pointer \in 0 .. queue_size - 1
    BY QueueAssumption DEF TypeOK
  <1>4. n \in Nat
    BY <1>0, LenProperties DEF TypeOK, Count
  <1>5. pos \in Positions
    BY <1>2, <1>3 DEF Positions
  <1>6. /\ message_positions' \in Seq(Positions)
        /\ Count' = n + 1
        /\ \A i \in 1 .. n : message_positions'[i] = message_positions[i]
        /\ message_positions'[n + 1] = pos
    BY <1>0, <1>5, AppendProperties DEF TypeOK, Count, Write
  <1>7. /\ free_size' = free_size - size
        /\ write_pointer' = NextWritePointer(size)
        /\ free_size' \in 0 .. queue_size /\ write_pointer' \in 0 .. queue_size - 1
    BY <1>2, <1>3 DEF NextWritePointer, Write
  <1> DEFINE end == off[n + 1]
             new == [i \in 1 .. n + 2 |-> IF i <= n + 1 THEN off[i] ELSE end + size]
  <1>8. /\ \A i \in 1 .. n + 1 : new[i] = off[i] /\ off[i] \in Line
        /\ new[n + 2] = end + size
        /\ 1 \in 1 .. n + 1 /\ n + 1 \in 1 .. n + 1
    BY <1>4
  <1>9. /\ off[1] \in 0 .. queue_size - 1
        /\ end = off[1] + queue_size - free_size
        /\ write_pointer = Wrap(end)
    BY <1>0, <1>1, <1>3, <1>8 DEF Ends, Line
  <1>10. end \in Nat /\ end + size \in Line
    BY <1>2, <1>3, <1>9 DEF Line
  <1>11. new \in [1 .. n + 2 -> Line]
    BY <1>8, <1>10
  <1> HIDE DEF end, new, size
  <1>12. Ends(new)'
    <2>1. new[1] = off[1] /\ new[n + 2] = new[1] + queue_size - free_size'
      BY <1>2, <1>3, <1>7, <1>8, <1>9
    <2>2. write_pointer' = Wrap(new[n + 2])
      BY <1>2, <1>3, <1>7, <1>8, <1>9 DEF Wrap, NextWritePointer
    <2>3. Count' + 1 = n + 2 /\ new[1] < queue_size
      BY <1>3, <1>4, <1>6, <1>9, <2>1
    <2> QED
      BY <2>1, <2>2, <2>3 DEF Ends, Wrap
  <1>13. Placed(new)'
    <2>1. ASSUME NEW i \in 1 .. n + 1
          PROVE  /\ message_positions'[i][1] = Wrap(new[i])
                 /\ new[i + 1] = new[i] + message_positions'[i][2]
      <3>1. CASE i \in 1 .. n
        <4>1. /\ message_positions[i][1] = Wrap(off[i])
              /\ off[i + 1] = off[i] + message_positions[i][2]
          BY <1>0, <1>1, <3>1 DEF Placed
        <4>2. new[i] = off[i] /\ new[i + 1] = off[i + 1]
          BY <1>4, <1>8, <3>1
        <4> QED
          BY <1>6, <3>1, <4>1, <4>2
      <3>2. CASE i = n + 1
        <4>1. /\ message_positions'[i][1] = write_pointer
              /\ message_positions'[i][2] = size
          BY <1>6, <3>2 DEF size
        <4>2. new[i] = end /\ new[i + 1] = end + size
          BY <1>4, <1>8, <3>2 DEF end
        <4> QED
          BY <1>9, <4>1, <4>2
      <3> QED
        BY <1>4, <3>1, <3>2
    <2> QED
      BY <1>0, <1>6, <2>1 DEF Placed, Wrap
  <1>14. Ordered(new)'
    <2>1. ASSUME NEW i \in 1 .. n + 1, NEW j \in 1 .. n + 2, i < j
          PROVE  new[i] + message_positions'[i][2] <= new[j]
      <3>1. CASE j \in 1 .. n + 1
        <4>1. i \in 1 .. n
          BY <1>4, <2>1, <3>1
        <4>2. off[i] + message_positions[i][2] <= off[j]
          BY <1>0, <1>1, <2>1, <3>1, <4>1 DEF Ordered
        <4>3. new[i] = off[i] /\ new[j] = off[j]
          BY <1>8, <3>1
        <4> QED
          BY <1>6, <4>1, <4>2, <4>3
      <3>2. CASE j = n + 2 /\ i \in 1 .. n
        <4>1. off[i] + message_positions[i][2] <= end
          BY <1>0, <1>1, <1>4, <3>2 DEF Ordered, end
        <4>2. off[i] \in Int
          BY <1>3, <1>8 DEF Line
        <4>3. message_positions[i][2] \in Int
          BY <1>0, <3>2, <1>3, PositionType DEF Count
        <4>4. new[i] = off[i] /\ new[j] = end + size
          BY <1>8, <3>2
        <4>5. message_positions'[i] = message_positions[i]
          BY <1>6, <3>2
        <4> QED
          BY <1>2, <1>10, <4>1, <4>2, <4>3, <4>4, <4>5
      <3>3. CASE j = n + 2 /\ i = n + 1
        <4>1. new[i] = end /\ new[j] = end + size
          BY <1>8, <3>3 DEF end
        <4>2. message_positions'[i][2] = size
          BY <1>6, <3>3 DEF size
        <4> QED
          BY <1>2, <1>10, <4>1, <4>2
      <3> QED
        BY <1>4, <3>1, <3>2, <3>3
    <2> QED
      BY <1>0, <1>4, <1>6, <2>1 DEF Ordered
  <1>15. Ring'
    <2>1. new \in [1 .. Count' + 1 -> Line]
      BY <1>4, <1>6, <1>11
    <2> QED
      BY <2>1, <1>12, <1>13, <1>14 DEF Ring, Line
  <1> QED
    BY <1>6, <1>7, <1>15

\* SignalingQueue::Remove: the line begins at the second message then.  When
\* that one starts behind the end of the ring, the line is moved back by one
\* length of the ring.
LEMMA PopKeepsRing ==
  ASSUME TypeOK, Ring, message_positions # <<>>,
         NEW c, Pop(c), UNCHANGED write_pointer
  PROVE  /\ Ring'
         /\ message_positions' \in Seq(Positions)
         /\ free_size' \in 0 .. queue_size
  <1>0. PICK n : n = Count
    OBVIOUS
  <1>1. PICK off \in [1 .. n + 1 -> Line] : Ends(off) /\ Placed(off) /\ Ordered(off)
    BY <1>0 DEF Ring
  <1>2. queue_size \in Nat \ {0} /\ free_size \in 0 .. queue_size
    BY QueueAssumption DEF TypeOK
  <1>3. n \in Nat \ {0}
    BY <1>0, EmptySeq DEF TypeOK, Count
  <1>4. /\ message_positions' \in Seq(Positions)
        /\ Count' = n - 1
        /\ \A i \in 1 .. n - 1 : message_positions'[i] = message_positions[i + 1]
        /\ Head(message_positions) = message_positions[1]
    BY <1>0, <1>3, HeadTailProperties DEF TypeOK, Count, Pop
  <1>5. \A i \in 1 .. n : message_positions[i][2] \in 1 .. queue_size
    BY <1>0, PositionType DEF Count
  <1> DEFINE size == message_positions[1][2]
             second == off[2]
             end == off[n + 1]
             shift == IF second < queue_size THEN 0 ELSE queue_size
             new == [i \in 1 .. n |-> off[i + 1] - shift]
  <1>6. size \in 1 .. queue_size /\ free_size' = free_size + size
    BY <1>3, <1>4, <1>5 DEF Pop
  <1>7. /\ \A i \in 1 .. n : new[i] = off[i + 1] - shift
        /\ \A i \in 1 .. n + 1 : off[i] \in Line
        /\ new[1] = second - shift /\ new[n] = end - shift
    BY <1>3
  <1>8. /\ off[1] \in 0 .. queue_size - 1
        /\ end = off[1] + queue_size - free_size
        /\ write_pointer = Wrap(end)
    BY <1>0, <1>1, <1>2, <1>3, <1>7 DEF Ends, Line
  <1>9. second = off[1] + size /\ off[1] + size <= end
    BY <1>0, <1>1, <1>3 DEF Placed, Ordered
  <1>10. free_size' \in 0 .. queue_size
    BY <1>2, <1>6, <1>8, <1>9
  <1>11. ASSUME NEW i \in 1 .. n
         PROVE  second <= off[i + 1] /\ off[i + 1] \in Line
    BY <1>0, <1>1, <1>3, <1>7, <1>9 DEF Ordered
  <1> HIDE DEF size, second, end, new
  <1>12. ASSUME NEW i \in 1 .. n
         PROVE  new[i] \in Line /\ Wrap(new[i]) = Wrap(off[i + 1])
    <2>1. new[i] = off[i + 1] - shift
      BY <1>7
    <2>2. second \in Nat
      BY <1>6, <1>8, <1>9
    <2> QED
      BY <1>2, <1>11, <2>1, <2>2 DEF Wrap, Line
  <1>13. new \in [1 .. n -> Line]
    BY <1>12 DEF new
  <1>14. Ends(new)'
    <2>1. new[1] < queue_size
      BY <1>2, <1>6, <1>7, <1>8, <1>9
    <2>2. new[n] = new[1] + queue_size - free_size'
      BY <1>2, <1>6, <1>7, <1>8, <1>9
    <2>3. write_pointer' = Wrap(new[n])
      BY <1>3, <1>8, <1>12 DEF end
    <2> QED
      BY <1>0, <1>3, <1>4, <2>1, <2>2, <2>3 DEF Ends, Wrap
  <1>15. Placed(new)'
    <2>1. ASSUME NEW i \in 1 .. n - 1
          PROVE  /\ message_positions'[i][1] = Wrap(new[i])
                 /\ new[i + 1] = new[i] + message_positions'[i][2]
      <3>1. /\ message_positions[i + 1][1] = Wrap(off[i + 1])
            /\ off[i + 2] = off[i + 1] + message_positions[i + 1][2]
        BY <1>0, <1>1, <1>3 DEF Placed
      <3>2. message_positions[i + 1][2] \in Int /\ off[i + 1] \in Int
        BY <1>2, <1>3, <1>5, <1>7 DEF Line
      <3>3. new[i] = off[i + 1] - shift /\ new[i + 1] = off[i + 2] - shift
        BY <1>3, <1>7
      <3>4. message_positions'[i] = message_positions[i + 1] /\ Wrap(new[i]) = Wrap(off[i + 1])
        BY <1>3, <1>4, <1>12
      <3> QED
        BY <1>2, <3>1, <3>2, <3>3, <3>4
    <2> QED
      BY <1>0, <1>4, <2>1 DEF Placed, Wrap
  <1>16. Ordered(new)'
    <2>1. ASSUME NEW i \in 1 .. n - 1, NEW j \in 1 .. n, i < j
          PROVE  new[i] + message_positions'[i][2] <= new[j]
      <3>1. off[i + 1] + message_positions[i + 1][2] <= off[j + 1]
        BY <1>0, <1>1, <1>3, <2>1 DEF Ordered
      <3>2. message_positions[i + 1][2] \in Int /\ off[i + 1] \in Int /\ off[j + 1] \in Int
        BY <1>2, <1>3, <1>5, <1>7 DEF Line
      <3>3. new[i] = off[i + 1] - shift /\ new[j] = off[j + 1] - shift
        BY <1>3, <1>7
      <3>4. message_positions'[i] = message_positions[i + 1]
        BY <1>4
      <3> QED
        BY <1>2, <3>1, <3>2, <3>3, <3>4
    <2> QED
      BY <1>0, <1>3, <1>4, <2>1 DEF Ordered
  <1>17. Ring'
    <2>1. new \in [1 .. Count' + 1 -> Line]
      BY <1>3, <1>4, <1>13
    <2> QED
      BY <2>1, <1>14, <1>15, <1>16 DEF Ring, Line
  <1> QED
    BY <1>4, <1>10, <1>17

\* Without messages the whole ring is free.
LEMMA EmptyIsFree ==
  ASSUME TypeOK, Ring, message_positions = <<>>
  PROVE  free_size = queue_size
  <1>1. PICK off \in [1 .. Count + 1 -> Line] : Ends(off)
    BY DEF Ring
  <1>2. Count = 0
    BY EmptySeq DEF Count
  <1>3. off[1] \in Int /\ off[1] = off[1] + queue_size - free_size
    BY <1>1, <1>2, QueueAssumption DEF Ends, Line
  <1> QED
    BY <1>3, QueueAssumption DEF TypeOK

-----------------------------------------------------------------------------
(* The inductive invariant *)

\* Nothing that counts for the ring, the waiting threads or the messages is
\* changed by a step that leaves these variables alone.
LEMMA RingUnchanged ==
  ASSUME Ring, UNCHANGED <<message_positions, free_size, write_pointer>>
  PROVE  Ring'
  BY DEF Ring, Count, Ends, Placed, Ordered, Line, Wrap

\* Signal wakes one thread of those that wait.
LEMMA SignalOneWakes ==
  ASSUME NEW W, NEW V, SignalOne(W, V)
  PROVE  /\ V \subseteq W
         /\ W # {} => \E th \in W : V = W \ {th}
         /\ W = {} => V = {}
  BY DEF SignalOne

\* Written stays a ring of bytes.
LEMMA WrittenType ==
  ASSUME TypeOK, NEW msg \in Messages, Fits(msg)
  PROVE  Written(msg) \in [0 .. queue_size - 1 -> Nat]
  <1> DEFINE size == Len(msg)
  <1>1. /\ size \in Nat \ {0} /\ size <= free_size
        /\ \A k \in 1 .. size : msg[k] \in Nat
    BY MessageType, ElementOfSeq DEF Fits
  <1>2. /\ queue_size \in Nat \ {0} /\ free_size \in 0 .. queue_size
        /\ write_pointer \in 0 .. queue_size - 1
        /\ queue \in [0 .. queue_size - 1 -> Nat]
    BY QueueAssumption DEF TypeOK
  <1> HIDE DEF size
  <1>3. ASSUME NEW i \in 0 .. queue_size - 1
        PROVE  Written(msg)[i] \in Nat
    BY <1>1, <1>2 DEF Written, size
  <1>4. Written(msg) = [i \in 0 .. queue_size - 1 |-> Written(msg)[i]]
    BY <1>2 DEF Written
  <1> QED
    BY <1>3, <1>4

\* An Add that finds space, new or woken, keeps the invariant.
LEMMA WriteStep ==
  ASSUME IInv, NEW p \in Producers, NEW msg \in Messages,
         Fits(msg), Write(msg),
         pending' = [pending EXCEPT ![p] = Nothing],
         p \notin not_full,
         UNCHANGED <<not_full, finished_producers, removing, received>>
  PROVE  IInv'
  <1>1. /\ Ring'
        /\ message_positions' \in Seq(Positions)
        /\ free_size' \in 0 .. queue_size
        /\ write_pointer' \in 0 .. queue_size - 1
    BY WriteKeepsRing DEF IInv
  <1>2. queue' \in [0 .. queue_size - 1 -> Nat]
    BY WrittenType DEF IInv, Write
  <1>3. /\ not_empty' \subseteq not_empty
        /\ not_empty # {} => \E th \in not_empty : not_empty' = not_empty \ {th}
        /\ not_empty = {} => not_empty' = {}
    BY SignalOneWakes DEF Write
  <1>4. TypeOK'
    BY <1>1, <1>2, <1>3 DEF IInv, TypeOK
  <1>5. /\ message_positions' # <<>>
        /\ Len(message_positions) \in Nat
        /\ Len(message_positions') = Len(message_positions) + 1
    <2>1. <<write_pointer, Len(msg)>> \in Positions
      BY MessageType, QueueAssumption DEF IInv, TypeOK, Positions, Fits
    <2> QED
      BY <2>1, AppendProperties, LenProperties DEF IInv, TypeOK, Write
  <1>6. WaitersHaveMessages'
    BY DEF IInv, TypeOK, WaitersHaveMessages
  <1>7. NoSleepOverMessages'
    <2>1. CASE not_empty = {}
      BY <1>3, <2>1 DEF NoSleepOverMessages
    <2>2. CASE not_empty # {}
      <3>1. PICK th \in not_empty : not_empty' = not_empty \ {th}
        BY <1>3, <2>2
      <3>2. removing' \ not_empty' = (removing \ not_empty) \cup {th}
        BY <3>1 DEF IInv, TypeOK
      <3>3. IsFiniteSet(removing \ not_empty) /\ th \notin removing \ not_empty
        BY FS_Subset, QueueAssumption DEF IInv, TypeOK
      <3>4. /\ Cardinality(removing \ not_empty) \in Nat
            /\ Cardinality(removing' \ not_empty') = Cardinality(removing \ not_empty) + 1
        BY <3>2, <3>3, FS_AddElement, FS_CardinalityType
      <3> QED
        BY <1>5, <2>2, <3>4 DEF IInv, NoSleepOverMessages
    <2> QED
      BY <2>1, <2>2
  <1>8. NoSleepAtEmptyQueue' /\ NoWaitAfterFinish'
    BY <1>3, <1>5 DEF IInv, NoSleepAtEmptyQueue, NoWaitAfterFinish, NoMoreAdd
  <1> QED
    BY <1>1, <1>4, <1>6, <1>7, <1>8 DEF IInv

\* An Add that finds no space waits; the ring cannot be empty then.
LEMMA WaitForSpaceStep ==
  ASSUME IInv, NEW p \in Producers, NEW msg \in Messages,
         ~Fits(msg), Len(msg) <= queue_size,
         pending' = [pending EXCEPT ![p] = msg],
         not_full' = not_full \cup {p},
         UNCHANGED <<queue, free_size, write_pointer, message_positions,
                     not_empty, finished_producers, removing, received>>
  PROVE  IInv'
  <1>1. TypeOK'
    BY DEF IInv, TypeOK
  <1>2. Ring'
    BY RingUnchanged DEF IInv
  <1>3. msg # Nothing /\ Len(msg) \in Nat
    BY MessageType
  <1>4. WaitersHaveMessages'
    BY <1>3 DEF IInv, TypeOK, WaitersHaveMessages
  <1>5. message_positions # <<>>
    BY <1>3, EmptyIsFree, QueueAssumption DEF IInv, TypeOK, Fits
  <1>6. NoSleepOverMessages' /\ NoSleepAtEmptyQueue' /\ NoWaitAfterFinish'
    BY <1>5 DEF IInv, NoSleepOverMessages, NoSleepAtEmptyQueue, NoWaitAfterFinish, NoMoreAdd
  <1> QED
    BY <1>1, <1>2, <1>4, <1>6 DEF IInv

\* A Remove that takes a message, new or woken, keeps the invariant.
LEMMA PopStep ==
  ASSUME IInv, NEW c \in Consumers, c \notin not_empty,
         message_positions # <<>>, Pop(c),
         removing' = removing \ {c},
         UNCHANGED <<queue, write_pointer, finished_producers, pending, not_empty>>
  PROVE  IInv'
  <1>1. /\ Ring'
        /\ message_positions' \in Seq(Positions)
        /\ free_size' \in 0 .. queue_size
    BY PopKeepsRing DEF IInv
  <1>2. /\ not_full' \subseteq not_full
        /\ not_full # {} => \E th \in not_full : not_full' = not_full \ {th}
        /\ not_full = {} => not_full' = {}
    BY SignalOneWakes DEF Pop
  <1>3. DOMAIN received' = Consumers
    BY DEF IInv, TypeOK, Pop
  <1>4. TypeOK'
    BY <1>1, <1>2, <1>3 DEF IInv, TypeOK
  <1>5. /\ Len(message_positions) \in Nat
        /\ Len(message_positions') = Len(message_positions) - 1
    BY HeadTailProperties, LenProperties DEF IInv, TypeOK, Pop
  <1>6. WaitersHaveMessages'
    BY <1>2 DEF IInv, WaitersHaveMessages
  <1>7. NoSleepOverMessages'
    <2>1. removing' \ not_empty' = (removing \ not_empty) \ {c}
      OBVIOUS
    <2>2. IsFiniteSet(removing \ not_empty)
      BY FS_Subset, QueueAssumption DEF IInv, TypeOK
    <2>3. /\ Cardinality(removing \ not_empty) \in Nat
          /\ \/ Cardinality(removing' \ not_empty') = Cardinality(removing \ not_empty)
             \/ Cardinality(removing' \ not_empty') = Cardinality(removing \ not_empty) - 1
      BY <2>1, <2>2, FS_RemoveElement, FS_CardinalityType
    <2> QED
      BY <1>5, <2>3 DEF IInv, NoSleepOverMessages
  <1>8. NoSleepAtEmptyQueue'
    <2>1. CASE not_full = {}
      BY <1>2, <2>1 DEF NoSleepAtEmptyQueue
    <2>2. CASE not_full # {}
      <3>1. PICK th \in not_full : not_full' = not_full \ {th}
        BY <1>2, <2>2
      <3>2. th \in Producers \ not_full' /\ pending'[th] # Nothing
        BY <3>1 DEF IInv, TypeOK, WaitersHaveMessages
      <3> QED
        BY <3>2 DEF NoSleepAtEmptyQueue
    <2> QED
      BY <2>1, <2>2
  <1>9. NoWaitAfterFinish'
    BY DEF IInv, NoWaitAfterFinish, NoMoreAdd
  <1> QED
    BY <1>1, <1>4, <1>6, <1>7, <1>8, <1>9 DEF IInv

\* A Remove at an empty queue gives up or waits.
LEMMA EmptyRemoveStep ==
  ASSUME IInv, NEW c \in Consumers, message_positions = <<>>, c \notin not_empty,
         \/ NoMoreAdd /\ removing' = removing \ {c} /\ UNCHANGED not_empty
         \/ ~NoMoreAdd /\ removing' = removing \cup {c} /\ not_empty' = not_empty \cup {c},
         UNCHANGED <<queue, write_pointer, finished_producers, pending, free_size,
                     message_positions, not_full, received>>
  PROVE  IInv'
  <1>1. TypeOK'
    BY DEF IInv, TypeOK
  <1>2. Ring'
    BY RingUnchanged DEF IInv
  <1>3. WaitersHaveMessages' /\ NoSleepAtEmptyQueue'
    BY DEF IInv, WaitersHaveMessages, NoSleepAtEmptyQueue
  <1>4. NoSleepOverMessages'
    <2>1. Len(message_positions') = 0
      BY EmptySeq
    <2>2. IsFiniteSet(removing' \ not_empty')
      BY <1>1, FS_Subset, QueueAssumption DEF TypeOK
    <2>3. Cardinality(removing' \ not_empty') \in Nat
      BY <2>2, FS_CardinalityType
    <2> QED
      BY <2>1, <2>3 DEF NoSleepOverMessages
  <1>5. NoWaitAfterFinish'
    BY DEF IInv, NoWaitAfterFinish, NoMoreAdd
  <1> QED
    BY <1>1, <1>2, <1>3, <1>4, <1>5 DEF IInv

\* SignalingQueue::Signal: the last producer wakes every consumer.
LEMMA SignalStep ==
  ASSUME IInv, NEW p \in Producers, Signal(p)
  PROVE  IInv'
  <1>1. not_empty' \subseteq not_empty /\ (NoMoreAdd' => not_empty' = {})
    BY DEF Signal, NoMoreAdd
  <1>2. not_empty' # {} => not_empty' = not_empty
    BY DEF Signal
  <1>3. /\ finished_producers' = finished_producers \cup {p}
        /\ UNCHANGED <<queue, free_size, write_pointer, message_positions, pending,
                       removing, not_full, received>>
    BY DEF Signal
  <1>4. TypeOK'
    BY <1>1, <1>3 DEF IInv, TypeOK
  <1>5. Ring'
    BY <1>3, RingUnchanged DEF IInv
  <1>6. WaitersHaveMessages' /\ NoSleepAtEmptyQueue' /\ NoWaitAfterFinish'
    BY <1>1, <1>3 DEF IInv, WaitersHaveMessages, NoSleepAtEmptyQueue, NoWaitAfterFinish
  <1>7. NoSleepOverMessages'
    BY <1>2, <1>3 DEF IInv, NoSleepOverMessages
  <1> QED
    BY <1>4, <1>5, <1>6, <1>7 DEF IInv

\* The constructor leaves an empty ring and nobody waiting.
LEMMA IInvInit == Init => IInv
  <1> SUFFICES ASSUME Init PROVE IInv
    OBVIOUS
  <1>1. TypeOK
    BY QueueAssumption, EmptySeq DEF Init, TypeOK
  <1>2. Ring
    <2> DEFINE off == [i \in 1 .. 1 |-> 0]
    <2>1. Count = 0
      BY EmptySeq DEF Init, Count
    <2>2. off \in [1 .. Count + 1 -> Line]
      BY <2>1, QueueAssumption DEF Line
    <2>3. Ends(off) /\ Placed(off) /\ Ordered(off)
      BY <2>1, QueueAssumption DEF Init, Ends, Placed, Ordered, Wrap
    <2> QED
      BY <2>2, <2>3 DEF Ring
  <1>3. WaitersHaveMessages /\ NoSleepOverMessages /\ NoSleepAtEmptyQueue /\ NoWaitAfterFinish
    BY DEF Init, WaitersHaveMessages, NoSleepOverMessages, NoSleepAtEmptyQueue, NoWaitAfterFinish
  <1> QED
    BY <1>1, <1>2, <1>3 DEF IInv

\* Every call of Add, Remove and Signal keeps the invariant.
LEMMA IInvStep == IInv /\ [Next]_vars => IInv'
  <1> SUFFICES ASSUME IInv, [Next]_vars PROVE IInv'
    OBVIOUS
  <1>1. ASSUME NEW p \in Producers, NEW msg \in Messages, Add(p, msg)
        PROVE  IInv'
    <2>1. p \notin not_full
      BY <1>1 DEF Add, IInv, WaitersHaveMessages
    <2>2. CASE Fits(msg)
      BY <1>1, <2>1, <2>2, WriteStep DEF Add, FinishAdd
    <2>3. CASE ~Fits(msg)
      BY <1>1, <2>3, WaitForSpaceStep DEF Add, FinishAdd
    <2> QED
      BY <2>2, <2>3
  <1>2. ASSUME NEW p \in Producers, ResumeAdd(p)
        PROVE  IInv'
    <2>1. pending[p] \in Messages /\ Len(pending[p]) <= queue_size
      BY <1>2 DEF ResumeAdd, IInv, TypeOK, WaitersHaveMessages
    <2>2. CASE Fits(pending[p])
      BY <1>2, <2>1, <2>2, WriteStep DEF ResumeAdd, FinishAdd
    <2>3. CASE ~Fits(pending[p])
      BY <1>2, <2>1, <2>3, WaitForSpaceStep DEF ResumeAdd, FinishAdd
    <2> QED
      BY <2>2, <2>3
  <1>3. ASSUME NEW c \in Consumers, Remove(c) \/ ResumeRemove(c)
        PROVE  IInv'
    <2>1. /\ c \notin not_empty /\ FinishRemove(c)
          /\ UNCHANGED <<queue, write_pointer, finished_producers, pending>>
      BY <1>3 DEF Remove, ResumeRemove, IInv, TypeOK
    <2>2. CASE message_positions # <<>>
      BY <2>1, <2>2, PopStep DEF FinishRemove
    <2>3. CASE message_positions = <<>>
      BY <2>1, <2>3, EmptyRemoveStep DEF FinishRemove
    <2> QED
      BY <2>2, <2>3
  <1>4. CASE UNCHANGED vars
    <2>1. Ring'
      BY <1>4, RingUnchanged DEF vars, IInv
    <2> QED
      BY <1>4, <2>1 DEF vars, IInv, TypeOK, WaitersHaveMessages, NoSleepOverMessages,
                        NoSleepAtEmptyQueue, NoWaitAfterFinish, NoMoreAdd
  <1> QED
    BY <1>1, <1>2, <1>3, <1>4, SignalStep DEF Next

LEMMA Invariant == Spec => []IInv
  BY IInvInit, IInvStep, PTL DEF Spec

\* SignalingQueue: pointers and positions stay in the ring and the free space
\* between none and all of it, for every ring and every message.
THEOREM TypeCorrect == Spec => []TypeOK
  BY Invariant, PTL DEF IInv

\* SignalingQueue::Add wakes one consumer per message: while one waits, each
\* message in the queue has a woken consumer, however many threads there are.
THEOREM NobodySleepsOverMessages == Spec => []NoSleepOverMessages
  BY Invariant, PTL DEF IInv

\* SignalingQueue::Remove wakes one producer, which may still lack space: the
\* producers never all sleep at an empty queue.
THEOREM NobodySleepsAtEmptyQueue == Spec => []NoSleepAtEmptyQueue
  BY Invariant, PTL DEF IInv

\* SignalingQueue::Signal: once all producers finished no consumer waits.
THEOREM NobodyWaitsAfterFinish == Spec => []NoWaitAfterFinish
  BY Invariant, PTL DEF IInv

-----------------------------------------------------------------------------
(* The ring implements a bounded FIFO *)

fifo == [i \in DOMAIN message_positions |-> Bytes(message_positions[i])]

\* The place in the ring of byte k of a message, as Bytes reads it.
Place(start, size, k) ==
  IF start + size <= queue_size \/ k <= queue_size - start
  THEN start + k - 1
  ELSE k - 1 - (queue_size - start)

\* What is read at a position is a sequence of the stored length.
LEMMA BytesType ==
  ASSUME TypeOK, NEW i \in 1 .. Count
  PROVE  /\ Bytes(message_positions[i]) \in Seq(Nat)
         /\ Len(Bytes(message_positions[i])) = message_positions[i][2]
         /\ DOMAIN Bytes(message_positions[i]) = 1 .. message_positions[i][2]
  <1> DEFINE start == message_positions[i][1]
             size == message_positions[i][2]
             b == Bytes(message_positions[i])
  <1>0. b = [k \in 1 .. size |-> queue[Place(start, size, k)]]
    BY DEF Bytes, Place
  <1>1. start \in 0 .. queue_size - 1 /\ size \in 1 .. queue_size
    BY PositionType DEF Count
  <1>2. queue_size \in Nat /\ queue \in [0 .. queue_size - 1 -> Nat]
    BY QueueAssumption DEF TypeOK
  <1>3. ASSUME NEW k \in 1 .. size PROVE b[k] \in Nat
    <2> DEFINE x == Place(start, size, k)
    <2>1. x \in 0 .. queue_size - 1
      <3> HIDE DEF start, size
      <3> QED
        BY <1>1, <1>2 DEF Place
    <2> HIDE DEF x
    <2>2. queue[x] \in Nat
      BY <1>2, <2>1
    <2> QED
      BY <1>0, <2>2 DEF x
  <1>4. b \in [1 .. size -> Nat]
    BY <1>0, <1>3
  <1>5. b \in Seq(Nat)
    BY <1>1, <1>4, SeqDef
  <1>6. DOMAIN b = 1 .. size
    BY <1>4
  <1> QED
    BY <1>1, <1>5, <1>6, LenProperties

\* The messages of the queue as a sequence of sequences.
LEMMA FifoType ==
  ASSUME TypeOK
  PROVE  /\ fifo \in Seq(Seq(Nat))
         /\ Len(fifo) = Count /\ DOMAIN fifo = 1 .. Count
         /\ \A i \in 1 .. Count : fifo[i] = Bytes(message_positions[i])
  <1>1. DOMAIN message_positions = 1 .. Count /\ Count \in Nat
    BY LenProperties DEF TypeOK, Count
  <1>2. fifo \in [1 .. Count -> Seq(Nat)]
    BY <1>1, BytesType DEF fifo
  <1>3. fifo \in Seq(Seq(Nat))
    BY <1>1, <1>2, SeqDef
  <1> QED
    BY <1>1, <1>2, <1>3, LenProperties DEF fifo

\* A message on the line at o, before the end e of the line, shares no place
\* with the len bytes behind e as long as these do not reach the line's first
\* point again.
LEMMA PlacesDisjoint ==
  ASSUME NEW len \in Nat \ {0}, NEW first \in Nat, NEW o \in Nat, NEW e \in Nat,
         NEW size \in 1 .. queue_size, NEW k \in 1 .. size,
         first < queue_size, first <= o, o + size <= e, e + len <= first + queue_size
  PROVE  /\ Place(Wrap(o), size, k) \in 0 .. queue_size - 1
         /\ Wrap(e) + len <= queue_size =>
              Place(Wrap(o), size, k) \notin Wrap(e) .. Wrap(e) + len - 1
         /\ ~(Wrap(e) + len <= queue_size) =>
              /\ Place(Wrap(o), size, k) < Wrap(e)
              /\ ~(Place(Wrap(o), size, k) < len - (queue_size - Wrap(e)))
  <1>1. queue_size \in Nat \ {0}
    BY QueueAssumption
  <1>2. CASE o < queue_size /\ e < queue_size
    BY <1>1, <1>2 DEF Place, Wrap
  <1>3. CASE o < queue_size /\ e >= queue_size
    BY <1>1, <1>3 DEF Place, Wrap
  <1>4. CASE o >= queue_size
    BY <1>1, <1>4 DEF Place, Wrap
  <1> QED
    BY <1>1, <1>2, <1>3, <1>4

\* SignalingQueue::Add: the new message does not touch the bytes of another.
LEMMA WriteKeepsBytes ==
  ASSUME TypeOK, Ring, NEW msg \in Messages, Fits(msg), Write(msg),
         NEW i \in 1 .. Count, message_positions'[i] = message_positions[i]
  PROVE  Bytes(message_positions[i])' = Bytes(message_positions[i])
  <1> DEFINE n == Count
             size == message_positions[i][2]
             start == message_positions[i][1]
  <1>1. PICK off \in [1 .. n + 1 -> Line] : Ends(off) /\ Placed(off) /\ Ordered(off)
    BY DEF Ring
  <1>2. /\ queue_size \in Nat \ {0} /\ free_size \in 0 .. queue_size
        /\ write_pointer \in 0 .. queue_size - 1
        /\ DOMAIN queue = 0 .. queue_size - 1
    BY QueueAssumption DEF TypeOK
  <1>3. Len(msg) \in Nat \ {0} /\ Len(msg) <= free_size
    BY MessageType DEF Fits
  <1>4. n \in Nat
    BY LenProperties DEF TypeOK, Count
  <1>5. start \in 0 .. queue_size - 1 /\ size \in 1 .. queue_size
    BY PositionType DEF Count
  <1>6. off[1] \in Nat /\ off[i] \in Nat /\ off[n + 1] \in Nat
    BY <1>2, <1>4 DEF Line
  <1>7. /\ off[1] < queue_size
        /\ off[n + 1] = off[1] + queue_size - free_size
        /\ write_pointer = Wrap(off[n + 1])
        /\ start = Wrap(off[i])
        /\ off[i] + size <= off[n + 1]
    BY <1>1, <1>4 DEF Ends, Placed, Ordered
  <1>8. off[1] <= off[i]
    <2>1. CASE i = 1
      BY <1>6, <2>1
    <2>2. CASE i # 1
      <3>1. off[1] + message_positions[1][2] <= off[i]
        BY <1>1, <1>4, <2>2 DEF Ordered
      <3>2. message_positions[1][2] \in Nat
        BY <1>2, <1>4, PositionType DEF Count
      <3> QED
        BY <1>6, <3>1, <3>2
    <2> QED
      BY <2>1, <2>2
  <1> HIDE DEF n, size, start
  <1>9. ASSUME NEW k \in 1 .. size
        PROVE  Written(msg)[Place(start, size, k)] = queue[Place(start, size, k)]
    <2>1. off[n + 1] + Len(msg) <= off[1] + queue_size
      BY <1>2, <1>3, <1>6, <1>7
    <2> DEFINE x == Place(start, size, k)
    <2>2. /\ x \in 0 .. queue_size - 1
          /\ write_pointer + Len(msg) <= queue_size =>
               x \notin write_pointer .. write_pointer + Len(msg) - 1
          /\ ~(write_pointer + Len(msg) <= queue_size) =>
               x < write_pointer /\ ~(x < Len(msg) - (queue_size - write_pointer))
      BY <1>3, <1>5, <1>6, <1>7, <1>8, <2>1, PlacesDisjoint
    <2> HIDE DEF x
    <2>3. Written(msg)[x] = queue[x]
      BY <1>2, <1>3, <2>2 DEF Written
    <2> QED
      BY <2>3 DEF x
  <1>10. queue' = Written(msg)
    BY DEF Write
  <1> QED
    BY <1>9, <1>10 DEF Bytes, Place, size, start

\* SignalingQueue::Add: the bytes read at the new position are the message.
LEMMA WrittenIsRead ==
  ASSUME TypeOK, NEW msg \in Messages, Fits(msg), Write(msg),
         NEW i, message_positions'[i] = <<write_pointer, Len(msg)>>
  PROVE  Bytes(message_positions[i])' = msg
  <1> DEFINE size == Len(msg)
  <1>1. /\ queue_size \in Nat \ {0} /\ free_size \in 0 .. queue_size
        /\ write_pointer \in 0 .. queue_size - 1
        /\ DOMAIN queue = 0 .. queue_size - 1
    BY QueueAssumption DEF TypeOK
  <1>2. size \in 1 .. queue_size /\ DOMAIN msg = 1 .. size
    BY <1>1, MessageType DEF Fits
  <1>3. msg = [k \in 1 .. size |-> msg[k]]
    BY <1>2, MessageType, LenProperties
  <1>4. queue' = Written(msg)
    BY DEF Write
  <1>5. Bytes(message_positions[i])' =
          [k \in 1 .. size |-> Written(msg)[Place(write_pointer, size, k)]]
    BY <1>4 DEF Bytes, Place
  <1> HIDE DEF size
  <1>6. ASSUME NEW k \in 1 .. size
        PROVE  Written(msg)[Place(write_pointer, size, k)] = msg[k]
    <2>1. CASE write_pointer + size <= queue_size
      <3>1. /\ Place(write_pointer, size, k) = write_pointer + k - 1
            /\ write_pointer + k - 1 \in 0 .. queue_size - 1
            /\ write_pointer + k - 1 \in write_pointer .. write_pointer + size - 1
            /\ write_pointer + k - 1 - write_pointer + 1 = k
        BY <1>1, <1>2, <2>1 DEF Place
      <3> QED
        BY <1>1, <2>1, <3>1 DEF Written, size
    <2>2. CASE ~(write_pointer + size <= queue_size) /\ k <= queue_size - write_pointer
      <3>1. /\ Place(write_pointer, size, k) = write_pointer + k - 1
            /\ write_pointer + k - 1 \in 0 .. queue_size - 1
            /\ write_pointer + k - 1 >= write_pointer
            /\ write_pointer + k - 1 - write_pointer + 1 = k
        BY <1>1, <1>2, <2>2 DEF Place
      <3> QED
        BY <1>1, <2>2, <3>1 DEF Written, size
    <2>3. CASE ~(write_pointer + size <= queue_size) /\ ~(k <= queue_size - write_pointer)
      <3> DEFINE tail == queue_size - write_pointer
                 x == k - 1 - tail
      <3>1. /\ Place(write_pointer, size, k) = x
            /\ x \in 0 .. queue_size - 1
            /\ ~(x >= write_pointer) /\ x < size - tail
            /\ tail + x + 1 = k
        BY <1>1, <1>2, <2>3 DEF Place
      <3> QED
        BY <1>1, <2>3, <3>1 DEF Written, size
    <2> QED
      BY <2>1, <2>2, <2>3
  <1> QED
    BY <1>3, <1>5, <1>6

\* A step that changes neither messages nor bytes is no step of the FIFO.
LEMMA FifoUnchanged ==
  ASSUME UNCHANGED <<queue, message_positions, free_size, received>>
  PROVE  UNCHANGED Fifo!vars
  BY DEF Fifo!vars, Bytes

\* An Add that finds space is the Put of the FIFO.
LEMMA WritePuts ==
  ASSUME IInv, NEW msg \in Messages, Fits(msg), Write(msg), UNCHANGED received
  PROVE  Fifo!Put(msg)
  <1>1. TypeOK /\ Ring
    BY DEF IInv
  <1>2. msg \in Seq(Nat) /\ Len(msg) \in Nat
    BY MessageType
  <1>3. PICK n \in Nat : n = Count
    BY <1>1, LenProperties DEF TypeOK, Count
  <1>4. /\ DOMAIN message_positions' = 1 .. n + 1
        /\ \A i \in 1 .. n : message_positions'[i] = message_positions[i]
        /\ message_positions'[n + 1] = <<write_pointer, Len(msg)>>
    <2>1. <<write_pointer, Len(msg)>> \in Positions
      BY <1>1, MessageType, QueueAssumption DEF TypeOK, Positions, Fits
    <2>2. message_positions' = Append(message_positions, <<write_pointer, Len(msg)>>)
      BY DEF Write
    <2> QED
      BY <1>1, <1>3, <2>1, <2>2, AppendProperties, LenProperties DEF TypeOK, Count
  <1>5. /\ \A i \in 1 .. n : Bytes(message_positions[i])' = fifo[i]
        /\ Bytes(message_positions[n + 1])' = msg
    <2>1. ASSUME NEW i \in 1 .. n
          PROVE  Bytes(message_positions[i])' = fifo[i]
      BY <1>1, <1>3, <1>4, FifoType, WriteKeepsBytes
    <2>2. Bytes(message_positions[n + 1])' = msg
      BY <1>1, <1>4, WrittenIsRead
    <2> QED
      BY <2>1, <2>2
  <1>6. /\ fifo \in Seq(Seq(Nat)) /\ Len(fifo) = n
    BY <1>1, <1>3, FifoType
  <1>7. /\ Append(fifo, msg) \in [1 .. n + 1 -> Seq(Nat)]
        /\ \A i \in 1 .. n : Append(fifo, msg)[i] = fifo[i]
        /\ Append(fifo, msg)[n + 1] = msg
    <2>1. /\ Append(fifo, msg) \in Seq(Seq(Nat)) /\ Len(Append(fifo, msg)) = n + 1
          /\ \A i \in 1 .. n : Append(fifo, msg)[i] = fifo[i]
          /\ Append(fifo, msg)[n + 1] = msg
      BY <1>2, <1>6, AppendProperties
    <2>2. Append(fifo, msg) \in [1 .. n + 1 -> Seq(Nat)]
      BY <2>1, LenProperties
    <2> QED
      BY <2>1, <2>2
  <1>8. fifo' = [i \in 1 .. n + 1 |-> Bytes(message_positions[i])']
    BY <1>4 DEF fifo
  <1>9. fifo' = Append(fifo, msg)
    <2>1. \A i \in 1 .. n + 1 : Bytes(message_positions[i])' = Append(fifo, msg)[i]
      BY <1>3, <1>5, <1>7
    <2> HIDE DEF fifo
    <2>2. Append(fifo, msg) = [i \in 1 .. n + 1 |-> Append(fifo, msg)[i]]
      BY <1>7
    <2> QED
      BY <1>8, <2>1, <2>2
  <1>10. /\ (queue_size - free_size) + Len(msg) <= queue_size
         /\ queue_size - free_size' = (queue_size - free_size) + Len(msg)
    BY <1>1, <1>2, QueueAssumption DEF TypeOK, Fits, Write
  <1> QED
    BY <1>9, <1>10 DEF Fifo!Put, fifo

\* A Remove that takes a message is the Get of the FIFO.
LEMMA PopGets ==
  ASSUME IInv, NEW c \in Consumers, message_positions # <<>>, Pop(c), UNCHANGED queue
  PROVE  Fifo!Get(c)
  <1>1. TypeOK /\ Ring
    BY DEF IInv
  <1>2. PICK n \in Nat \ {0} : n = Count
    BY <1>1, EmptySeq DEF TypeOK, Count
  <1>3. /\ DOMAIN message_positions' = 1 .. n - 1
        /\ \A i \in 1 .. n - 1 : message_positions'[i] = message_positions[i + 1]
        /\ Head(message_positions) = message_positions[1]
    <2>1. message_positions' = Tail(message_positions)
      BY DEF Pop
    <2> QED
      BY <1>1, <1>2, <2>1, HeadTailProperties, LenProperties DEF TypeOK, Count
  <1>4. /\ fifo \in Seq(Seq(Nat)) /\ Len(fifo) = n
        /\ \A i \in 1 .. n : fifo[i] = Bytes(message_positions[i])
    BY <1>1, <1>2, FifoType
  <1>5. fifo # <<>>
    BY <1>2, <1>4, EmptySeq
  <1>6. /\ Head(fifo) = Bytes(Head(message_positions))
        /\ Len(Head(fifo)) = Head(message_positions)[2]
    BY <1>1, <1>2, <1>3, <1>4, BytesType
  <1>7. /\ Tail(fifo) \in [1 .. n - 1 -> Seq(Nat)]
        /\ \A i \in 1 .. n - 1 : Tail(fifo)[i] = fifo[i + 1]
    BY <1>4, <1>5, HeadTailProperties, LenProperties
  <1>8. fifo' = [i \in 1 .. n - 1 |-> Bytes(message_positions[i])']
    BY <1>3 DEF fifo
  <1>9. fifo' = Tail(fifo)
    <2>1. ASSUME NEW i \in 1 .. n - 1
          PROVE  Bytes(message_positions[i])' = Tail(fifo)[i]
      <3>1. Bytes(message_positions[i])' = Bytes(message_positions[i + 1])
        BY <1>3 DEF Bytes
      <3> QED
        BY <1>2, <1>4, <1>7, <3>1
    <2> HIDE DEF fifo
    <2>2. Tail(fifo) = [i \in 1 .. n - 1 |-> Tail(fifo)[i]]
      BY <1>7
    <2> QED
      BY <1>8, <2>1, <2>2
  <1>10. queue_size - free_size' = (queue_size - free_size) - Len(Head(fifo))
    <2>1. Head(message_positions)[2] \in Nat
      BY <1>1, <1>2, <1>3, PositionType, QueueAssumption DEF Count
    <2>2. free_size' = free_size + Head(message_positions)[2]
      BY DEF Pop
    <2>3. queue_size \in Nat /\ free_size \in Nat
      BY <1>1, QueueAssumption DEF TypeOK
    <2>4. PICK k \in Nat : k = Head(message_positions)[2]
      BY <2>1
    <2>5. free_size' = free_size + k /\ Len(Head(fifo)) = k
      BY <1>6, <2>2, <2>4
    <2> QED
      BY <2>3, <2>5
  <1>11. \/ received' = [received EXCEPT ![c] = Head(fifo)]
         \/ Len(Head(fifo)) > MaxSize /\ UNCHANGED received
    BY <1>6 DEF Pop
  <1> QED
    BY <1>5, <1>9, <1>10, <1>11 DEF Fifo!Get, fifo

\* SignalingQueue implements the bounded FIFO of whole messages: what Remove
\* reads from the ring is what Add was given, in order, for a ring of any size
\* and messages of any length.
THEOREM RingImplementsFifo == Spec => FifoSpec
  <1>1. Init => Fifo!Init
    <2> SUFFICES ASSUME Init PROVE Fifo!Init
      OBVIOUS
    <2>1. message_positions = <<>> /\ queue_size - free_size = 0
      BY QueueAssumption DEF Init
    <2>2. fifo = <<>>
      BY <2>1 DEF fifo
    <2> QED
      BY <2>1, <2>2 DEF Init, Fifo!Init, fifo
  <1>2. IInv /\ [Next]_vars => [Fifo!Next]_Fifo!vars
    <2> SUFFICES ASSUME IInv, [Next]_vars PROVE Fifo!Next \/ UNCHANGED Fifo!vars
      OBVIOUS
    <2>1. ASSUME NEW p \in Producers, NEW msg \in Messages, FinishAdd(p, msg), UNCHANGED received
          PROVE  Fifo!Next \/ UNCHANGED Fifo!vars
      <3>1. CASE Fits(msg) /\ Write(msg)
        BY <2>1, <3>1, WritePuts DEF Fifo!Next
      <3>2. CASE UNCHANGED <<queue, free_size, message_positions>>
        BY <2>1, <3>2, FifoUnchanged
      <3> QED
        BY <2>1, <3>1, <3>2 DEF FinishAdd
    <2>2. ASSUME NEW p \in Producers, ResumeAdd(p)
          PROVE  Fifo!Next \/ UNCHANGED Fifo!vars
      <3>1. pending[p] \in Messages
        BY <2>2 DEF ResumeAdd, IInv, TypeOK
      <3> QED
        BY <2>1, <2>2, <3>1 DEF ResumeAdd
    <2>3. ASSUME NEW c \in Consumers, FinishRemove(c), UNCHANGED queue
          PROVE  Fifo!Next \/ UNCHANGED Fifo!vars
      <3>1. CASE message_positions # <<>> /\ Pop(c)
        BY <2>3, <3>1, PopGets DEF Fifo!Next
      <3>2. CASE UNCHANGED <<free_size, message_positions, received>>
        BY <2>3, <3>2, FifoUnchanged
      <3> QED
        BY <2>3, <3>1, <3>2 DEF FinishRemove
    <2>4. ASSUME NEW p \in Producers, Signal(p)
          PROVE  Fifo!Next \/ UNCHANGED Fifo!vars
      BY <2>4, FifoUnchanged DEF Signal
    <2>5. CASE UNCHANGED vars
      BY <2>5, FifoUnchanged DEF vars
    <2> QED
      BY <2>1, <2>2, <2>3, <2>4, <2>5 DEF Next, Add, Remove, ResumeRemove
  <1> QED
    BY <1>1, <1>2, Invariant, PTL DEF Spec, FifoSpec, Fifo!Spec
=============================================================================
