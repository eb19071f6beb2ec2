--------------------------- MODULE SocketIOProofs ---------------------------
(***************************************************************************)
(* Proofs about SocketIO, for any number of descriptors and any buffer     *)
(* size.  The inductive invariant says how the maps of tracker.cc, the     *)
(* descriptors of the kernel and the queued events belong together: the    *)
(* two buffers of a connection come and go together, and, as long as no    *)
(* descriptor was used again too early and no read was longer than the     *)
(* buffer, a receive buffer holds as many messages as there are receive    *)
(* events of its descriptor.                                               *)
(***************************************************************************)
EXTENDS SocketIO, TLAPS

\* HeartBeatThread in SendProtocol and the epoll thread in a callback are at a
\* descriptor; the iterator points to a buffer until the socket is closed.
AtDescriptor ==
  /\ sender.step # "idle" => sender.fd \in Fds
  /\ sender.step # "idle" /\ sender.valid => Open(sender.fd)
  /\ epoll.step # "idle" => epoll.fd \in Fds

\* A connection without a send buffer has no receive buffer.
BuffersTogether ==
  \A f \in Fds : ~Open(f) => receive_buffers[f] \in {None, Null}

\* While no descriptor was used again too early, a connection has its receive
\* buffer, and what is about to be closed is not in use; while no read was too
\* long either, each message in a receive buffer has its event.
OneEventEach ==
  ~reused =>
    /\ \A f \in Fds : Open(f) => receive_buffers[f] \in 0 .. BufferSize
    /\ ~oversized =>
         \A f \in Fds : Open(f) =>
           receive_buffers[f] = receive_events[f] + queue_receive[f]
    /\ epoll.step \in {"close", "remove"} => ~Open(epoll.fd)

IInv ==
  /\ TypeOK /\ AtDescriptor /\ BuffersTogether
  /\ OneEventEach
  /\ NoBlockedRemove /\ CrashOnlyByLeftovers /\ UnsentOnlyAfterShortSend
  /\ OpenDescriptor

-----------------------------------------------------------------------------
(* Counters per descriptor *)

\* An event more: the count of its own descriptor changes, no other.
LEMMA PlusEffect ==
  ASSUME NEW q \in Counts, NEW f \in Fds
  PROVE  /\ Plus(q, f) \in Counts
         /\ \A g \in Fds : Plus(q, f)[g] = IF g = f THEN q[g] + 1 ELSE q[g]
  BY DEF Plus, Counts

\* An event less.
LEMMA MinusEffect ==
  ASSUME NEW q \in Counts, NEW f \in Fds, q[f] > 0
  PROVE  /\ Minus(q, f) \in Counts
         /\ \A g \in Fds : Minus(q, f)[g] = IF g = f THEN q[g] - 1 ELSE q[g]
  BY DEF Minus, Counts

\* GetSocketEvent adds up two queues of events.
LEMMA SumEffect ==
  ASSUME NEW q \in Counts, NEW r \in Counts
  PROVE  Sum(q, r) \in Counts /\ \A f \in Fds : Sum(q, r)[f] = q[f] + r[f]
  BY DEF Sum, Counts

\* An empty queue has no events.
LEMMA NothingEffect == Nothing \in Counts /\ \A f \in Fds : Nothing[f] = 0
  BY DEF Nothing, Counts

\* A message is added to a send buffer that has room.
LEMMA SendPlus ==
  ASSUME NEW q \in SendBuffers, NEW f \in Fds, q[f] # None, HasRoom(q[f])
  PROVE  /\ Plus(q, f) \in SendBuffers /\ q[f] \in 0 .. BufferSize
         /\ \A g \in Fds : Plus(q, f)[g] = IF g = f THEN q[g] + 1 ELSE q[g]
  <1>1. q[f] \in 0 .. BufferSize
    BY DEF SendBuffers
  <1>2. q[f] + 1 \in 0 .. BufferSize
    BY <1>1, SocketAssumption DEF HasRoom
  <1> QED
    BY <1>1, <1>2 DEF Plus, SendBuffers

\* A message is taken out of a send buffer that has one.
LEMMA SendMinus ==
  ASSUME NEW q \in SendBuffers, NEW f \in Fds, q[f] # None, q[f] > 0
  PROVE  /\ Minus(q, f) \in SendBuffers /\ q[f] \in 0 .. BufferSize
         /\ \A g \in Fds : Minus(q, f)[g] = IF g = f THEN q[g] - 1 ELSE q[g]
  <1>1. q[f] \in 0 .. BufferSize
    BY DEF SendBuffers
  <1>2. q[f] - 1 \in 0 .. BufferSize
    BY <1>1, SocketAssumption
  <1> QED
    BY <1>1, <1>2 DEF Minus, SendBuffers

\* A message is added to a receive buffer that is there and not full.
LEMMA ReceivePlus ==
  ASSUME NEW q \in ReceiveBuffers, NEW f \in Fds, q[f] \notin {None, Null, BufferSize}
  PROVE  /\ Plus(q, f) \in ReceiveBuffers /\ q[f] \in 0 .. BufferSize
         /\ \A g \in Fds : Plus(q, f)[g] = IF g = f THEN q[g] + 1 ELSE q[g]
  <1>1. q[f] \in 0 .. BufferSize
    BY DEF ReceiveBuffers
  <1>2. q[f] + 1 \in 0 .. BufferSize
    BY <1>1, SocketAssumption
  <1> QED
    BY <1>1, <1>2 DEF Plus, ReceiveBuffers

\* A message is taken out of a receive buffer that has one.
LEMMA ReceiveMinus ==
  ASSUME NEW q \in ReceiveBuffers, NEW f \in Fds, q[f] \in 0 .. BufferSize, q[f] # 0
  PROVE  /\ Minus(q, f) \in ReceiveBuffers /\ q[f] - 1 \in 0 .. BufferSize
         /\ \A g \in Fds : Minus(q, f)[g] = IF g = f THEN q[g] - 1 ELSE q[g]
  <1>1. q[f] - 1 \in 0 .. BufferSize
    BY SocketAssumption
  <1> QED
    BY <1>1 DEF Minus, ReceiveBuffers

-----------------------------------------------------------------------------
(* Type correctness *)

\* The steps of the three threads are steps.
LEMMA StepTypes ==
  /\ \A step \in {"wait", "receive", "remove", "send"} : At(step) \in PcStates
  /\ [step : {"answer"}, fd : Fds] \subseteq PcStates
  /\ Idle \in SenderStates /\ Idle \in EpollStates
  /\ \A f \in Fds : [step |-> "add", fd |-> f, valid |-> TRUE] \in SenderStates
  /\ \A f \in Fds : [step |-> "add", fd |-> f, valid |-> TRUE] \in EpollStates
  /\ \A f \in Fds : /\ [step |-> "close", fd |-> f, valid |-> TRUE] \in EpollStates
                     /\ [step |-> "remove", fd |-> f, valid |-> TRUE] \in EpollStates
  /\ \A s \in SenderStates : /\ [s EXCEPT !.valid = FALSE] \in SenderStates
                             /\ [s EXCEPT !.step = "push"] \in SenderStates
  BY DEF At, Idle, PcStates, SenderStates, EpollStates

\* What SendMessage does to the buffers, the connectors and the counters.
LEMMA SendMessageType ==
  ASSUME TypeOK, NEW f \in Fds, SendMessage(f)
  PROVE  /\ send_buffers' \in SendBuffers
         /\ connector' \in [Fds -> ConnectorStates]
         /\ shorts' \in Counts
         /\ failures' \in 0 .. MaxShort
  <1>1. send_buffers' \in SendBuffers
    BY SendMinus DEF SendMessage, Taken, HasMessage, Open, TypeOK
  <1>2. connector' \in [Fds -> ConnectorStates]
    BY DEF SendMessage, TypeOK, ConnectorStates
  <1>3. /\ shorts' \in {shorts, Plus(shorts, f)}
        /\ \/ failures' = failures
           \/ failures < MaxShort /\ failures' = failures + 1
    BY DEF SendMessage, SendFails
  <1>4. MaxShort \in Nat /\ failures \in 0 .. MaxShort
    BY SocketAssumption DEF TypeOK
  <1>5. shorts' \in Counts
    BY <1>3, PlusEffect DEF TypeOK
  <1>6. failures' \in 0 .. MaxShort
    BY <1>3, <1>4
  <1> QED
    BY <1>1, <1>2, <1>5, <1>6

\* SocketThread keeps every variable in its range.
LEMMA SocketThreadType ==
  ASSUME TypeOK, SocketThread
  PROVE  TypeOK'
  <1> USE DEF buffers, events, local, history, bounds
  <1>1. CASE GetSocketEvent
    BY <1>1, SumEffect, NothingEffect, StepTypes DEF GetSocketEvent, TypeOK
  <1>2. CASE ReceiveDone \/ SendDone
    BY <1>2, StepTypes DEF ReceiveDone, SendDone, TypeOK
  <1>3. ASSUME NEW f \in Fds, ReceiveFromClosed(f) PROVE TypeOK'
    <2>1. receive_buffers' \in ReceiveBuffers
      BY <1>3 DEF ReceiveFromClosed, TypeOK, ReceiveBuffers
    <2> QED
      BY <1>3, <2>1, MinusEffect DEF ReceiveFromClosed, TypeOK
  <1>4. ASSUME NEW f \in Fds, ReceiveMessage(f) PROVE TypeOK'
    <2>1. queue_receive' \in Counts
      BY <1>4, MinusEffect DEF ReceiveMessage, TypeOK
    <2>2. receive_buffers' \in ReceiveBuffers
      BY <1>4, ReceiveMinus DEF ReceiveMessage, TypeOK
    <2>3. pc' \in PcStates
      BY <1>4, StepTypes DEF ReceiveMessage
    <2> QED
      BY <1>4, <2>1, <2>2, <2>3 DEF ReceiveMessage, TypeOK
  <1>5. ASSUME NEW f \in Fds, Answer(f) PROVE TypeOK'
    <2>1. send_buffers' \in SendBuffers
      BY <1>5, SendPlus DEF Answer, Open, TypeOK
    <2>2. send_events' \in Counts
      BY <1>5, PlusEffect DEF Answer, TypeOK
    <2>3. full' \in BOOLEAN
      BY <1>5 DEF Answer, TypeOK
    <2>5. failures' \in 0 .. MaxShort
      BY <1>5, SocketAssumption DEF Answer, TypeOK
    <2>4. pc' \in PcStates
      BY <1>5, StepTypes DEF Answer, TypeOK
    <2> QED
      BY <1>5, <2>1, <2>2, <2>3, <2>4, <2>5 DEF Answer, TypeOK
  <1>6. ASSUME NEW f \in Fds, SendEvent(f) PROVE TypeOK'
    <2>1. queue_send' \in Counts
      BY <1>6, MinusEffect DEF SendEvent, TypeOK
    <2>2. /\ send_buffers' \in SendBuffers
          /\ connector' \in [Fds -> ConnectorStates]
          /\ shorts' \in Counts
          /\ failures' \in 0 .. MaxShort
      BY <1>6, SendMessageType DEF SendEvent, TypeOK
    <2> QED
      BY <1>6, <2>1, <2>2 DEF SendEvent, TypeOK
  <1> QED
    BY <1>1, <1>2, <1>3, <1>4, <1>5, <1>6 DEF SocketThread

\* HeartBeatThread keeps every variable in its range.
LEMMA HeartBeatThreadType ==
  ASSUME TypeOK, AtDescriptor, HeartBeatThread
  PROVE  TypeOK'
  <1> USE DEF buffers, events, local, history, bounds
  <1>1. ASSUME NEW f \in Fds, FindBuffer(f) PROVE TypeOK'
    <2>1. sends' \in 0 .. MaxSends
      BY <1>1, SocketAssumption DEF FindBuffer, TypeOK
    <2> QED
      BY <1>1, <2>1, StepTypes DEF FindBuffer, TypeOK
  <1>2. CASE AddToBuffer
    <2>1. send_buffers' \in SendBuffers
      BY <1>2, SendPlus DEF AddToBuffer, AtDescriptor, Open, TypeOK
    <2>2. crashed' \in BOOLEAN
      BY <1>2 DEF AddToBuffer, TypeOK
    <2>3. sender' \in SenderStates
      BY <1>2, StepTypes DEF AddToBuffer, TypeOK
    <2>4. failures' \in 0 .. MaxShort
      BY <1>2, SocketAssumption DEF AddToBuffer, TypeOK
    <2> QED
      BY <1>2, <2>1, <2>2, <2>3, <2>4 DEF AddToBuffer, TypeOK
  <1>3. CASE PushEvent
    <2>1. send_events' \in Counts
      BY <1>3, PlusEffect DEF PushEvent, TypeOK, AtDescriptor
    <2>2. crashed' \in BOOLEAN
      BY <1>3 DEF PushEvent, TypeOK
    <2>3. sender' \in SenderStates
      BY <1>3, StepTypes DEF PushEvent, TypeOK
    <2> QED
      BY <1>3, <2>1, <2>2, <2>3 DEF PushEvent, TypeOK
  <1> QED
    BY <1>1, <1>2, <1>3 DEF HeartBeatThread

\* The steps of the epoll thread that call SocketClose.
Closing(f) == SocketClose(f) \/ ReadError(f)

\* The four cases of EpollReadCallback: a NULL buffer, a full one, one that takes
\* the message, and a read that is too long.
LEMMA ReadCases ==
  ASSUME TypeOK, NEW f \in Fds, EpollReadCallback(f)
  PROVE  \/ /\ receive_buffers[f] = Null
            /\ crashed' = TRUE
            /\ UNCHANGED <<receive_buffers, receive_events, mutex, epoll, full, oversized>>
         \/ /\ receive_buffers[f] = BufferSize
            /\ full' = TRUE /\ mutex' = "epoll"
            /\ epoll' = [step |-> "add", fd |-> f, valid |-> TRUE]
            /\ UNCHANGED <<receive_buffers, receive_events, crashed, oversized>>
         \/ /\ receive_buffers[f] \notin {None, Null, BufferSize}
            /\ receive_buffers' = Plus(receive_buffers, f)
            /\ receive_events' = Plus(receive_events, f)
            /\ UNCHANGED <<mutex, epoll, full, crashed, oversized>>
         \/ /\ oversized' = TRUE
            /\ receive_events' = Plus(receive_events, f)
            /\ UNCHANGED <<receive_buffers, mutex, epoll, full, crashed>>
  <1>1. \A n \in 0 .. BufferSize - 1 : n \notin {None, Null, BufferSize}
    <2>1. \A n \in 0 .. BufferSize - 1 : n \in 0 .. BufferSize /\ n # BufferSize
      BY SocketAssumption
    <2> QED
      BY <2>1, SocketAssumption
  <1> QED
    BY <1>1 DEF EpollReadCallback

\* The epoll thread, and whoever opens a connection, keep every variable in its range.
LEMMA EpollThreadType ==
  ASSUME TypeOK, EpollThread \/ \E f \in Fds : AddSocketResource(f)
  PROVE  TypeOK'
  <1> USE DEF buffers, events, local, history, bounds
  <1>1. ASSUME NEW f \in Fds, EpollReadCallback(f) PROVE TypeOK'
    <2>1. reads' \in 0 .. MaxReads
      BY <1>1, SocketAssumption DEF EpollReadCallback, TypeOK
    <2>2. receive_buffers' \in ReceiveBuffers /\ receive_events' \in Counts
      <3>1. /\ \/ UNCHANGED receive_buffers
               \/ /\ receive_buffers[f] \notin {None, Null, BufferSize}
                  /\ receive_buffers' = Plus(receive_buffers, f)
            /\ receive_events' \in {receive_events, Plus(receive_events, f)}
        BY <1>1, ReadCases
      <3> QED
        BY <3>1, ReceivePlus, PlusEffect DEF TypeOK
    <2>3. epoll' \in EpollStates /\ mutex' \in {None, "socket", "epoll"}
      BY <1>1, ReadCases, StepTypes DEF TypeOK
    <2>4. full' \in BOOLEAN /\ crashed' \in BOOLEAN /\ oversized' \in BOOLEAN
      BY <1>1, ReadCases DEF TypeOK
    <2> QED
      BY <1>1, <2>1, <2>2, <2>3, <2>4 DEF EpollReadCallback, TypeOK
  <1>2. ASSUME NEW f \in Fds, Closing(f) PROVE TypeOK'
    <2>1. /\ send_buffers' \in SendBuffers /\ receive_buffers' \in ReceiveBuffers
          /\ connector' \in [Fds -> ConnectorStates]
      BY <1>2 DEF Closing, SocketClose, ReadError, RemoveSocketResource, TypeOK, SendBuffers,
                  ReceiveBuffers, ConnectorStates
    <2>2. sender' \in SenderStates /\ epoll' \in EpollStates
      BY <1>2, StepTypes DEF Closing, SocketClose, ReadError, RemoveSocketResource, TypeOK
    <2>3. kernel' \subseteq Fds /\ misread' \in BOOLEAN
      BY <1>2 DEF Closing, SocketClose, ReadError, DeleteMasterSocket, TypeOK
    <2> QED
      BY <1>2, <2>1, <2>2, <2>3 DEF Closing, SocketClose, ReadError, TypeOK
  <1>3. CASE RemoveFromPollEvent
    BY <1>3, StepTypes DEF RemoveFromPollEvent, TypeOK
  <1>4. ASSUME NEW f \in Fds, AddSocketResource(f) PROVE TypeOK'
    <2>1. opens' \in 0 .. MaxOpens /\ shorts' \in Counts
      BY <1>4, SocketAssumption DEF AddSocketResource, TypeOK, Counts
    <2>2. 0 \in 0 .. BufferSize
      BY SocketAssumption
    <2>3. /\ send_buffers' \in SendBuffers /\ receive_buffers' \in ReceiveBuffers
          /\ connector' \in [Fds -> ConnectorStates]
      BY <1>4, <2>2 DEF AddSocketResource, TypeOK, SendBuffers, ReceiveBuffers, ConnectorStates
    <2>4. reused' \in BOOLEAN
      BY <1>4 DEF AddSocketResource, Leftovers, TypeOK
    <2> QED
      BY <1>4, <2>1, <2>3, <2>4 DEF AddSocketResource, TypeOK
  <1> QED
    BY <1>1, <1>2, <1>3, <1>4 DEF EpollThread, Closing

\* Every step keeps every variable in its range.
LEMMA TypeStep ==
  ASSUME TypeOK, AtDescriptor, Next
  PROVE  TypeOK'
  BY SocketThreadType, HeartBeatThreadType, EpollThreadType DEF Next

-----------------------------------------------------------------------------
(* Connections *)

\* The steps that neither open nor close a connection.
Inside == SocketThread \/ HeartBeatThread \/ RemoveFromPollEvent
          \/ \E f \in Fds : EpollReadCallback(f)

\* They are what Next has besides the closing steps and AddSocketResource.
LEMMA NextCases ==
  ASSUME Next
  PROVE  Inside \/ \E f \in Fds : Closing(f) \/ AddSocketResource(f)
  BY DEF Next, Inside, EpollThread, Closing

\* What the closing steps do to the connections and leave alone.
LEMMA ClosingEffect ==
  ASSUME NEW f \in Fds, Closing(f)
  PROVE  /\ RemoveSocketResource(f) /\ DeleteMasterSocket(f)
         /\ epoll' \in {Idle, [step |-> "close", fd |-> f, valid |-> TRUE],
                             [step |-> "remove", fd |-> f, valid |-> TRUE]}
         /\ UNCHANGED <<send_events, receive_events, queue_send, queue_receive>>
         /\ UNCHANGED <<mutex, pc, shorts, reused, oversized, full, crashed>>
         /\ ~crashed
  BY DEF Closing, SocketClose, ReadError, events, local

\* They keep every send buffer there or missing.
LEMMA InsideKeepsOpen ==
  ASSUME TypeOK, AtDescriptor, Inside
  PROVE  \A f \in Fds : Open(f)' <=> Open(f)
  <1> USE DEF buffers, events, local, history, bounds
  <1>1. \A n \in 0 .. BufferSize : n # None
    BY SocketAssumption
  <1>2. ASSUME NEW f \in Fds, Answer(f) \/ AddToBuffer
        PROVE  \A g \in Fds : Open(g)' <=> Open(g)
    <2>1. \/ send_buffers' = send_buffers
          \/ \E g \in Fds : /\ send_buffers[g] # None /\ HasRoom(send_buffers[g])
                            /\ send_buffers' = Plus(send_buffers, g)
      BY <1>2 DEF Answer, AddToBuffer, AtDescriptor, Open
    <2>2. ASSUME NEW g \in Fds, send_buffers[g] # None, HasRoom(send_buffers[g]),
                 send_buffers' = Plus(send_buffers, g)
          PROVE  /\ send_buffers'[g] # None
                 /\ \A k \in Fds \ {g} : send_buffers'[k] = send_buffers[k]
      <3>1. send_buffers[g] \in 0 .. BufferSize /\ send_buffers'[g] = send_buffers[g] + 1
            /\ \A k \in Fds \ {g} : send_buffers'[k] = send_buffers[k]
        BY <2>2, SendPlus DEF TypeOK
      <3>2. send_buffers[g] + 1 \in 0 .. BufferSize
        BY <2>2, <3>1, SocketAssumption DEF HasRoom
      <3> QED
        BY <1>1, <3>1, <3>2
    <2> QED
      BY <2>1, <2>2 DEF Open
  <1>3. ASSUME NEW f \in Fds, SendEvent(f)
        PROVE  \A g \in Fds : Open(g)' <=> Open(g)
    <2>1. \/ send_buffers' = send_buffers
          \/ /\ send_buffers[f] # None /\ send_buffers[f] > 0
             /\ send_buffers' = Minus(send_buffers, f)
      BY <1>3 DEF SendEvent, SendMessage, HasMessage, Taken, Open
    <2>2. ASSUME send_buffers[f] # None, send_buffers[f] > 0,
                 send_buffers' = Minus(send_buffers, f)
          PROVE  /\ send_buffers'[f] # None
                 /\ \A k \in Fds \ {f} : send_buffers'[k] = send_buffers[k]
      <3>1. send_buffers[f] \in 0 .. BufferSize /\ send_buffers'[f] = send_buffers[f] - 1
            /\ \A k \in Fds \ {f} : send_buffers'[k] = send_buffers[k]
        BY <2>2, SendMinus DEF TypeOK
      <3>2. send_buffers[f] - 1 \in 0 .. BufferSize
        BY <2>2, <3>1, SocketAssumption
      <3> QED
        BY <1>1, <3>1, <3>2
    <2> QED
      BY <2>1, <2>2 DEF Open
  <1>4. ASSUME NEW f \in Fds, \/ ReceiveFromClosed(f) \/ ReceiveMessage(f) \/ FindBuffer(f)
                              \/ EpollReadCallback(f)
        PROVE  send_buffers' = send_buffers
    BY <1>4 DEF ReceiveFromClosed, ReceiveMessage, FindBuffer, EpollReadCallback
  <1>5. ASSUME GetSocketEvent \/ ReceiveDone \/ SendDone \/ PushEvent \/ RemoveFromPollEvent
        PROVE  send_buffers' = send_buffers
    BY <1>5 DEF GetSocketEvent, ReceiveDone, SendDone, PushEvent, RemoveFromPollEvent
  <1>6. CASE AddToBuffer
    BY <1>2, <1>6
  <1> QED
    BY <1>2, <1>3, <1>4, <1>5, <1>6 DEF Inside, SocketThread, HeartBeatThread, Open

\* A closing step and AddSocketResource change one connection.
LEMMA OpenChanges ==
  ASSUME TypeOK, NEW f \in Fds
  PROVE  /\ Closing(f) => ~Open(f)' /\ \A g \in Fds \ {f} : Open(g)' <=> Open(g)
         /\ AddSocketResource(f) => Open(f)' /\ \A g \in Fds \ {f} : Open(g)' <=> Open(g)
  <1>1. None # 0
    BY SocketAssumption
  <1> QED
    BY <1>1, ClosingEffect DEF RemoveSocketResource, AddSocketResource, Open, TypeOK,
       SendBuffers

\* Iterators and callbacks stay at their descriptors; SocketClose takes the buffer
\* from under an iterator and says so.
LEMMA AtDescriptorStep ==
  ASSUME TypeOK, AtDescriptor, Next
  PROVE  AtDescriptor'
  <1> USE DEF buffers, events, local, history, bounds
  <1>1. ASSUME NEW f \in Fds, FindBuffer(f) PROVE AtDescriptor'
    BY <1>1 DEF FindBuffer, AtDescriptor, Open
  <1>2. CASE AddToBuffer
    <2>1. sender'.fd = sender.fd /\ sender'.valid = sender.valid /\ epoll' = epoll
      BY <1>2 DEF AddToBuffer, TypeOK, SenderStates
    <2>2. sender.fd \in Fds /\ (sender.valid => Open(sender.fd)')
      BY <1>2, InsideKeepsOpen DEF AddToBuffer, AtDescriptor, Inside, HeartBeatThread
    <2> QED
      BY <2>1, <2>2 DEF AtDescriptor, Open
  <1>3. CASE PushEvent
    BY <1>3 DEF PushEvent, AtDescriptor, Idle, Open
  <1>4. CASE SocketThread
    <2>1. UNCHANGED <<sender, epoll>>
      BY <1>4 DEF SocketThread, GetSocketEvent, ReceiveDone, SendDone, ReceiveFromClosed,
                  ReceiveMessage, Answer, SendEvent
    <2> QED
      BY <1>4, <2>1, InsideKeepsOpen DEF AtDescriptor, Open, Inside
  <1>5. ASSUME NEW f \in Fds, EpollReadCallback(f) PROVE AtDescriptor'
    <2>1. epoll' = epoll \/ epoll' = [step |-> "add", fd |-> f, valid |-> TRUE]
      BY <1>5, ReadCases
    <2> QED
      BY <1>5, <2>1 DEF EpollReadCallback, AtDescriptor, Open
  <1>6. CASE RemoveFromPollEvent
    BY <1>6 DEF RemoveFromPollEvent, AtDescriptor, Idle, Open
  <1>7. ASSUME NEW f \in Fds, Closing(f) PROVE AtDescriptor'
    <2>1. epoll'.step # "idle" => epoll'.fd = f
      BY <1>7, ClosingEffect DEF Idle
    <2>2. sender'.fd = sender.fd /\ sender'.step = sender.step
          /\ (sender'.valid => sender.valid /\ sender.fd # f)
      BY <1>7, ClosingEffect DEF RemoveSocketResource, TypeOK, SenderStates
    <2> QED
      BY <1>7, <2>1, <2>2, OpenChanges DEF AtDescriptor, Open
  <1>8. ASSUME NEW f \in Fds, AddSocketResource(f) PROVE AtDescriptor'
    <2>1. UNCHANGED <<sender, epoll>>
      BY <1>8 DEF AddSocketResource
    <2> QED
      BY <1>8, <2>1, OpenChanges DEF AtDescriptor, Open
  <1> QED
    BY <1>1, <1>2, <1>3, <1>4, <1>5, <1>6, <1>7, <1>8
       DEF Next, HeartBeatThread, EpollThread, Closing

\* The two buffers of a connection are made and deleted together.
LEMMA BuffersTogetherStep ==
  ASSUME TypeOK, AtDescriptor, BuffersTogether, Next
  PROVE  BuffersTogether'
  <1> USE DEF buffers, events, local, history, bounds
  <1>1. CASE Inside
    <2>1. \A f \in Fds : \/ receive_buffers'[f] = receive_buffers[f]
                         \/ receive_buffers'[f] = Null
                         \/ receive_buffers[f] \notin {None, Null}
      <3>1. ASSUME NEW f \in Fds, ReceiveFromClosed(f)
            PROVE  receive_buffers' = [receive_buffers EXCEPT ![f] = Null]
        BY <3>1 DEF ReceiveFromClosed
      <3>2. ASSUME NEW f \in Fds, ReceiveMessage(f)
            PROVE  /\ receive_buffers[f] \notin {None, Null}
                   /\ \A g \in Fds \ {f} : receive_buffers'[g] = receive_buffers[g]
        <4>1. receive_buffers[f] \notin {None, Null}
          BY <3>2, SocketAssumption DEF ReceiveMessage
        <4> QED
          BY <3>2, <4>1, ReceiveMinus DEF ReceiveMessage, TypeOK
      <3>3. ASSUME NEW f \in Fds, EpollReadCallback(f)
            PROVE  \/ receive_buffers' = receive_buffers
                   \/ /\ receive_buffers[f] \notin {None, Null}
                      /\ \A g \in Fds \ {f} : receive_buffers'[g] = receive_buffers[g]
        <4>1. \/ receive_buffers' = receive_buffers
              \/ /\ receive_buffers[f] \notin {None, Null, BufferSize}
                 /\ receive_buffers' = Plus(receive_buffers, f)
          BY <3>3, ReadCases
        <4> QED
          BY <4>1, ReceivePlus DEF TypeOK
      <3>4. ASSUME \/ GetSocketEvent \/ ReceiveDone \/ SendDone \/ HeartBeatThread
                   \/ RemoveFromPollEvent \/ \E f \in Fds : Answer(f) \/ SendEvent(f)
            PROVE  receive_buffers' = receive_buffers
        BY <3>4 DEF GetSocketEvent, ReceiveDone, SendDone, HeartBeatThread, FindBuffer,
                    AddToBuffer, PushEvent, RemoveFromPollEvent, Answer, SendEvent
      <3> QED
        BY <1>1, <3>1, <3>2, <3>3, <3>4 DEF Inside, SocketThread, TypeOK, ReceiveBuffers
    <2> QED
      BY <1>1, <2>1, InsideKeepsOpen DEF BuffersTogether, Open
  <1>2. ASSUME NEW f \in Fds, Closing(f) PROVE BuffersTogether'
    <2>1. receive_buffers'[f] = None
          /\ \A g \in Fds \ {f} : receive_buffers'[g] = receive_buffers[g]
      BY <1>2, ClosingEffect DEF RemoveSocketResource, TypeOK, ReceiveBuffers
    <2> QED
      BY <1>2, <2>1, OpenChanges DEF BuffersTogether, Open
  <1>3. ASSUME NEW f \in Fds, AddSocketResource(f) PROVE BuffersTogether'
    <2>1. \A g \in Fds \ {f} : receive_buffers'[g] = receive_buffers[g]
      BY <1>3 DEF AddSocketResource, TypeOK, ReceiveBuffers
    <2> QED
      BY <1>3, <2>1, OpenChanges DEF BuffersTogether, Open
  <1> QED
    BY <1>1, <1>2, <1>3, NextCases

-----------------------------------------------------------------------------
(* Messages and their receive events *)

\* A step inside a connection leaves the flag for early reuse alone, keeps the one
\* for long reads, and begins no closing.
LEMMA InsideKeepsFlags ==
  ASSUME Inside
  PROVE  /\ reused' = reused /\ misread' = misread
         /\ oversized => oversized'
         /\ epoll'.step \in {"close", "remove"} => epoll' = epoll
  <1> USE DEF buffers, events, local, history, bounds
  <1>1. CASE SocketThread \/ HeartBeatThread
    BY <1>1 DEF SocketThread, GetSocketEvent, ReceiveDone, SendDone, ReceiveFromClosed,
                ReceiveMessage, Answer, SendEvent, HeartBeatThread, FindBuffer, AddToBuffer,
                PushEvent
  <1>2. CASE RemoveFromPollEvent
    BY <1>2 DEF RemoveFromPollEvent, Idle
  <1>3. ASSUME NEW f \in Fds, EpollReadCallback(f)
        PROVE  /\ reused' = reused /\ misread' = misread
               /\ oversized => oversized'
               /\ epoll'.step \in {"close", "remove"} => epoll' = epoll
    BY <1>3 DEF EpollReadCallback
  <1> QED
    BY <1>1, <1>2, <1>3 DEF Inside

\* A step inside a connection keeps its receive buffer.
LEMMA ReceiveBufferKept ==
  ASSUME TypeOK, OneEventEach, ~reused, Inside
  PROVE  \A f \in Fds : Open(f) => receive_buffers'[f] \in 0 .. BufferSize
  <1> USE DEF buffers, events, local, history, bounds
  <1>0. \A f \in Fds : Open(f) => receive_buffers[f] \in 0 .. BufferSize
    BY DEF OneEventEach
  <1>1. ASSUME NEW f \in Fds, ReceiveFromClosed(f)
        PROVE  \A g \in Fds : Open(g) => receive_buffers'[g] = receive_buffers[g]
    <2>1. ~Open(f)
      BY <1>0, <1>1, SocketAssumption DEF ReceiveFromClosed
    <2> QED
      BY <1>1, <2>1 DEF ReceiveFromClosed, TypeOK, ReceiveBuffers
  <1>2. ASSUME NEW f \in Fds, ReceiveMessage(f), NEW g \in Fds, Open(g)
        PROVE  receive_buffers'[g] \in 0 .. BufferSize
    <2>1. CASE receive_buffers[f] = 0
      BY <1>0, <1>2, <2>1 DEF ReceiveMessage
    <2>2. CASE receive_buffers[f] # 0
      <3>1. /\ receive_buffers[f] - 1 \in 0 .. BufferSize
            /\ receive_buffers'[g] = IF g = f THEN receive_buffers[g] - 1 ELSE receive_buffers[g]
        BY <1>2, <2>2, ReceiveMinus DEF ReceiveMessage, TypeOK
      <3> QED
        BY <1>0, <1>2, <3>1
    <2> QED
      BY <2>1, <2>2
  <1>3. ASSUME NEW f \in Fds, EpollReadCallback(f), NEW g \in Fds, Open(g)
        PROVE  receive_buffers'[g] \in 0 .. BufferSize
    <2>1. CASE receive_buffers' = receive_buffers
      BY <1>0, <1>3, <2>1
    <2>2. CASE /\ receive_buffers[f] \notin {None, Null, BufferSize}
               /\ receive_buffers' = Plus(receive_buffers, f)
      <3>1. /\ receive_buffers[f] \in 0 .. BufferSize /\ receive_buffers[f] # BufferSize
            /\ receive_buffers'[g] = IF g = f THEN receive_buffers[g] + 1 ELSE receive_buffers[g]
        BY <1>3, <2>2, ReceivePlus DEF TypeOK
      <3> QED
        BY <1>0, <1>3, <3>1, SocketAssumption
    <2> QED
      BY <1>3, <2>1, <2>2, ReadCases
  <1>4. ASSUME \/ GetSocketEvent \/ ReceiveDone \/ SendDone \/ HeartBeatThread
               \/ RemoveFromPollEvent \/ \E f \in Fds : Answer(f) \/ SendEvent(f)
        PROVE  receive_buffers' = receive_buffers
    BY <1>4 DEF GetSocketEvent, ReceiveDone, SendDone, HeartBeatThread, FindBuffer, AddToBuffer,
                PushEvent, RemoveFromPollEvent, Answer, SendEvent
  <1>5. CASE \E f \in Fds : ReceiveFromClosed(f)
    BY <1>0, <1>1, <1>5
  <1>6. CASE \E f \in Fds : ReceiveMessage(f)
    BY <1>2, <1>6
  <1>7. CASE \E f \in Fds : EpollReadCallback(f)
    BY <1>3, <1>7
  <1>8. CASE \/ GetSocketEvent \/ ReceiveDone \/ SendDone \/ HeartBeatThread
             \/ RemoveFromPollEvent \/ \E f \in Fds : Answer(f) \/ SendEvent(f)
    BY <1>0, <1>4, <1>8
  <1> QED
    BY <1>5, <1>6, <1>7, <1>8 DEF Inside, SocketThread

\* What a step inside a connection does to the receive buffers and their events,
\* as long as every message has its event.
LEMMA ReceiveEffect ==
  ASSUME TypeOK, AtDescriptor, BuffersTogether, OneEventEach, ~reused, ~oversized', Inside
  PROVE  \A f \in Fds : Open(f) =>
           /\ receive_buffers'[f] \in 0 .. BufferSize
           /\ receive_buffers'[f] = receive_events'[f] + queue_receive'[f]
  <1> USE DEF buffers, events, local, history, bounds
  <1>a. ~oversized
    BY InsideKeepsFlags
  <1>0. /\ \A f \in Fds : Open(f) => /\ receive_buffers[f] \in 0 .. BufferSize
                                     /\ receive_buffers[f] = receive_events[f] + queue_receive[f]
        /\ \A f \in Fds : receive_events[f] \in Nat /\ queue_receive[f] \in Nat
    BY <1>a DEF OneEventEach, TypeOK, Counts
  <1>1. CASE GetSocketEvent
    <2>1. \A f \in Fds : /\ receive_events'[f] = 0
                         /\ queue_receive'[f] = queue_receive[f] + receive_events[f]
      BY <1>1, SumEffect, NothingEffect DEF GetSocketEvent, TypeOK
    <2>2. receive_buffers' = receive_buffers
      BY <1>1 DEF GetSocketEvent
    <2> QED
      BY <1>0, <2>1, <2>2
  <1>2. ASSUME NEW f \in Fds, ReceiveFromClosed(f)
        PROVE  \A g \in Fds : Open(g) =>
                 /\ receive_buffers'[g] = receive_buffers[g]
                 /\ receive_events'[g] + queue_receive'[g] = receive_events[g] + queue_receive[g]
    <2>1. ~Open(f)
      BY <1>0, <1>2, SocketAssumption DEF ReceiveFromClosed
    <2>2. receive_events' = receive_events
          /\ \A g \in Fds \ {f} : /\ receive_buffers'[g] = receive_buffers[g]
                                  /\ queue_receive'[g] = queue_receive[g]
      BY <1>2, MinusEffect DEF ReceiveFromClosed, TypeOK, ReceiveBuffers
    <2> QED
      BY <2>1, <2>2
  <1>3. ASSUME NEW f \in Fds, ReceiveMessage(f), NEW g \in Fds, Open(g)
        PROVE  /\ receive_buffers'[g] \in 0 .. BufferSize
               /\ receive_buffers'[g] = receive_events'[g] + queue_receive'[g]
    <2>1. /\ receive_events' = receive_events /\ queue_receive[f] > 0
          /\ queue_receive'[g] = IF g = f THEN queue_receive[g] - 1 ELSE queue_receive[g]
      BY <1>3, MinusEffect DEF ReceiveMessage, TypeOK
    <2>2. Open(f)
      BY <1>3, SocketAssumption DEF ReceiveMessage, BuffersTogether
    <2>3. receive_buffers[f] # 0 /\ receive_buffers[f] \in 0 .. BufferSize
      BY <1>0, <2>1, <2>2
    <2>4. /\ receive_buffers[f] - 1 \in 0 .. BufferSize
          /\ receive_buffers'[g] = IF g = f THEN receive_buffers[g] - 1 ELSE receive_buffers[g]
      BY <1>3, <2>3, ReceiveMinus DEF ReceiveMessage, TypeOK
    <2> QED
      BY <1>0, <1>3, <2>1, <2>4
  <1>4. ASSUME NEW f \in Fds, EpollReadCallback(f), NEW g \in Fds, Open(g)
        PROVE  /\ receive_buffers'[g] \in 0 .. BufferSize
               /\ receive_buffers'[g] = receive_events'[g] + queue_receive'[g]
    <2>1. queue_receive' = queue_receive
      BY <1>4 DEF EpollReadCallback
    <2>2. CASE receive_buffers' = receive_buffers /\ receive_events' = receive_events
      BY <1>0, <1>4, <2>1, <2>2
    <2>3. CASE /\ receive_buffers[f] \notin {None, Null, BufferSize}
               /\ receive_buffers' = Plus(receive_buffers, f)
               /\ receive_events' = Plus(receive_events, f)
      <3>1. /\ receive_buffers[f] \in 0 .. BufferSize /\ receive_buffers[f] # BufferSize
            /\ receive_buffers'[g] = IF g = f THEN receive_buffers[g] + 1 ELSE receive_buffers[g]
            /\ receive_events'[g] = IF g = f THEN receive_events[g] + 1 ELSE receive_events[g]
        BY <1>4, <2>3, ReceivePlus, PlusEffect DEF TypeOK
      <3> QED
        BY <1>0, <1>4, <2>1, <3>1, SocketAssumption
    <2> QED
      BY <1>4, <2>2, <2>3, ReadCases DEF TypeOK
  <1>5. ASSUME \/ ReceiveDone \/ SendDone \/ HeartBeatThread \/ RemoveFromPollEvent
               \/ \E f \in Fds : Answer(f) \/ SendEvent(f)
        PROVE  UNCHANGED <<receive_buffers, receive_events, queue_receive>>
    BY <1>5 DEF ReceiveDone, SendDone, HeartBeatThread, FindBuffer, AddToBuffer, PushEvent,
                RemoveFromPollEvent, Answer, SendEvent
  <1>6. CASE \E f \in Fds : ReceiveFromClosed(f)
    BY <1>0, <1>2, <1>6
  <1>7. CASE \E f \in Fds : ReceiveMessage(f)
    BY <1>3, <1>7
  <1>8. CASE \E f \in Fds : EpollReadCallback(f)
    BY <1>4, <1>8
  <1>9. CASE \/ ReceiveDone \/ SendDone \/ HeartBeatThread \/ RemoveFromPollEvent
             \/ \E f \in Fds : Answer(f) \/ SendEvent(f)
    BY <1>0, <1>5, <1>9
  <1> QED
    BY <1>1, <1>6, <1>7, <1>8, <1>9 DEF Inside, SocketThread

\* Each message read has its event, and each event taken takes its message, until
\* a descriptor is used again too early.
LEMMA OneEventEachStep ==
  ASSUME TypeOK, AtDescriptor, BuffersTogether, OneEventEach, Next
  PROVE  OneEventEach'
  <1> USE DEF buffers, events, local, history, bounds
  <1>1. SUFFICES ASSUME ~reused' PROVE OneEventEach'
    BY DEF OneEventEach
  <1>2. CASE Inside
    <2>1. ~reused
      BY <1>1, <1>2, InsideKeepsFlags
    <2>2. epoll'.step \in {"close", "remove"} => ~Open(epoll.fd)' /\ epoll' = epoll
      BY <1>2, <2>1, InsideKeepsFlags, InsideKeepsOpen DEF OneEventEach, AtDescriptor
    <2>3. \A f \in Fds : Open(f)' => receive_buffers'[f] \in 0 .. BufferSize
      BY <1>2, <2>1, InsideKeepsOpen, ReceiveBufferKept
    <2>4. ~oversized' => \A f \in Fds : Open(f)' =>
                           receive_buffers'[f] = receive_events'[f] + queue_receive'[f]
      BY <1>2, <2>1, InsideKeepsOpen, ReceiveEffect
    <2> QED
      BY <2>2, <2>3, <2>4 DEF OneEventEach, Open
  <1>3. ASSUME NEW f \in Fds, Closing(f) PROVE OneEventEach'
    <2>1. /\ ~reused /\ UNCHANGED <<receive_events, queue_receive, oversized>>
          /\ epoll'.step # "idle" => epoll'.fd = f
      BY <1>1, <1>3, ClosingEffect DEF Idle
    <2>2. \A g \in Fds \ {f} : receive_buffers'[g] = receive_buffers[g]
      BY <1>3, ClosingEffect DEF RemoveSocketResource, TypeOK, ReceiveBuffers
    <2> QED
      BY <1>3, <2>1, <2>2, OpenChanges DEF OneEventEach, Open
  <1>4. ASSUME NEW f \in Fds, AddSocketResource(f) PROVE OneEventEach'
    <2>1. /\ ~reused /\ ~Leftovers(f) /\ ~Open(f)
          /\ UNCHANGED <<receive_events, queue_receive, epoll, oversized>>
      BY <1>1, <1>4 DEF AddSocketResource, Leftovers
    <2>2. receive_buffers[f] = None /\ receive_events[f] + queue_receive[f] = 0
      BY <2>1 DEF Leftovers, BuffersTogether, TypeOK, Counts
    <2>3. /\ receive_buffers'[f] = 0
          /\ \A g \in Fds \ {f} : receive_buffers'[g] = receive_buffers[g]
      BY <1>4, <2>2 DEF AddSocketResource, TypeOK, ReceiveBuffers
    <2>4. epoll'.step \in {"close", "remove"} => ~Open(epoll.fd)' /\ epoll' = epoll
      BY <1>4, <2>1, OpenChanges DEF Leftovers, OneEventEach, AtDescriptor
    <2>5. 0 \in 0 .. BufferSize
      BY SocketAssumption
    <2>6. \A g \in Fds : Open(g)' =>
            /\ receive_buffers'[g] \in 0 .. BufferSize
            /\ ~oversized' => receive_buffers'[g] = receive_events'[g] + queue_receive'[g]
      BY <1>4, <2>1, <2>2, <2>3, <2>5, OpenChanges DEF OneEventEach
    <2> QED
      BY <2>4, <2>6 DEF OneEventEach, Open
  <1> QED
    BY <1>2, <1>3, <1>4, NextCases

-----------------------------------------------------------------------------
(* The safety properties *)

\* What went wrong once stays on record.
LEMMA FlagsStay ==
  ASSUME Next
  PROVE  (reused => reused') /\ (misread => misread') /\ (oversized => oversized')
  <1>1. CASE Inside
    BY <1>1, InsideKeepsFlags
  <1>2. ASSUME NEW f \in Fds, Closing(f)
        PROVE  (reused => reused') /\ (misread => misread') /\ (oversized => oversized')
    <2>1. UNCHANGED <<reused, oversized>> /\ DeleteMasterSocket(f)
      BY <1>2, ClosingEffect
    <2>2. misread => misread'
      BY <2>1 DEF DeleteMasterSocket
    <2> QED
      BY <2>1, <2>2
  <1>3. ASSUME NEW f \in Fds, AddSocketResource(f)
        PROVE  (reused => reused') /\ UNCHANGED <<misread, oversized>>
    BY <1>3 DEF AddSocketResource
  <1> QED
    BY <1>1, <1>2, <1>3, NextCases

\* SocketThread finds a message for each event.
LEMMA NoBlockedRemoveStep ==
  ASSUME TypeOK, BuffersTogether, OneEventEach, NoBlockedRemove, Next
  PROVE  NoBlockedRemove'
  <1> USE DEF buffers, events, local, history, bounds
  <1>1. (reused => reused') /\ (oversized => oversized')
    BY FlagsStay
  <1>2. SUFFICES ASSUME pc'.step = "remove", ~reused, ~oversized PROVE FALSE
    BY <1>1 DEF NoBlockedRemove
  <1>3. pc.step # "remove"
    BY <1>2 DEF NoBlockedRemove
  <1>4. ASSUME NEW f \in Fds, ReceiveMessage(f) PROVE FALSE
    <2>1. receive_buffers[f] = 0 /\ queue_receive[f] > 0
      BY <1>2, <1>4 DEF ReceiveMessage, At
    <2>2. Open(f)
      BY <1>4, SocketAssumption DEF ReceiveMessage, BuffersTogether
    <2> QED
      BY <1>2, <2>1, <2>2 DEF OneEventEach, TypeOK, Counts
  <1>5. CASE GetSocketEvent \/ ReceiveDone \/ SendDone
    BY <1>2, <1>5 DEF GetSocketEvent, ReceiveDone, SendDone, At
  <1>6. ASSUME NEW f \in Fds, ReceiveFromClosed(f) \/ Answer(f) \/ SendEvent(f) PROVE FALSE
    BY <1>2, <1>3, <1>6 DEF ReceiveFromClosed, Answer, SendEvent, At
  <1>7. CASE HeartBeatThread \/ EpollThread \/ \E f \in Fds : AddSocketResource(f)
    BY <1>2, <1>3, <1>7 DEF HeartBeatThread, FindBuffer, AddToBuffer, PushEvent, EpollThread,
       RemoveFromPollEvent, EpollReadCallback, ReadError, SocketClose, AddSocketResource
  <1> QED
    BY <1>4, <1>5, <1>6, <1>7 DEF Next, SocketThread

\* A read finds no NULL buffer, and a send no deleted one, without the two causes.
LEMMA CrashStep ==
  ASSUME TypeOK, OneEventEach, CrashOnlyByLeftovers, Next
  PROVE  CrashOnlyByLeftovers'
  <1> USE DEF buffers, events, local, history, bounds
  <1>1. ~crashed
    BY DEF Next, SocketThread, GetSocketEvent, ReceiveDone, SendDone, ReceiveFromClosed,
           ReceiveMessage, Answer, SendEvent, HeartBeatThread, FindBuffer, AddToBuffer,
           PushEvent, EpollThread, RemoveFromPollEvent, EpollReadCallback, ReadError,
           SocketClose, AddSocketResource
  <1>2. ASSUME NEW f \in Fds, EpollReadCallback(f) PROVE CrashOnlyByLeftovers'
    <2>1. reused' = reused /\ Open(f)
      BY <1>2 DEF EpollReadCallback
    <2>2. crashed' => receive_buffers[f] = Null
      BY <1>1, <1>2, ReadCases
    <2>4. receive_buffers[f] = Null => reused
      BY <2>1, SocketAssumption DEF OneEventEach
    <2> QED
      BY <2>1, <2>2, <2>4 DEF CrashOnlyByLeftovers
  <1>3. CASE AddToBuffer
    <2>1. sender'.valid = sender.valid
      BY <1>3 DEF AddToBuffer, TypeOK, SenderStates
    <2> QED
      BY <1>1, <1>3, <2>1 DEF AddToBuffer, CrashOnlyByLeftovers
  <1>4. CASE PushEvent
    BY <1>1, <1>4 DEF PushEvent, CrashOnlyByLeftovers
  <1>5. CASE \/ SocketThread \/ RemoveFromPollEvent
             \/ \E f \in Fds : FindBuffer(f) \/ Closing(f) \/ AddSocketResource(f)
    BY <1>1, <1>5, ClosingEffect DEF SocketThread, GetSocketEvent, ReceiveDone, SendDone, ReceiveFromClosed,
       ReceiveMessage, Answer, SendEvent, FindBuffer, RemoveFromPollEvent,
       AddSocketResource, CrashOnlyByLeftovers
  <1> QED
    BY <1>2, <1>3, <1>4, <1>5 DEF Next, HeartBeatThread, EpollThread, Closing

\* The second close of a descriptor meets no connection that is in use.
LEMMA OpenDescriptorStep ==
  ASSUME TypeOK, AtDescriptor, OneEventEach, OpenDescriptor, Next
  PROVE  OpenDescriptor'
  <1> USE DEF buffers, events, local, history, bounds
  <1>1. SUFFICES ASSUME ~reused', ~misread' PROVE OpenDescriptor'
    BY DEF OpenDescriptor
  <1>2. ~reused /\ ~misread
    BY <1>1, FlagsStay
  <1>3. CASE SocketThread \/ HeartBeatThread \/ \E f \in Fds : EpollReadCallback(f)
    <2>1. kernel' = kernel
      BY <1>3 DEF SocketThread, GetSocketEvent, ReceiveDone, SendDone, ReceiveFromClosed,
         ReceiveMessage, Answer, SendEvent, HeartBeatThread, FindBuffer, AddToBuffer,
         PushEvent, EpollReadCallback
    <2> QED
      BY <1>2, <1>3, <2>1, InsideKeepsOpen DEF OpenDescriptor, Open, Inside
  <1>4. CASE RemoveFromPollEvent
    <2>1. kernel' = kernel \ {epoll.fd} /\ ~Open(epoll.fd)
      BY <1>2, <1>4 DEF RemoveFromPollEvent, OneEventEach
    <2> QED
      BY <1>2, <1>4, <2>1, InsideKeepsOpen DEF OpenDescriptor, Open, Inside
  <1>5. ASSUME NEW f \in Fds, Closing(f) PROVE OpenDescriptor'
    <2>1. \A g \in kernel : g # f => g \in kernel'
      BY <1>1, <1>5, ClosingEffect DEF DeleteMasterSocket
    <2> QED
      BY <1>2, <1>5, <2>1, OpenChanges DEF OpenDescriptor, Open
  <1>6. ASSUME NEW f \in Fds, AddSocketResource(f) PROVE OpenDescriptor'
    <2>1. kernel' = kernel \cup {f}
      BY <1>6 DEF AddSocketResource
    <2> QED
      BY <1>2, <1>6, <2>1, OpenChanges DEF OpenDescriptor, Open
  <1> QED
    BY <1>3, <1>4, <1>5, <1>6 DEF Next, EpollThread, Closing

\* The message that a Connector has at hand.
AtHand(f) == IF connector[f] = "none" THEN 0 ELSE 1

\* The event that SendProtocol is about to add.
AboutToPush(f) == IF sender.step = "push" /\ sender.fd = f THEN 1 ELSE 0

\* Connector::Send sends one message, or counts a short send, or fails.
LEMMA SendMessageEffect ==
  ASSUME TypeOK, NEW f \in Fds, SendMessage(f)
  PROVE  /\ \A g \in Fds \ {f} : /\ send_buffers'[g] = send_buffers[g]
                                 /\ connector'[g] = connector[g]
                                 /\ shorts'[g] = shorts[g]
         /\ connector'[f] # "wrapped" =>
              /\ connector[f] # "wrapped"
              /\ shorts'[f] \in Nat
              /\ send_buffers'[f] + AtHand(f)' + 1
                   <= send_buffers[f] + AtHand(f) + (shorts'[f] - shorts[f])
  <1>1. send_buffers[f] \in Nat /\ shorts[f] \in Nat
    <2>1. send_buffers[f] \in 0 .. BufferSize
      BY DEF SendMessage, Open, TypeOK, SendBuffers
    <2> QED
      BY <2>1, SocketAssumption DEF TypeOK, Counts
  <1>2. /\ \A g \in Fds \ {f} : send_buffers'[g] = send_buffers[g]
        /\ send_buffers'[f] = IF connector[f] = "none" THEN send_buffers[f] - 1
                              ELSE send_buffers[f]
    <2>1. connector[f] = "none" => send_buffers[f] # None /\ send_buffers[f] > 0
      BY DEF SendMessage, HasMessage, Open
    <2>2. send_buffers' = IF connector[f] = "none" THEN Minus(send_buffers, f) ELSE send_buffers
      BY DEF SendMessage, Taken
    <2> QED
      BY <2>1, <2>2, SendMinus DEF TypeOK
  <1>3. \A g \in Fds \ {f} : connector'[g] = connector[g] /\ shorts'[g] = shorts[g]
    BY DEF SendMessage, SendFails, Plus, TypeOK, Counts
  <1>4. ASSUME connector'[f] # "wrapped"
        PROVE  /\ connector[f] # "wrapped"
               /\ \/ connector'[f] = "none" /\ shorts'[f] = shorts[f]
                  \/ connector'[f] # "none" /\ shorts'[f] = shorts[f] + 1
    BY <1>4 DEF SendMessage, SendFails, Plus, TypeOK, Counts
  <1>5. connector'[f] # "wrapped" =>
          /\ connector[f] # "wrapped"
          /\ shorts'[f] \in Nat
          /\ send_buffers'[f] + AtHand(f)' + 1
               <= send_buffers[f] + AtHand(f) + (shorts'[f] - shorts[f])
    BY <1>1, <1>2, <1>4 DEF AtHand
  <1> QED
    BY <1>2, <1>3, <1>5

\* An event is added for each message and taken for each call of send.
LEMMA UnsentStep ==
  ASSUME TypeOK, AtDescriptor, UnsentOnlyAfterShortSend, Next
  PROVE  UnsentOnlyAfterShortSend'
  <1> USE DEF buffers, events, local, history, bounds
  <1> DEFINE Fits(f) == send_buffers[f] + AtHand(f)
                          <= send_events[f] + queue_send[f] + shorts[f] + AboutToPush(f)
  <1>0. SUFFICES ASSUME NEW f \in Fds, Open(f)', connector'[f] # "wrapped" PROVE Fits(f)'
    BY DEF UnsentOnlyAfterShortSend, AtHand, AboutToPush, Open
  <1>1. /\ send_events[f] \in Nat /\ queue_send[f] \in Nat /\ shorts[f] \in Nat
        /\ AboutToPush(f) \in {0, 1} /\ AtHand(f) \in {0, 1}
        /\ Open(f) => send_buffers[f] \in Nat
    BY SocketAssumption DEF TypeOK, Counts, AboutToPush, AtHand, Open, SendBuffers
  <1>2. Open(f) /\ connector[f] # "wrapped" => Fits(f)
    BY DEF UnsentOnlyAfterShortSend, AtHand, AboutToPush
  <1> HIDE DEF Fits
  <1>3. ASSUME UNCHANGED <<send_buffers, connector, send_events, queue_send, shorts>>,
               AboutToPush(f)' >= AboutToPush(f), AboutToPush(f)' \in Nat
        PROVE  Fits(f)'
    BY <1>0, <1>1, <1>2, <1>3 DEF Fits, AtHand, Open
  <1>4. CASE \/ ReceiveDone \/ SendDone \/ RemoveFromPollEvent
             \/ \E g \in Fds : ReceiveFromClosed(g) \/ ReceiveMessage(g) \/ EpollReadCallback(g)
    <2>1. UNCHANGED <<send_buffers, connector, send_events, queue_send, shorts, sender>>
      BY <1>4 DEF ReceiveDone, SendDone, RemoveFromPollEvent, ReceiveFromClosed,
         ReceiveMessage, EpollReadCallback
    <2> QED
      BY <1>1, <1>3, <2>1 DEF AboutToPush
  <1>5. ASSUME NEW g \in Fds, FindBuffer(g) PROVE Fits(f)'
    <2>1. UNCHANGED <<send_buffers, connector, send_events, queue_send, shorts>>
          /\ sender.step = "idle"
      BY <1>5 DEF FindBuffer, Idle
    <2>2. AboutToPush(f) = 0 /\ AboutToPush(f)' \in {0, 1}
      BY <2>1 DEF AboutToPush
    <2> QED
      BY <1>3, <2>1, <2>2
  <1>6. CASE GetSocketEvent
    <2>1. /\ UNCHANGED <<send_buffers, connector, shorts, sender>>
          /\ send_events'[f] = 0 /\ queue_send'[f] = queue_send[f] + send_events[f]
      BY <1>6, SumEffect, NothingEffect DEF GetSocketEvent, TypeOK
    <2> QED
      BY <1>0, <1>1, <1>2, <2>1 DEF Fits, AtHand, AboutToPush, Open
  <1>7. ASSUME NEW g \in Fds, Answer(g) PROVE Fits(f)'
    <2>1. UNCHANGED <<connector, queue_send, shorts, sender>>
      BY <1>7 DEF Answer
    <2>2. CASE UNCHANGED <<send_buffers, send_events>>
      BY <1>1, <1>3, <2>1, <2>2 DEF AboutToPush
    <2>4. CASE UNCHANGED send_buffers /\ send_events' = Plus(send_events, g)
      <3>1. send_events'[f] >= send_events[f] /\ send_events'[f] \in Nat
        BY <1>1, <2>4, PlusEffect DEF TypeOK
      <3> QED
        BY <1>0, <1>1, <1>2, <2>1, <2>4, <3>1 DEF Fits, AtHand, AboutToPush, Open
    <2>3. CASE Open(g) /\ HasRoom(send_buffers[g]) /\ send_buffers' = Plus(send_buffers, g)
               /\ send_events' = Plus(send_events, g)
      <3>1. /\ send_buffers'[f] = IF f = g THEN send_buffers[f] + 1 ELSE send_buffers[f]
            /\ send_events'[f] = IF f = g THEN send_events[f] + 1 ELSE send_events[f]
        BY <2>3, SendPlus, PlusEffect DEF Open, TypeOK
      <3>2. Open(f)
        BY <1>0, <2>3, <3>1 DEF Open
      <3> QED
        BY <1>0, <1>1, <1>2, <2>1, <3>1, <3>2 DEF Fits, AtHand, AboutToPush
    <2> QED
      BY <1>7, <2>2, <2>3, <2>4 DEF Answer
  <1>8. ASSUME NEW g \in Fds, SendEvent(g) PROVE Fits(f)'
    <2>1. /\ UNCHANGED <<send_events, sender>>
          /\ queue_send'[f] = IF f = g THEN queue_send[f] - 1 ELSE queue_send[f]
          /\ queue_send[g] > 0
      BY <1>8, MinusEffect DEF SendEvent, TypeOK
    <2>2. Open(f)
      BY <1>0, <1>8, InsideKeepsOpen DEF Inside, SocketThread
    <2>3. CASE SendMessage(g)
      <3>1. CASE f # g
        BY <1>0, <1>1, <1>2, <2>1, <2>2, <2>3, <3>1, SendMessageEffect
           DEF Fits, AtHand, AboutToPush
      <3>2. CASE f = g
        <4>1. /\ connector[f] # "wrapped" /\ shorts'[f] \in Nat
              /\ send_buffers'[f] + AtHand(f)' + 1
                   <= send_buffers[f] + AtHand(f) + (shorts'[f] - shorts[f])
          BY <1>0, <2>3, <3>2, SendMessageEffect
        <4>2. send_buffers'[f] \in Nat /\ AtHand(f)' \in {0, 1} /\ AboutToPush(f)' = AboutToPush(f)
          <5>1. send_buffers'[f] = send_buffers[f] \/ send_buffers'[f] = send_buffers[f] - 1
            BY <2>3, <3>2, SendMinus DEF SendMessage, Taken, HasMessage, Open, TypeOK
          <5>2. send_buffers'[f] = send_buffers[f] - 1 => send_buffers[f] > 0
            BY <1>1, <2>2, <2>3, <3>2 DEF SendMessage, Taken, HasMessage
          <5> QED
            BY <1>1, <2>1, <2>2, <5>1, <5>2 DEF AtHand, AboutToPush
        <4>3. send_buffers[f] + AtHand(f)
                <= send_events[f] + queue_send[f] + shorts[f] + AboutToPush(f)
          BY <1>2, <2>2, <4>1 DEF Fits
        <4>4. send_events' = send_events /\ queue_send'[f] = queue_send[f] - 1
          BY <2>1, <3>2
        <4> QED
          BY <1>1, <2>2, <4>1, <4>2, <4>3, <4>4 DEF Fits
      <3> QED
        BY <3>1, <3>2
    <2>4. CASE /\ ~(Open(g) /\ HasMessage(g))
               /\ UNCHANGED <<send_buffers, connector, shorts>>
      <3>1. f = g => send_buffers[f] = 0 /\ AtHand(f) = 0
        BY <1>1, <2>2, <2>4 DEF HasMessage, AtHand
      <3>2. AtHand(f)' = AtHand(f) /\ AboutToPush(f)' = AboutToPush(f)
        BY <2>1, <2>4 DEF AtHand, AboutToPush
      <3> QED
        BY <1>0, <1>1, <1>2, <2>1, <2>2, <2>4, <3>1, <3>2 DEF Fits
    <2> QED
      BY <1>8, <2>3, <2>4 DEF SendEvent
  <1>9. CASE AddToBuffer
    <2>1. /\ UNCHANGED <<connector, send_events, queue_send, shorts>>
          /\ sender.fd \in Fds /\ sender.step = "add"
          /\ sender'.step = "push" /\ sender'.fd = sender.fd
      BY <1>9 DEF AddToBuffer, AtDescriptor, TypeOK, SenderStates
    <2>2. AboutToPush(f) = 0 /\ AboutToPush(f)' = IF sender.fd = f THEN 1 ELSE 0
      BY <2>1 DEF AboutToPush
    <2>3. CASE send_buffers' = send_buffers
      BY <1>3, <2>1, <2>2, <2>3
    <2>4. CASE /\ Open(sender.fd) /\ HasRoom(send_buffers[sender.fd])
               /\ send_buffers' = Plus(send_buffers, sender.fd)
      <3>1. send_buffers'[f] = IF f = sender.fd THEN send_buffers[f] + 1 ELSE send_buffers[f]
        BY <2>1, <2>4, SendPlus DEF Open, TypeOK
      <3>2. Open(f)
        BY <1>0, <2>4, <3>1 DEF Open
      <3>3. AtHand(f)' = AtHand(f)
        BY <2>1 DEF AtHand
      <3> QED
        BY <1>0, <1>1, <1>2, <2>1, <2>2, <3>1, <3>2, <3>3 DEF Fits
    <2> QED
      BY <1>9, <2>1, <2>3, <2>4 DEF AddToBuffer, AtDescriptor
  <1>10. CASE PushEvent
    <2>1. UNCHANGED <<send_buffers, connector, queue_send, shorts>>
      BY <1>10 DEF PushEvent
    <2>2. CASE UNCHANGED <<send_events, sender>>
      BY <1>1, <1>3, <2>1, <2>2 DEF AboutToPush
    <2>3. CASE send_events' = Plus(send_events, sender.fd) /\ sender' = Idle
      <3>1. sender.fd \in Fds /\ sender.step = "push"
        BY <1>10 DEF PushEvent, AtDescriptor
      <3>2. send_events'[f] = IF f = sender.fd THEN send_events[f] + 1 ELSE send_events[f]
        BY <2>3, <3>1, PlusEffect DEF TypeOK
      <3>3. /\ AtHand(f)' = AtHand(f) /\ AboutToPush(f)' = 0
            /\ AboutToPush(f) = IF sender.fd = f THEN 1 ELSE 0
        BY <2>1, <2>3, <3>1 DEF AtHand, AboutToPush, Idle
      <3> QED
        BY <1>0, <1>1, <1>2, <2>1, <3>2, <3>3 DEF Fits, Open
    <2> QED
      BY <1>10, <2>2, <2>3 DEF PushEvent
  <1>11. ASSUME NEW g \in Fds, Closing(g) PROVE Fits(f)'
    <2>1. f # g /\ Open(f)
      BY <1>0, <1>11, OpenChanges
    <2>2. /\ UNCHANGED <<send_events, queue_send, shorts>>
          /\ send_buffers'[f] = send_buffers[f] /\ connector'[f] = connector[f]
      BY <1>11, <2>1, ClosingEffect DEF RemoveSocketResource, TypeOK, SendBuffers
    <2>3. sender'.step = sender.step /\ sender'.fd = sender.fd
      BY <1>11, ClosingEffect DEF RemoveSocketResource, TypeOK, SenderStates
    <2> QED
      BY <1>0, <1>2, <2>1, <2>2, <2>3 DEF Fits, AtHand, AboutToPush
  <1>12. ASSUME NEW g \in Fds, AddSocketResource(g) PROVE Fits(f)'
    <2>1. UNCHANGED <<send_events, queue_send, sender>>
      BY <1>12 DEF AddSocketResource
    <2>2. CASE f = g /\ ~Open(f)
      <3>1. send_buffers'[f] = 0 /\ shorts'[f] = 0 /\ connector'[f] = "none"
        BY <1>12, <2>2 DEF AddSocketResource, Open, TypeOK, SendBuffers, Counts
      <3>2. AtHand(f)' = 0 /\ AboutToPush(f)' = AboutToPush(f)
        BY <2>1, <3>1 DEF AtHand, AboutToPush
      <3> QED
        BY <1>1, <2>1, <3>1, <3>2 DEF Fits
    <2>3. CASE f # g \/ Open(f)
      <3>1. /\ send_buffers'[f] = send_buffers[f] /\ shorts'[f] = shorts[f]
            /\ connector'[f] = connector[f]
        BY <1>12, <2>3 DEF AddSocketResource, Open, TypeOK, SendBuffers, Counts
      <3> QED
        BY <1>0, <1>2, <2>1, <3>1 DEF Fits, AtHand, AboutToPush, Open
    <2> QED
      BY <2>2, <2>3
  <1> QED
    BY <1>4, <1>5, <1>6, <1>7, <1>8, <1>9, <1>10, <1>11, <1>12
       DEF Next, SocketThread, HeartBeatThread, EpollThread, Closing

-----------------------------------------------------------------------------
(* The invariant and what follows from it *)

\* The process starts with connections that have empty buffers and no events.
LEMMA IInvInit == Init => IInv
  <1> SUFFICES ASSUME Init PROVE IInv
    OBVIOUS
  <1>1. 0 \in 0 .. BufferSize /\ None # 0 /\ Null # 0
    BY SocketAssumption
  <1>2. \A f \in Fds : Open(f) /\ receive_buffers[f] = 0
    BY <1>1 DEF Init, Open, Nothing
  <1>3. TypeOK
    <2>1. /\ reads \in 0 .. MaxReads /\ sends \in 0 .. MaxSends
          /\ failures \in 0 .. MaxShort /\ opens \in 0 .. MaxOpens
      BY SocketAssumption DEF Init
    <2>2. /\ send_buffers \in SendBuffers /\ receive_buffers \in ReceiveBuffers
          /\ connector \in [Fds -> ConnectorStates]
      BY <1>1 DEF Init, Nothing, SendBuffers, ReceiveBuffers, ConnectorStates
    <2>3. /\ send_events \in Counts /\ receive_events \in Counts /\ shorts \in Counts
          /\ queue_send \in Counts /\ queue_receive \in Counts
      BY NothingEffect DEF Init
    <2>4. pc \in PcStates /\ sender \in SenderStates /\ epoll \in EpollStates
      BY StepTypes DEF Init
    <2>5. /\ reused \in BOOLEAN /\ misread \in BOOLEAN /\ oversized \in BOOLEAN
          /\ full \in BOOLEAN /\ crashed \in BOOLEAN
      BY DEF Init
    <2> QED
      BY <2>1, <2>2, <2>3, <2>4, <2>5 DEF Init, TypeOK
  <1>5. AtDescriptor
    BY DEF Init, AtDescriptor, Idle
  <1>6. BuffersTogether /\ OpenDescriptor
    BY <1>2 DEF Init, BuffersTogether, OpenDescriptor
  <1>7. OneEventEach
    BY <1>1, <1>2 DEF Init, OneEventEach, Nothing, Idle
  <1>8. NoBlockedRemove /\ CrashOnlyByLeftovers
    BY DEF Init, NoBlockedRemove, CrashOnlyByLeftovers, At
  <1>9. UnsentOnlyAfterShortSend
    BY DEF Init, UnsentOnlyAfterShortSend, Nothing, Idle
  <1> QED
    BY <1>3, <1>5, <1>6, <1>7, <1>8, <1>9 DEF IInv

\* Every step keeps the invariant.
LEMMA IInvStep == IInv /\ [Next]_vars => IInv'
  <1> SUFFICES ASSUME IInv, [Next]_vars PROVE IInv'
    OBVIOUS
  <1>1. CASE Next
    BY <1>1, TypeStep, AtDescriptorStep, BuffersTogetherStep,
       OneEventEachStep, NoBlockedRemoveStep, CrashStep, UnsentStep, OpenDescriptorStep
       DEF IInv
  <1>2. CASE UNCHANGED vars
    <2>1. TypeOK' /\ AtDescriptor' /\ BuffersTogether'
      BY <1>2 DEF vars, buffers, events, local, history, bounds, IInv, TypeOK,
                  AtDescriptor, BuffersTogether, Open
    <2>2. OneEventEach' /\ NoBlockedRemove' /\ CrashOnlyByLeftovers'
      BY <1>2 DEF vars, buffers, events, local, history, bounds, IInv, OneEventEach, Open,
                  NoBlockedRemove, CrashOnlyByLeftovers
    <2>3. UnsentOnlyAfterShortSend' /\ OpenDescriptor'
      BY <1>2 DEF vars, buffers, events, local, history, bounds, IInv, UnsentOnlyAfterShortSend,
                  OpenDescriptor, Open
    <2> QED
      BY <2>1, <2>2, <2>3 DEF IInv
  <1> QED
    BY <1>1, <1>2

\* The invariant holds in every reachable state.
THEOREM SocketInvariant == Spec => []IInv
  BY IInvInit, IInvStep, PTL DEF Spec

\* No buffer takes more than its size, and no count of events falls below zero,
\* whatever the three threads do to each other.
THEOREM TypeCorrect == Spec => []TypeOK
  <1>1. IInv => TypeOK
    BY DEF IInv
  <1> QED
    BY <1>1, SocketInvariant, PTL

\* Tracker::SocketThread: the blocking Remove with mutex_socket_ held never waits
\* unless a read was longer than the buffer or a descriptor was used again too
\* early.
THEOREM RemoveNeverBlocks == Spec => []NoBlockedRemove
  <1>1. IInv => NoBlockedRemove
    BY DEF IInv
  <1> QED
    BY <1>1, SocketInvariant, PTL

\* A deleted queue or a NULL buffer is used only after a close under a sender, or
\* after a descriptor was used again too early.
THEOREM CrashNeedsLeftovers == Spec => []CrashOnlyByLeftovers
  <1>1. IInv => CrashOnlyByLeftovers
    BY DEF IInv
  <1> QED
    BY <1>1, SocketInvariant, PTL

\* Connector::Send: messages that no event is left for are at most as many as the
\* short sends of their connection.
THEOREM UnsentNeedsShortSend == Spec => []UnsentOnlyAfterShortSend
  <1>1. IInv => UnsentOnlyAfterShortSend
    BY DEF IInv
  <1> QED
    BY <1>1, SocketInvariant, PTL

\* Epoller::RemoveFromPollEvent: closing a descriptor twice takes it from no
\* connection that is in use, unless it was handed out again in between or
\* SocketClose took one peer for another.
THEOREM DescriptorStaysOpen == Spec => []OpenDescriptor
  <1>1. IInv => OpenDescriptor
    BY DEF IInv
  <1> QED
    BY <1>1, SocketInvariant, PTL
=============================================================================
