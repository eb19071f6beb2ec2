------------------------------ MODULE SocketIO ------------------------------
(***************************************************************************)
(* How a FastDCS process moves messages between its handlers and its       *)
(* sockets (server/tracker.cc, connector.cc, epoller.cc, tcp_socket.cc).   *)
(* Three threads share the buffers of every socket:                        *)
(*   - SocketThread holds mutex_socket_ from the moment it finds an event  *)
(*     until the next wait: while it takes messages, handles them, answers *)
(*     them and sends;                                                     *)
(*   - the epoll thread reads, accepts and closes sockets, each under      *)
(*     mutex_socket_;                                                      *)
(*   - HeartBeatThread sends, and takes the mutex only to add an event.    *)
(* What a message says is of no interest here, so a buffer is the number   *)
(* of its messages, and an event queue the number of its events per        *)
(* descriptor: SocketThread empties the queues before it waits again, and  *)
(* which socket comes first tells nothing apart.                           *)
(***************************************************************************)
EXTENDS Integers, FiniteSets

CONSTANTS
  Fds,         \* socket descriptors; the kernel hands them out again
  None,        \* no descriptor
  Null,        \* the pointer NULL
  BufferSize,  \* messages a SignalingQueue of socket_buff_size bytes holds
  MaxReads,    \* bound: messages that arrive
  MaxSends,    \* bound: messages HeartBeatThread sends
  MaxShort,    \* bound: sends that take part of a message, fail, or are too long
  MaxOpens     \* bound: connections after the first ones

ASSUME SocketAssumption ==
  /\ None \notin Fds /\ Null \notin Fds /\ IsFiniteSet(Fds)
  /\ BufferSize \in Nat \ {0}
  /\ None \notin 0 .. BufferSize /\ Null \notin 0 .. BufferSize /\ None # Null
  /\ {MaxReads, MaxSends, MaxShort, MaxOpens} \subseteq Nat

VARIABLES
  kernel,          \* descriptors the kernel has open for us
  send_buffers,    \* per descriptor: queued messages, None without a buffer
  receive_buffers, \* the same, or Null when only the key is there
  connector,       \* per descriptor: what send_connects_ holds of a message
  send_events, receive_events,  \* socket_send_events_, socket_receive_events_
  queue_send, queue_receive,    \* SocketThread's own copies of them
  mutex,           \* holder of mutex_socket_
  pc,              \* SocketThread
  sender,          \* HeartBeatThread in SendProtocol: step, descriptor, and
                   \* whether its iterator still points into the map
  epoll,           \* the epoll thread: step and descriptor
  shorts,          \* per connection: sends that did not finish a message
  reused,          \* a descriptor was opened while something of its previous
                   \* connection was still to come
  misread,         \* SocketClose took the connection for another master's
  oversized,       \* a read was longer than the buffer
  full,            \* somebody who holds mutex_socket_ met a full buffer
  crashed,         \* a deleted object or a NULL pointer was used
  reads, sends, failures, opens    \* counters for the bounds

buffers == <<send_buffers, receive_buffers, connector>>
events == <<send_events, receive_events>>
local == <<queue_send, queue_receive>>
history == <<reused, misread, oversized>>
bounds == <<reads, sends, failures, opens>>
vars == <<kernel, buffers, events, local, mutex, pc, sender, epoll, shorts,
          history, full, crashed, bounds>>

\* message_ and bytes_count_ of a Connector: no message, part of it sent, none
\* of it sent (after a failure took back the only byte), or wrapped below zero
ConnectorStates == {"none", "rest", "start", "wrapped"}
Idle == [step |-> "idle", fd |-> None, valid |-> TRUE]
At(step) == [step |-> step, fd |-> None]

PcStates == [step : {"wait", "receive", "remove", "answer", "send"},
             fd : Fds \cup {None}]
SenderStates == [step : {"idle", "add", "push"}, fd : Fds \cup {None},
                 valid : BOOLEAN]
EpollStates == [step : {"idle", "add", "close", "remove"}, fd : Fds \cup {None},
                valid : {TRUE}]
SendBuffers == [Fds -> (0 .. BufferSize) \cup {None}]
ReceiveBuffers == [Fds -> (0 .. BufferSize) \cup {None, Null}]
Counts == [Fds -> Nat]

\* Every variable stays in its range: no buffer takes more than its size, and
\* only one thread at a time holds mutex_socket_.
TypeOK ==
  /\ kernel \subseteq Fds
  /\ send_buffers \in SendBuffers /\ receive_buffers \in ReceiveBuffers
  /\ connector \in [Fds -> ConnectorStates]
  /\ send_events \in Counts /\ receive_events \in Counts
  /\ queue_send \in Counts /\ queue_receive \in Counts
  /\ mutex \in {None, "socket", "epoll"}
  /\ pc \in PcStates /\ sender \in SenderStates /\ epoll \in EpollStates
  /\ shorts \in Counts
  /\ reused \in BOOLEAN /\ misread \in BOOLEAN /\ oversized \in BOOLEAN
  /\ full \in BOOLEAN /\ crashed \in BOOLEAN
  /\ reads \in 0 .. MaxReads /\ sends \in 0 .. MaxSends
  /\ failures \in 0 .. MaxShort /\ opens \in 0 .. MaxOpens

Nothing == [f \in Fds |-> 0]
Plus(q, f) == [q EXCEPT ![f] = @ + 1]
Minus(q, f) == [q EXCEPT ![f] = @ - 1]
Sum(q, r) == [f \in Fds |-> q[f] + r[f]]

Init ==
  /\ kernel = Fds
  /\ send_buffers = Nothing /\ receive_buffers = Nothing
  /\ connector = [f \in Fds |-> "none"]
  /\ send_events = Nothing /\ receive_events = Nothing
  /\ queue_send = Nothing /\ queue_receive = Nothing
  /\ mutex = None /\ pc = At("wait") /\ sender = Idle /\ epoll = Idle
  /\ shorts = Nothing
  /\ reused = FALSE /\ misread = FALSE /\ oversized = FALSE
  /\ full = FALSE /\ crashed = FALSE
  /\ reads = 0 /\ sends = 0 /\ failures = 0 /\ opens = 0

Open(f) == send_buffers[f] # None

\* Mutant of HasRoom: a message may go past the end of the buffer.
OneTooMany(n) == n <= BufferSize

\* SignalingQueue::Add waits until there is room
HasRoom(n) == n < BufferSize

-----------------------------------------------------------------------------
(* SocketThread *)

\* Mutant of GetSocketEvent: the receive events are copied, not taken.
CopySocketEvent ==
  /\ ~crashed
  /\ pc.step = "wait" /\ mutex = None
  /\ send_events # Nothing \/ receive_events # Nothing
  /\ mutex' = "socket"
  /\ pc' = At("receive")
  /\ queue_send' = send_events /\ queue_receive' = receive_events
  /\ send_events' = Nothing
  /\ UNCHANGED <<kernel, buffers, receive_events, sender, epoll, shorts, history,
                 full, crashed, bounds>>

\* GetSocketEvent: the events move to the thread's own queues.
GetSocketEvent ==
  /\ ~crashed
  /\ pc.step = "wait" /\ mutex = None
  /\ send_events # Nothing \/ receive_events # Nothing
  /\ mutex' = "socket"
  /\ pc' = At("receive")
  /\ queue_send' = Sum(queue_send, send_events)
  /\ queue_receive' = Sum(queue_receive, receive_events)
  /\ send_events' = Nothing /\ receive_events' = Nothing
  /\ UNCHANGED <<kernel, buffers, sender, epoll, shorts, history, full, crashed,
                 bounds>>

\* receive_buffers_[socket_fd] of an event whose socket is gone: the look-up
\* itself leaves a NULL under the key.
ReceiveFromClosed(f) ==
  /\ ~crashed
  /\ pc.step = "receive"
  /\ queue_receive[f] > 0
  /\ receive_buffers[f] \in {None, Null}
  /\ receive_buffers' = [receive_buffers EXCEPT ![f] = Null]
  /\ queue_receive' = Minus(queue_receive, f)
  /\ UNCHANGED <<kernel, send_buffers, connector, events, queue_send, mutex, pc,
                 sender, epoll, shorts, history, full, crashed, bounds>>

\* Remove is a blocking call, made with mutex_socket_ held.  ProtocolProcess
\* then answers on some socket, or does not.
ReceiveMessage(f) ==
  /\ ~crashed
  /\ pc.step = "receive"
  /\ queue_receive[f] > 0
  /\ receive_buffers[f] \in 0 .. BufferSize
  /\ queue_receive' = Minus(queue_receive, f)
  /\ IF receive_buffers[f] = 0 THEN pc' = At("remove") /\ UNCHANGED receive_buffers
     ELSE /\ receive_buffers' = Minus(receive_buffers, f)
          /\ pc' \in {At("receive")} \cup [step : {"answer"}, fd : Fds]
  /\ UNCHANGED <<kernel, send_buffers, connector, events, queue_send, mutex,
                 sender, epoll, shorts, history, full, crashed, bounds>>

\* Mutant of Answer: the buffer is not looked up first.
AnswerUnchecked(f) ==
  /\ ~crashed
  /\ pc = [step |-> "answer", fd |-> f]
  /\ Open(f) => HasRoom(send_buffers[f])
  /\ crashed' = ~Open(f)
  /\ send_buffers' = IF Open(f) THEN Plus(send_buffers, f) ELSE send_buffers
  /\ send_events' = Plus(send_events, f)
  /\ pc' = At("receive")
  /\ UNCHANGED <<kernel, receive_buffers, connector, receive_events, local,
                 mutex, sender, epoll, shorts, history, full, bounds>>

\* SendProtocol from a handler: Add waits for room with mutex_socket_ held, and
\* nobody else takes messages out.  A message longer than the buffer is not
\* added, and its event comes all the same.
Answer(f) ==
  /\ ~crashed
  /\ pc = [step |-> "answer", fd |-> f]
  /\ IF ~Open(f)
     THEN pc' = At("receive") /\ UNCHANGED <<send_buffers, send_events, full, failures>>
     ELSE \/ /\ \/ HasRoom(send_buffers[f]) /\ send_buffers' = Plus(send_buffers, f)
                   /\ UNCHANGED failures
                \/ failures < MaxShort /\ failures' = failures + 1
                   /\ UNCHANGED send_buffers
             /\ send_events' = Plus(send_events, f)
             /\ pc' = At("receive")
             /\ UNCHANGED full
          \/ /\ ~HasRoom(send_buffers[f])
             /\ ~full /\ full' = TRUE
             /\ UNCHANGED <<pc, send_buffers, send_events, failures>>
  /\ UNCHANGED <<kernel, receive_buffers, connector, receive_events, local, mutex,
                 sender, epoll, shorts, history, crashed, reads, sends, opens>>

ReceiveDone ==
  /\ ~crashed
  /\ pc.step = "receive" /\ queue_receive = Nothing
  /\ pc' = At("send")
  /\ UNCHANGED <<kernel, buffers, events, local, mutex, sender, epoll, shorts,
                 history, full, crashed, bounds>>

\* A message is at hand: the rest of the last one, or the next of the queue.
HasMessage(f) == connector[f] # "none" \/ send_buffers[f] > 0

Taken(f) == IF connector[f] = "none" THEN Minus(send_buffers, f)
            ELSE send_buffers

\* send() returns -1: as often as the bound says, or because nothing is open
SendFails(f) ==
  \/ f \in kernel /\ failures < MaxShort /\ failures' = failures + 1
  \/ f \notin kernel /\ UNCHANGED failures

\* Connector::Send makes one call of send(): it takes all, or part (the rest
\* stays until the next event of this socket), or fails.  The result is
\* unsigned, so a failure is never seen: it counts as -1 bytes.  That repeats a
\* byte when a part was sent before; else bytes_count_ wraps and no later call
\* sends anything.  On a descriptor that is closed every send fails.
SendMessage(f) ==
  /\ Open(f) /\ HasMessage(f)
  /\ send_buffers' = Taken(f)
  /\ \/ connector[f] # "wrapped" /\ f \in kernel
        /\ connector' = [connector EXCEPT ![f] = "none"]
        /\ UNCHANGED <<shorts, failures>>
     \/ connector[f] # "wrapped" /\ f \in kernel /\ failures < MaxShort
        /\ connector' = [connector EXCEPT ![f] = "rest"]
        /\ shorts' = Plus(shorts, f) /\ failures' = failures + 1
     \/ connector[f] = "rest" /\ SendFails(f)
        /\ connector' \in {connector, [connector EXCEPT ![f] = "start"]}
        /\ shorts' = Plus(shorts, f)
     \/ connector[f] \in {"none", "start"} /\ SendFails(f)
        /\ connector' = [connector EXCEPT ![f] = "wrapped"]
        /\ UNCHANGED shorts
     \/ connector[f] = "wrapped" /\ UNCHANGED <<connector, shorts, failures>>

\* One event, one call of Send; without a connector or a message nothing.
SendEvent(f) ==
  /\ ~crashed
  /\ pc.step = "send"
  /\ queue_send[f] > 0
  /\ queue_send' = Minus(queue_send, f)
  /\ \/ SendMessage(f)
     \/ ~(Open(f) /\ HasMessage(f)) /\ UNCHANGED <<send_buffers, connector, shorts, failures>>
  /\ UNCHANGED <<kernel, receive_buffers, events, queue_receive, mutex, pc,
                 sender, epoll, history, full, crashed, reads, sends, opens>>

\* Mutant of SendDone: the mutex is not released.
SendDoneLocked ==
  /\ pc.step = "send" /\ queue_send = Nothing
  /\ pc' = At("wait")
  /\ UNCHANGED <<kernel, buffers, events, local, mutex, sender, epoll, shorts,
                 history, full, crashed, bounds>>

SendDone ==
  /\ ~crashed
  /\ pc.step = "send" /\ queue_send = Nothing
  /\ pc' = At("wait") /\ mutex' = None
  /\ UNCHANGED <<kernel, buffers, events, local, sender, epoll, shorts, history,
                 full, crashed, bounds>>

SocketThread ==
  \/ GetSocketEvent \/ ReceiveDone \/ SendDone
  \/ \E f \in Fds : ReceiveFromClosed(f) \/ ReceiveMessage(f) \/ Answer(f)
                    \/ SendEvent(f)

-----------------------------------------------------------------------------
(* HeartBeatThread: SendProtocol without the mutex *)

FindBuffer(f) ==
  /\ ~crashed
  /\ sender = Idle /\ sends < MaxSends
  /\ Open(f)
  /\ sends' = sends + 1
  /\ sender' = [step |-> "add", fd |-> f, valid |-> TRUE]
  /\ UNCHANGED <<kernel, buffers, events, local, mutex, pc, epoll, shorts,
                 history, full, crashed, reads, failures, opens>>

\* The queue behind the iterator may be deleted by now.  Add refuses a message
\* longer than the buffer, which SendProtocol does not notice.
AddToBuffer ==
  /\ ~crashed
  /\ sender.step = "add"
  /\ \/ sender.valid /\ HasRoom(send_buffers[sender.fd])
        /\ send_buffers' = Plus(send_buffers, sender.fd)
        /\ UNCHANGED <<crashed, failures>>
     \/ sender.valid /\ failures < MaxShort /\ failures' = failures + 1
        /\ UNCHANGED <<send_buffers, crashed>>
     \/ ~sender.valid /\ crashed' \in BOOLEAN /\ UNCHANGED <<send_buffers, failures>>
  /\ sender' = [sender EXCEPT !.step = "push"]
  /\ UNCHANGED <<kernel, receive_buffers, connector, events, local, mutex, pc,
                 epoll, shorts, history, full, reads, sends, opens>>

\* Mutant of PushEvent: the event is left out when the mutex is taken.
PushEventUnlessLocked ==
  /\ ~crashed
  /\ sender.step = "push"
  /\ send_events' = IF mutex = None THEN Plus(send_events, sender.fd) ELSE send_events
  /\ sender' = Idle
  /\ UNCHANGED <<kernel, buffers, receive_events, local, mutex, pc, epoll,
                 shorts, history, full, crashed, bounds>>

\* socket_send_events_.push(iter->first) under the mutex
PushEvent ==
  /\ ~crashed
  /\ sender.step = "push" /\ mutex = None
  /\ \/ send_events' = Plus(send_events, sender.fd)
        /\ sender' = Idle
        /\ UNCHANGED crashed
     \/ ~sender.valid /\ crashed' = TRUE /\ UNCHANGED <<send_events, sender>>
  /\ UNCHANGED <<kernel, buffers, receive_events, local, mutex, pc, epoll,
                 shorts, history, full, bounds>>

HeartBeatThread == (\E f \in Fds : FindBuffer(f)) \/ AddToBuffer \/ PushEvent

-----------------------------------------------------------------------------
(* The epoll thread *)

\* EpollReadCallback and AddReceiveSocketBuffer: what one read takes is added
\* as one message, with mutex_socket_ held.  Add refuses what is longer than the
\* buffer, and the event is pushed all the same.  (Nothing arrives any more on a
\* connection that was closed after a failed read.)
EpollReadCallback(f) ==
  /\ ~crashed
  /\ epoll = Idle /\ mutex = None
  /\ f \in kernel /\ Open(f) /\ reads < MaxReads
  /\ reads' = reads + 1
  /\ \/ receive_buffers[f] = Null
        /\ crashed' = TRUE
        /\ UNCHANGED <<receive_buffers, receive_events, mutex, epoll, full, oversized>>
     \/ receive_buffers[f] = BufferSize
        /\ full' = TRUE /\ mutex' = "epoll"
        /\ epoll' = [step |-> "add", fd |-> f, valid |-> TRUE]
        /\ UNCHANGED <<receive_buffers, receive_events, crashed, oversized>>
     \/ receive_buffers[f] \in 0 .. BufferSize - 1
        /\ receive_buffers' = Plus(receive_buffers, f)
        /\ receive_events' = Plus(receive_events, f)
        /\ UNCHANGED <<mutex, epoll, full, crashed, oversized>>
     \/ receive_buffers[f] \in 0 .. BufferSize
        /\ oversized' = TRUE
        /\ receive_events' = Plus(receive_events, f)
        /\ UNCHANGED <<receive_buffers, mutex, epoll, full, crashed>>
  /\ UNCHANGED <<kernel, send_buffers, connector, send_events, local, pc, sender,
                 shorts, reused, misread, sends, failures, opens>>

\* RemoveSocketResource deletes the buffers and the connector; the events of the
\* socket stay in the queues, and a sender keeps its iterator.
RemoveSocketResource(f) ==
  /\ send_buffers' = [send_buffers EXCEPT ![f] = None]
  /\ receive_buffers' = [receive_buffers EXCEPT ![f] = None]
  /\ connector' = [connector EXCEPT ![f] = "none"]
  /\ sender' = IF sender.fd = f THEN [sender EXCEPT !.valid = FALSE] ELSE sender

\* SocketClose looks for a master's socket under the address of the peer, and
\* deletes it, which closes the descriptor: the one that is being closed, none,
\* or, when the connection was reset, so that getpeername fails and the address
\* is what the stack holds, possibly another one.
DeleteMasterSocket(f) ==
  \/ kernel' \in {kernel, kernel \ {f}} /\ UNCHANGED misread
  \/ \E g \in Fds \ {f} : g \in kernel /\ kernel' = kernel \ {g} /\ misread' = TRUE

\* Mutant of SocketClose: the buffers stay.
SocketCloseOnly(f) ==
  /\ ~crashed
  /\ mutex = None
  /\ epoll = Idle /\ f \in kernel
  /\ DeleteMasterSocket(f)
  /\ epoll' = [step |-> "remove", fd |-> f, valid |-> TRUE]
  /\ UNCHANGED <<buffers, sender, events, local, mutex, pc, shorts, reused,
                 oversized, full, crashed, bounds>>

\* close_callback, for an event of its own or after the read_callback of the
\* same event.
SocketClose(f) ==
  /\ ~crashed
  /\ mutex = None
  /\ \/ epoll = Idle /\ f \in kernel
     \/ epoll.step = "close" /\ epoll.fd = f
  /\ RemoveSocketResource(f)
  /\ DeleteMasterSocket(f)
  /\ epoll' = [step |-> "remove", fd |-> f, valid |-> TRUE]
  /\ UNCHANGED <<events, local, mutex, pc, shorts, reused, oversized, full,
                 crashed, bounds>>

\* The read fails: EpollReadCallback calls SocketClose itself.  The event may
\* also say that the connection is down, and then close_callback comes next.
ReadError(f) ==
  /\ ~crashed
  /\ mutex = None
  /\ epoll = Idle /\ f \in kernel /\ Open(f)
  /\ RemoveSocketResource(f)
  /\ DeleteMasterSocket(f)
  /\ epoll' \in {Idle, [step |-> "close", fd |-> f, valid |-> TRUE]}
  /\ UNCHANGED <<events, local, mutex, pc, shorts, reused, oversized, full,
                 crashed, bounds>>

\* After the callback: Epoller::RemoveFromPollEvent closes the descriptor.
RemoveFromPollEvent ==
  /\ ~crashed
  /\ epoll.step = "remove"
  /\ kernel' = kernel \ {epoll.fd}
  /\ epoll' = Idle
  /\ UNCHANGED <<buffers, events, local, mutex, pc, sender, shorts, history, full,
                 crashed, bounds>>

\* Something of the descriptor's previous connection is still to come.
Leftovers(f) ==
  \/ receive_buffers[f] = Null
  \/ receive_events[f] + queue_receive[f] > 0
  \/ epoll.step \in {"close", "remove"} /\ epoll.fd = f
  \/ Open(f)

\* AddSocketResource for a new connection, accepted (by the epoll thread) or
\* made by ConnectMaster (in any thread): buffers and connector are made where
\* the key is missing.
AddSocketResource(f) ==
  /\ ~crashed
  /\ mutex = None
  /\ f \notin kernel /\ opens < MaxOpens
  /\ opens' = opens + 1
  /\ kernel' = kernel \cup {f}
  /\ send_buffers' = [send_buffers EXCEPT ![f] = IF @ = None THEN 0 ELSE @]
  /\ receive_buffers' = [receive_buffers EXCEPT ![f] = IF @ = None THEN 0 ELSE @]
  /\ connector' = [connector EXCEPT ![f] = IF Open(f) THEN @ ELSE "none"]
  /\ shorts' = [shorts EXCEPT ![f] = IF Open(f) THEN @ ELSE 0]
  /\ reused' = (reused \/ Leftovers(f))
  /\ UNCHANGED <<events, local, mutex, pc, sender, epoll, misread,
                 oversized, full, crashed, reads, sends, failures>>

EpollThread ==
  \/ RemoveFromPollEvent
  \/ \E f \in Fds : EpollReadCallback(f) \/ ReadError(f) \/ SocketClose(f)

Next == SocketThread \/ HeartBeatThread \/ EpollThread
        \/ \E f \in Fds : AddSocketResource(f)

Spec == Init /\ [][Next]_vars

\* The operating system runs the threads that are not blocked; nobody has to
\* send, to connect or to close.
Fairness ==
  /\ WF_vars(SocketThread)
  /\ WF_vars(AddToBuffer \/ PushEvent)
  /\ WF_vars(RemoveFromPollEvent)
  /\ WF_vars(epoll.step = "close" /\ \E f \in Fds : SocketClose(f))

FairSpec == Spec /\ Fairness

-----------------------------------------------------------------------------
(* Properties *)

\* Tracker::SocketThread calls the blocking Remove with mutex_socket_ held: it
\* finds a message there, since each event was queued with one, as long as no
\* read was longer than the buffer (tracker.cc:344 ignores what Add says) and no
\* descriptor was used again before the events of its last connection are gone.
NoBlockedRemove == pc.step = "remove" => reused \/ oversized

\* No thread uses a deleted queue or a NULL buffer, unless HeartBeatThread was
\* sending while the epoll thread closed the socket (tracker.cc:293-304), or a
\* descriptor was used again before the events of its last connection are gone
\* (tracker.cc:461, 370).
CrashOnlyByLeftovers == crashed => reused \/ ~sender.valid

\* Connector::Send makes one send() per event: on a socket without a failed
\* send, the messages no event is left for are at most as many as there were
\* short sends.  So without a short send everything is sent.
UnsentOnlyAfterShortSend ==
  \A f \in Fds : Open(f) /\ connector[f] # "wrapped" =>
    send_buffers[f] + (IF connector[f] = "none" THEN 0 ELSE 1) <=
      send_events[f] + queue_send[f] + shorts[f]
      + IF sender.step = "push" /\ sender.fd = f THEN 1 ELSE 0

\* Tracker::SocketClose and Epoller::RemoveFromPollEvent both close the
\* descriptor, and SocketClose may run twice for one event: a connection that
\* has buffers keeps its descriptor, unless the descriptor was handed out again
\* between the two, or the address of a peer was taken for another's.
OpenDescriptor == reused \/ misread \/ \A f \in Fds : Open(f) => f \in kernel

\* Tracker::SocketThread: each event is handled in the end, unless a thread that
\* holds mutex_socket_ waits for ever: for room in a full buffer, which only
\* SocketThread could empty, or for the message of an event that came without
\* one.
EventsHandled ==
  \A f \in Fds : send_events[f] + receive_events[f] > 0 ~>
    (send_events[f] + receive_events[f] = 0
     \/ full \/ oversized \/ reused \/ crashed)
=============================================================================
