------------------------ MODULE MasterElectionProofs ------------------------
(***************************************************************************)
(* Proofs about MasterElection, for a group of any size, any number of     *)
(* crashes, starts and merged reads.  What the proofs rest on is what the  *)
(* messages of an election carry: a COORDINATOR names a master of          *)
(* tracker_group, whoever started the round and whatever a read merged.    *)
(***************************************************************************)
EXTENDS MasterElection, SequenceTheorems, WellFoundedInduction, TLAPS

\* What masters send each other: a COORDINATOR message announces somebody.
Messages == {g \in TrackerProtocol :
               g.protocol_type = "COORDINATOR" => g.response_result # None}

Sockets == [Masters -> {"none", "open", "broken", "stale"}]
Channels == [Masters -> [Masters -> Seq(Messages)]]

IInv == TypeOK /\ chan \in Channels

\* In this step m forgets its primary and goes on running.
GivenUp(m) ==
  primary_sockaddr[m] # None /\ primary_sockaddr'[m] = None /\ m \in up'

\* SocketClose and ProtocolProcess: a master that goes on running gives up its
\* primary only when the socket to that primary broke, or when another socket
\* broke whose peer getpeername could not tell.  Neither a COORDINATOR nor a
\* merged message makes it forget the primary.
PrimaryGivenUpWhenBroken ==
  [][\A m \in Masters : GivenUp(m) =>
       \/ master_sockets[m][primary_sockaddr[m]] = "broken"
       \/ resets' > resets]_vars

-----------------------------------------------------------------------------
(* Choices *)

\* A set of numbers has a least one.
LEMMA Least ==
  ASSUME NEW S \in SUBSET Nat, S # {}
  PROVE  \E m \in S : \A n \in S : m <= n
  <1>1. PICK m \in S : \A n \in S : ~(<<n, m>> \in OpToRel(<, Nat))
    BY NatLessThanWellFounded, WFMin
  <1>2. \A n \in S : ~(n < m)
    BY <1>1 DEF OpToRel
  <1> QED
    BY <1>2

\* A member of the group is a number and not the empty address.
LEMMA MastersType == Masters \subseteq Nat \ {0} /\ None \notin Masters
  BY GroupAssumption DEF Masters, None

\* NextMasterAddress leads from one master to another in less than a round.
LEMMA DistanceType ==
  ASSUME NEW m \in Masters, NEW x \in Masters
  PROVE  Distance(m, x) \in Nat
  BY GroupAssumption DEF Masters, Distance

\* FindNextMaster finds another master, or none.
LEMMA FindNextMasterType ==
  ASSUME NEW m \in Masters, NEW s
  PROVE  FindNextMaster(m, s) \in (Masters \ {m}) \cup {None}
  <1> DEFINE found == {x \in Masters \ {m} : CanConnect(s, x)}
             D == {Distance(m, x) : x \in found}
  <1>1. CASE found = {}
    BY <1>1 DEF FindNextMaster
  <1>2. CASE found # {}
    <2>1. D \in SUBSET Nat /\ D # {}
      BY <1>2, DistanceType
    <2>2. PICK d \in D : \A n \in D : d <= n
      BY <2>1, Least
    <2>3. \E x \in found : \A y \in found : Distance(m, x) <= Distance(m, y)
      BY <2>2
    <2>4. FindNextMaster(m, s) \in found
      BY <1>2, <2>3 DEF FindNextMaster
    <2> QED
      BY <2>4
  <1> QED
    BY <1>1, <1>2

\* The elected master is one the message passed, or the one that closes the circle.
LEMMA ElectedType ==
  ASSUME NEW m \in Masters, NEW g \in Messages
  PROVE  Elected(m, g) \in Masters
  <1> DEFINE S == g.response_sock_addr \cup {m}
             D == {GroupSize - x : x \in S}
  <1>1. S \subseteq Masters /\ S # {}
    BY DEF Messages, TrackerProtocol
  <1>2. D \in SUBSET Nat /\ D # {}
    BY <1>1, GroupAssumption DEF Masters
  <1>3. PICK d \in D : \A n \in D : d <= n
    BY <1>2, Least
  <1>4. PICK x \in S : d = GroupSize - x
    BY <1>3
  <1>5. \A y \in S : GroupSize - x <= GroupSize - y
    BY <1>3, <1>4
  <1>6. \A y \in S : x >= y
    <2>1. GroupSize \in Nat /\ S \subseteq Nat
      BY <1>1, GroupAssumption, MastersType
    <2> QED
      BY <1>5, <2>1
  <1>7. Max(S) \in S
    BY <1>6 DEF Max
  <1> QED
    BY <1>1, <1>7 DEF Elected

-----------------------------------------------------------------------------
(* Sockets and messages *)

\* ConnectMaster opens a socket, or leaves all as they are.
LEMMA ConnectMasterType ==
  ASSUME NEW s \in Sockets, NEW x
  PROVE  ConnectMaster(s, x) \in Sockets
  BY DEF ConnectMaster, Sockets

\* A master starts a round with a message that is no announcement.
LEMMA NewMessageType ==
  ASSUME NEW m \in Masters, NEW type \in ProtocolType
  PROVE  /\ NewTrackerProtocol(m, type) \in TrackerProtocol
         /\ type # "COORDINATOR" => NewTrackerProtocol(m, type) \in Messages
         /\ NewTrackerProtocol(m, type).protocol_type = type
  BY DEF NewTrackerProtocol, TrackerProtocol, Messages

\* The fields that handlers write keep a message a message.
LEMMA MessageFields ==
  ASSUME NEW g \in Messages
  PROVE  /\ \A m \in Masters : [g EXCEPT !.response_sock_addr = @ \cup {m}] \in Messages
         /\ \A A \in SUBSET Masters : [g EXCEPT !.request_args = A] \in Messages
         /\ g.response_result \in Masters \cup {None}
         /\ g.request_sock_addr \in Masters
         /\ g.protocol_type \in ProtocolType
         /\ \A x \in Masters \cup {None} :
              g.response_result = None => [g EXCEPT !.response_result = x] \in Messages
  <1> USE DEF Messages, TrackerProtocol
  <1>1. g \in TrackerProtocol /\ (g.protocol_type = "COORDINATOR" => g.response_result # None)
    OBVIOUS
  <1>2. \A m \in Masters : [g EXCEPT !.response_sock_addr = @ \cup {m}] \in Messages
    BY <1>1
  <1>3. \A A \in SUBSET Masters : [g EXCEPT !.request_args = A] \in Messages
    BY <1>1
  <1>4. \A x \in Masters \cup {None} :
          g.response_result = None => [g EXCEPT !.response_result = x] \in Messages
    BY <1>1
  <1> QED
    BY <1>1, <1>2, <1>3, <1>4

\* SendProtocol adds a message to a channel, or loses it.
LEMMA SendProtocolType ==
  ASSUME NEW m \in Masters, NEW x \in Masters, NEW s, NEW c \in Channels, NEW g \in Messages
  PROVE  SendProtocol(m, s, c, x, g) \in Channels
  <1>1. PICK h : h = [g EXCEPT !.response_sock_addr = @ \cup {m}]
    OBVIOUS
  <1>2. h \in Messages
    BY <1>1, MessageFields
  <1>3. c[m][x] \in Seq(Messages)
    BY DEF Channels
  <1>4. Append(c[m][x], h) \in Seq(Messages)
    BY <1>2, <1>3, AppendProperties
  <1>5. [c EXCEPT ![m][x] = Append(c[m][x], h)] \in Channels
    BY <1>4 DEF Channels
  <1> QED
    BY <1>1, <1>5 DEF SendProtocol

\* SendToNext changes the sockets of its master and the channels.
LEMMA SendToNextType ==
  ASSUME TypeOK, NEW m \in Masters, NEW s \in Sockets, NEW c \in Channels, NEW g \in Messages,
         SendToNext(m, s, c, g)
  PROVE  /\ master_sockets' \in [Masters -> Sockets]
         /\ chan' \in Channels
  <1>1. PICK next : next = FindNextMaster(m, s)
    OBVIOUS
  <1>2. PICK t : t = ConnectMaster(s, next)
    OBVIOUS
  <1>3. next \in Masters \cup {None} /\ t \in Sockets
    BY <1>1, <1>2, FindNextMasterType, ConnectMasterType
  <1>4. \/ master_sockets' = [master_sockets EXCEPT ![m] = s] /\ chan' = c
        \/ /\ next # None
           /\ master_sockets' = [master_sockets EXCEPT ![m] = t]
           /\ chan' = SendProtocol(m, t, c, next, g)
    BY <1>1, <1>2 DEF SendToNext
  <1>5. master_sockets \in [Masters -> Sockets]
    BY DEF TypeOK, Sockets
  <1>6. chan' \in Channels
    BY <1>3, <1>4, SendProtocolType
  <1> QED
    BY <1>3, <1>4, <1>5, <1>6

\* What is typed as a message of an election is typed as a message.
LEMMA ChannelsType == Channels \subseteq [Masters -> [Masters -> Seq(TrackerProtocol)]]
  <1>1. Messages \subseteq TrackerProtocol
    BY DEF Messages
  <1>2. Seq(Messages) \subseteq Seq(TrackerProtocol)
    BY <1>1, SeqMonotonic
  <1> QED
    BY <1>2 DEF Channels

-----------------------------------------------------------------------------
(* Handlers *)

\* A handler leaves every variable in its range and makes no master forget its
\* primary.
Handled ==
  /\ master_sockets' \in [Masters -> Sockets]
  /\ chan' \in Channels
  /\ primary_sockaddr' \in [Masters -> Masters \cup {None}]
  /\ upgraded' \subseteq up
  /\ \A n \in Masters : primary_sockaddr'[n] = None => primary_sockaddr[n] = None

\* Setting the primary of one master to another master.
LEMMA SetPrimaryType ==
  ASSUME TypeOK, NEW m \in Masters, NEW x \in Masters, SetPrimary(m, x)
  PROVE  /\ primary_sockaddr' \in [Masters -> Masters \cup {None}]
         /\ \A n \in Masters : primary_sockaddr'[n] = None => primary_sockaddr[n] = None
  BY MastersType DEF TypeOK, SetPrimary

\* A master that is alone leads; another one asks the next.
LEMMA AskNextOrLeadType ==
  ASSUME TypeOK, NEW m \in up, NEW c \in Channels, NEW g \in Messages, AskNextOrLead(m, c, g)
  PROVE  Handled
  <1>1. m \in Masters /\ master_sockets \in [Masters -> Sockets] /\ master_sockets[m] \in Sockets
    BY DEF TypeOK, Sockets
  <1>2. CASE FindNextMaster(m, master_sockets[m]) = None
    BY <1>1, <1>2, SetPrimaryType DEF AskNextOrLead, UpgradeTracker, TypeOK, Handled
  <1>3. CASE FindNextMaster(m, master_sockets[m]) # None
    <2>1. SendToNext(m, master_sockets[m], c, g) /\ UNCHANGED <<primary_sockaddr, upgraded>>
      BY <1>3 DEF AskNextOrLead
    <2>2. master_sockets' \in [Masters -> Sockets] /\ chan' \in Channels
      BY <1>1, <2>1, SendToNextType
    <2> QED
      BY <2>1, <2>2 DEF TypeOK, Handled
  <1> QED
    BY <1>2, <1>3

\* Case ELECTION: whoever closes the circle announces a master.
LEMMA ElectionHandled ==
  ASSUME TypeOK, NEW m \in up, NEW c \in Channels, NEW g \in Messages, HandleElection(m, g, c)
  PROVE  Handled
  <1>1. m \in Masters /\ master_sockets[m] \in Sockets
    BY DEF TypeOK, Sockets
  <1>2. CASE ClosedCircle(m, g)
    <2>1. PICK x : x = Elected(m, g)
      OBVIOUS
    <2>2. x \in Masters
      BY <1>1, <2>1, ElectedType
    <2>3. PICK h : h = [NewTrackerProtocol(m, "COORDINATOR") EXCEPT !.response_result = x]
      OBVIOUS
    <2>4. h \in Messages
      BY <1>1, <2>2, <2>3, NewMessageType, MastersType
         DEF Messages, TrackerProtocol, ProtocolType
    <2>5. AskNextOrLead(m, c, h)
      BY <1>2, <2>1, <2>3 DEF HandleElection, Coordinator
    <2> QED
      BY <2>4, <2>5, AskNextOrLeadType
  <1>3. CASE ~ClosedCircle(m, g)
    <2>1. SendToNext(m, master_sockets[m], c, g) /\ UNCHANGED <<primary_sockaddr, upgraded>>
      BY <1>3 DEF HandleElection
    <2>2. master_sockets' \in [Masters -> Sockets] /\ chan' \in Channels
      BY <1>1, <2>1, SendToNextType
    <2> QED
      BY <2>1, <2>2 DEF TypeOK, Handled
  <1> QED
    BY <1>2, <1>3

\* JoinMasterGroup connects the primary and tells it.
LEMMA JoinType ==
  ASSUME TypeOK, NEW m \in Masters, NEW x \in Masters, NEW c \in Channels
  PROVE  JoinSockets(m, x) \in Sockets /\ JoinMasterGroup(m, c, x) \in Channels
  <1>1. master_sockets[m] \in Sockets
    BY DEF TypeOK, Sockets
  <1>2. JoinSockets(m, x) \in Sockets
    BY <1>1, ConnectMasterType DEF JoinSockets
  <1>3. NewTrackerProtocol(m, "MASTER_JOIN_GROUP") \in Messages
    BY NewMessageType DEF ProtocolType
  <1>4. JoinMasterGroup(m, c, x) \in Channels
    BY <1>3, SendProtocolType DEF JoinMasterGroup
  <1> QED
    BY <1>2, <1>4

\* Case COORDINATOR: the announced master is taken for the primary.
LEMMA CoordinatorHandled ==
  ASSUME TypeOK, NEW m \in up, NEW c \in Channels, NEW g \in Messages, HandleCoordinator(m, g, c)
  PROVE  Handled
  <1>1. m \in Masters /\ master_sockets \in [Masters -> Sockets]
    BY DEF TypeOK, Sockets
  <1>2. g.response_result \in Masters
    BY MessageFields DEF HandleCoordinator, Messages
  <1>3. /\ primary_sockaddr' \in [Masters -> Masters \cup {None}]
        /\ \A n \in Masters : primary_sockaddr'[n] = None => primary_sockaddr[n] = None
    BY <1>1, <1>2, SetPrimaryType DEF HandleCoordinator
  <1>4. CASE ClosedCircle(m, g)
    BY <1>1, <1>3, <1>4 DEF HandleCoordinator, UpgradeTracker, TypeOK, Handled
  <1>5. CASE ~ClosedCircle(m, g)
    <2>1. /\ SendToNext(m, JoinSockets(m, g.response_result),
                        JoinMasterGroup(m, c, g.response_result), g)
          /\ UNCHANGED upgraded
      BY <1>5 DEF HandleCoordinator
    <2>2. /\ JoinSockets(m, g.response_result) \in Sockets
          /\ JoinMasterGroup(m, c, g.response_result) \in Channels
      BY <1>1, <1>2, JoinType
    <2>3. master_sockets' \in [Masters -> Sockets] /\ chan' \in Channels
      BY <1>1, <2>1, <2>2, SendToNextType
    <2> QED
      BY <1>3, <2>1, <2>3 DEF TypeOK, Handled
  <1> QED
    BY <1>4, <1>5

\* Case MASTER_ASK_TRACKER: what came back is learned, doubts end in an election.
LEMMA AskTrackerHandled ==
  ASSUME TypeOK, NEW m \in up, NEW c \in Channels, NEW g \in Messages, HandleAskTracker(m, g, c)
  PROVE  Handled
  <1>1. m \in Masters /\ master_sockets \in [Masters -> Sockets] /\ master_sockets[m] \in Sockets
    BY DEF TypeOK, Sockets
  <1>2. CASE Election(m, c)
    <2>1. NewTrackerProtocol(m, "ELECTION") \in Messages
      BY <1>1, NewMessageType DEF ProtocolType
    <2> QED
      BY <1>2, <2>1, AskNextOrLeadType DEF Election
  <1>3. CASE /\ g.response_result # None
             /\ SetPrimary(m, g.response_result)
             /\ master_sockets' =
                  [master_sockets EXCEPT ![m] = JoinSockets(m, g.response_result)]
             /\ chan' = JoinMasterGroup(m, c, g.response_result)
             /\ UNCHANGED upgraded
    <2>1. g.response_result \in Masters
      BY <1>3, MessageFields
    <2>2. /\ JoinSockets(m, g.response_result) \in Sockets
          /\ JoinMasterGroup(m, c, g.response_result) \in Channels
      BY <1>1, <2>1, JoinType
    <2>3. /\ primary_sockaddr' \in [Masters -> Masters \cup {None}]
          /\ \A n \in Masters : primary_sockaddr'[n] = None => primary_sockaddr[n] = None
      BY <1>1, <1>3, <2>1, SetPrimaryType
    <2> QED
      BY <1>1, <1>3, <2>2, <2>3 DEF TypeOK, Handled
  <1>4. CASE /\ SendToNext(m, master_sockets[m], c,
                   IF g.response_result # None THEN g
                   ELSE [g EXCEPT !.response_result = primary_sockaddr[m]])
             /\ UNCHANGED <<primary_sockaddr, upgraded>>
    <2>1. PICK h : h = IF g.response_result # None THEN g
                       ELSE [g EXCEPT !.response_result = primary_sockaddr[m]]
      OBVIOUS
    <2>2. primary_sockaddr[m] \in Masters \cup {None}
      BY <1>1 DEF TypeOK
    <2>3. h \in Messages
      BY <2>1, <2>2, MessageFields
    <2>4. SendToNext(m, master_sockets[m], c, h)
      BY <1>4, <2>1
    <2>5. master_sockets' \in [Masters -> Sockets] /\ chan' \in Channels
      BY <1>1, <2>3, <2>4, SendToNextType
    <2> QED
      BY <1>4, <2>5 DEF TypeOK, Handled
  <1> QED
    BY <1>2, <1>3, <1>4 DEF HandleAskTracker, LearnPrimary

\* The primary tells the ring who is in the group.
LEMMA GroupChangedType ==
  ASSUME TypeOK, NEW m \in Masters, NEW s \in Sockets, NEW c \in Channels,
         MasterGroupChanged(m, s, c)
  PROVE  master_sockets' \in [Masters -> Sockets] /\ chan' \in Channels
  <1>1. master_sockets \in [Masters -> Sockets]
    BY DEF TypeOK, Sockets
  <1>2. CASE IAmPrimaryMaster(m)
    <2>1. PICK A : A = {m} \cup {x \in Masters : s[x] # "none"}
      OBVIOUS
    <2>2. PICK h : h = [NewTrackerProtocol(m, "MASTER_GROUP_CHANGED") EXCEPT !.request_args = A]
      OBVIOUS
    <2>3. A \in SUBSET Masters /\ NewTrackerProtocol(m, "MASTER_GROUP_CHANGED") \in Messages
      BY <2>1, NewMessageType DEF ProtocolType
    <2>4. h \in Messages
      BY <2>2, <2>3, MessageFields
    <2>5. SendToNext(m, s, c, h)
      BY <1>2, <2>1, <2>2 DEF MasterGroupChanged
    <2> QED
      BY <2>4, <2>5, SendToNextType
  <1>3. CASE ~IAmPrimaryMaster(m)
    BY <1>1, <1>3 DEF MasterGroupChanged
  <1> QED
    BY <1>2, <1>3

\* Cases MASTER_JOIN_GROUP and MASTER_GROUP_CHANGED open sockets only.
LEMMA GroupHandled ==
  ASSUME TypeOK, NEW m \in up, NEW c \in Channels, NEW g \in Messages,
         HandleJoinGroup(m, g, c) \/ HandleGroupChanged(m, g, c)
  PROVE  Handled
  <1>1. m \in Masters /\ master_sockets \in [Masters -> Sockets] /\ master_sockets[m] \in Sockets
    BY DEF TypeOK, Sockets
  <1>2. UNCHANGED <<primary_sockaddr, upgraded>>
    BY DEF HandleJoinGroup, HandleGroupChanged
  <1>3. CASE HandleJoinGroup(m, g, c)
    <2>1. ConnectMaster(master_sockets[m], g.request_sock_addr) \in Sockets
      BY <1>1, ConnectMasterType
    <2>2. master_sockets' \in [Masters -> Sockets] /\ chan' \in Channels
      BY <1>1, <1>3, <2>1, GroupChangedType DEF HandleJoinGroup
    <2> QED
      BY <1>2, <2>2 DEF TypeOK, Handled
  <1>4. CASE HandleGroupChanged(m, g, c)
    <2>1. PICK s : s = [x \in Masters |-> IF x \in g.request_args \ {m}
                                          THEN ConnectMaster(master_sockets[m], x)[x]
                                          ELSE master_sockets[m][x]]
      OBVIOUS
    <2>2. \A x \in Masters : ConnectMaster(master_sockets[m], x) \in Sockets
      BY <1>1, ConnectMasterType
    <2>3. s \in Sockets
      BY <1>1, <2>1, <2>2 DEF Sockets
    <2>4. (chan' = c /\ master_sockets' = master_sockets) \/ SendToNext(m, s, c, g)
      BY <1>4, <2>1 DEF HandleGroupChanged
    <2>5. master_sockets' \in [Masters -> Sockets] /\ chan' \in Channels
      BY <1>1, <2>3, <2>4, SendToNextType
    <2> QED
      BY <1>2, <2>5 DEF TypeOK, Handled
  <1> QED
    BY <1>3, <1>4

-----------------------------------------------------------------------------
(* Steps *)

\* A step that leaves all in range, with the masters that give up their primary.
Stepped ==
  /\ up' \subseteq Masters
  /\ primary_sockaddr' \in [Masters -> Masters \cup {None}]
  /\ master_sockets' \in [Masters -> Sockets]
  /\ chan' \in Channels
  /\ upgraded' \subseteq up'
  /\ starts' \in 0 .. MaxStarts /\ crashes' \in 0 .. MaxCrashes
  /\ merges' \in 0 .. MaxMerges /\ resets' \in 0 .. MaxResets
  /\ beat' \in [Masters -> Beats]
  /\ late' \in BOOLEAN
  /\ \A m \in Masters : GivenUp(m) =>
       \/ master_sockets[m][primary_sockaddr[m]] = "broken"
       \/ resets' > resets

\* ProtocolProcess takes the oldest message of a channel and handles it.
LEMMA ProtocolProcessStep ==
  ASSUME IInv, NEW x \in Masters, NEW m \in Masters, ProtocolProcess(x, m)
  PROVE  Stepped
  <1>0. TypeOK /\ chan \in Channels /\ m \in up
    BY DEF IInv, ProtocolProcess
  <1>1. chan[x][m] \in Seq(Messages) /\ chan[x][m] # <<>>
    BY <1>0 DEF Channels, ProtocolProcess
  <1>2. PICK g : g = Head(chan[x][m])
    OBVIOUS
  <1>3. PICK c : c = [chan EXCEPT ![x][m] = Tail(chan[x][m])]
    OBVIOUS
  <1>4. g \in Messages /\ Tail(chan[x][m]) \in Seq(Messages)
    BY <1>1, <1>2, HeadTailProperties
  <1>5. c \in Channels
    BY <1>0, <1>3, <1>4 DEF Channels
  <1>6. /\ \/ HandleElection(m, g, c) \/ HandleCoordinator(m, g, c)
           \/ HandleAskTracker(m, g, c) \/ HandleJoinGroup(m, g, c)
           \/ HandleGroupChanged(m, g, c)
        /\ UNCHANGED <<up, beat, late, starts, crashes, merges, resets>>
    BY <1>2, <1>3 DEF ProtocolProcess, counts
  <1>7. Handled
    BY <1>0, <1>4, <1>5, <1>6, ElectionHandled, CoordinatorHandled, AskTrackerHandled,
       GroupHandled
  <1> QED
    BY <1>0, <1>6, <1>7 DEF Handled, Stepped, TypeOK, GivenUp

\* A heartbeat waits, looks for a master or has found one.
LEMMA BeatTypes ==
  ASSUME NEW m \in Masters
  PROVE  /\ Waiting(m) \in Beats
         /\ NextMasterAddress(m) \in Masters
         /\ \A b \in Beats : /\ b.next \in Masters
                             /\ b.round \in ProtocolType \ {"COORDINATOR"}
                             /\ [b EXCEPT !.step = "send"] \in Beats
                             /\ [b EXCEPT !.next = m] \in Beats
         /\ \A type \in {"MASTER_ASK_TRACKER", "ELECTION"} :
              [step |-> "find", round |-> type, next |-> m] \in Beats
  <1>1. NextMasterAddress(m) \in Masters
    BY GroupAssumption DEF NextMasterAddress, Masters
  <1> QED
    BY <1>1 DEF Waiting, Beats, ProtocolType

\* A process that ends takes its sockets and its role with it.
LEMMA EndsType ==
  ASSUME IInv, NEW m \in Masters, Ends(m)
  PROVE  /\ up' = up \ {m} /\ up' \subseteq Masters /\ upgraded' \subseteq up'
         /\ beat' \in [Masters -> Beats]
         /\ primary_sockaddr' \in [Masters -> Masters \cup {None}]
         /\ master_sockets' \in [Masters -> Sockets]
         /\ chan' \in Channels
         /\ \A n \in Masters :
              primary_sockaddr[n] # None /\ primary_sockaddr'[n] = None => n \notin up'
  <1>1. TypeOK /\ chan \in Channels /\ master_sockets \in [Masters -> Sockets]
    BY DEF IInv, TypeOK, Sockets
  <1>2. master_sockets' \in [Masters -> Sockets]
    BY <1>1 DEF Ends, NoSockets, Sockets
  <1>3. chan' \in Channels
    <2>1. <<>> \in Seq(Messages)
      BY EmptySeq
    <2> QED
      BY <1>1, <2>1 DEF Ends, Channels
  <1>4. up' = up \ {m} /\ up' \subseteq Masters /\ upgraded' \subseteq up'
    BY <1>1 DEF Ends, TypeOK
  <1>5. /\ primary_sockaddr' \in [Masters -> Masters \cup {None}]
        /\ \A n \in Masters :
             primary_sockaddr[n] # None /\ primary_sockaddr'[n] = None => n \notin up'
    BY <1>1 DEF Ends, TypeOK
  <1>6. beat' \in [Masters -> Beats]
    BY <1>1, BeatTypes DEF Ends, TypeOK
  <1> QED
    BY <1>2, <1>3, <1>4, <1>5, <1>6

\* The steps of HeartBeat.
LEMMA HeartBeatStepped ==
  ASSUME IInv, NEW m \in Masters, HeartBeat(m)
  PROVE  Stepped
  <1> USE DEF counts
  <1>0. /\ TypeOK /\ chan \in Channels /\ master_sockets \in [Masters -> Sockets]
        /\ beat[m] \in Beats /\ beat \in [Masters -> Beats] /\ late \in BOOLEAN
    BY DEF IInv, TypeOK, Sockets
  <1>1. CASE HeartBeatAsks(m)
    <2>1. beat' \in [Masters -> Beats]
      BY <1>0, <1>1, BeatTypes DEF HeartBeatAsks, Find, SetBeat
    <2>2. UNCHANGED <<up, primary_sockaddr, master_sockets, chan, upgraded, late,
                      starts, crashes, merges, resets>>
      BY <1>1 DEF HeartBeatAsks
    <2> QED
      BY <1>0, <2>1, <2>2 DEF Stepped, TypeOK, GivenUp
  <1>2. CASE HeartBeatConnects(m)
    <2>1. PICK x \in Masters : x = beat[m].next
      BY <1>0, BeatTypes
    <2>2. [beat[m] EXCEPT !.step = "send"] \in Beats
      BY <1>0, BeatTypes
    <2>3. [beat[m] EXCEPT !.next = NextMasterAddress(x)] \in Beats
      BY <1>0, BeatTypes
    <2>4. beat' \in [Masters -> Beats]
      BY <1>0, <1>2, <2>1, <2>2, <2>3 DEF HeartBeatConnects, SetBeat
    <2>5. ConnectMaster(master_sockets[m], x) \in Sockets
      BY <1>0, ConnectMasterType
    <2>6. master_sockets' \in [Masters -> Sockets]
      BY <1>0, <1>2, <2>1, <2>5 DEF HeartBeatConnects
    <2>7. UNCHANGED <<up, primary_sockaddr, chan, upgraded, late,
                      starts, crashes, merges, resets>>
      BY <1>2 DEF HeartBeatConnects
    <2> QED
      BY <1>0, <2>4, <2>6, <2>7 DEF Stepped, TypeOK, GivenUp
  <1>3. CASE HeartBeatFindsNobody(m)
    <2>1. UNCHANGED <<up, master_sockets, chan, starts, crashes, merges, resets>>
      BY <1>3 DEF HeartBeatFindsNobody
    <2>2. m \in up
      BY <1>3 DEF HeartBeatFindsNobody, BeatAt
    <2>3. beat' \in [Masters -> Beats]
      <3>1. PICK b : b \in Beats /\ beat' = [beat EXCEPT ![m] = b]
        BY <1>3, BeatTypes DEF HeartBeatFindsNobody, Find, SetBeat
      <3> QED
        BY <1>0, <3>1
    <2>4. late' \in BOOLEAN
      BY <1>0, <1>3 DEF HeartBeatFindsNobody, Overtaken
    <2>5. SetPrimary(m, m) \/ primary_sockaddr' = primary_sockaddr
      BY <1>3 DEF HeartBeatFindsNobody
    <2>6. /\ primary_sockaddr' \in [Masters -> Masters \cup {None}]
          /\ \A n \in Masters : primary_sockaddr'[n] = None => primary_sockaddr[n] = None
      BY <1>0, <2>5, SetPrimaryType DEF TypeOK
    <2>7. upgraded' \subseteq up
      BY <1>0, <1>3, <2>2 DEF HeartBeatFindsNobody, UpgradeTracker, TypeOK
    <2> QED
      BY <1>0, <2>1, <2>3, <2>4, <2>6, <2>7 DEF Stepped, TypeOK, GivenUp
  <1>4. CASE HeartBeatSends(m)
    <2>1. UNCHANGED <<starts, crashes, merges, resets>>
      BY <1>4 DEF HeartBeatSends
    <2>2. CASE Ends(m) /\ UNCHANGED late
      BY <1>0, <2>1, <2>2, EndsType DEF Stepped, TypeOK, GivenUp
    <2>3. CASE /\ chan' = SendProtocol(m, master_sockets[m], chan, beat[m].next,
                                      NewTrackerProtocol(m, beat[m].round))
               /\ SetBeat(m, Waiting(m))
               /\ late' = (late \/ Overtaken(m))
               /\ UNCHANGED <<up, primary_sockaddr, master_sockets, upgraded>>
      <3>1. beat[m].next \in Masters /\ beat[m].round \in ProtocolType \ {"COORDINATOR"}
        BY <1>0, BeatTypes
      <3>2. NewTrackerProtocol(m, beat[m].round) \in Messages
        BY <3>1, NewMessageType
      <3>3. chan' \in Channels
        BY <1>0, <2>3, <3>1, <3>2, SendProtocolType
      <3>4. beat' \in [Masters -> Beats]
        BY <1>0, <2>3, BeatTypes DEF SetBeat
      <3>5. late' \in BOOLEAN
        BY <1>0, <2>3 DEF Overtaken
      <3>6. UNCHANGED <<up, primary_sockaddr, master_sockets, upgraded>>
        BY <2>3
      <3> QED
        BY <1>0, <2>1, <3>3, <3>4, <3>5, <3>6 DEF Stepped, TypeOK, GivenUp
    <2> QED
      BY <1>4, <2>2, <2>3 DEF HeartBeatSends
  <1> QED
    BY <1>1, <1>2, <1>3, <1>4 DEF HeartBeat

\* What SocketClose does with the entry of x.
LEMMA OfflineType ==
  ASSUME IInv, NEW m \in Masters, NEW s \in Sockets, NEW x \in Masters,
         MasterOffline(m, s, x)
  PROVE  /\ master_sockets' \in [Masters -> Sockets]
         /\ chan' \in Channels
         /\ primary_sockaddr' \in [Masters -> Masters \cup {None}]
         /\ \A n \in Masters : primary_sockaddr[n] # None /\ primary_sockaddr'[n] = None =>
              n = m /\ primary_sockaddr[n] = x
  <1>0. TypeOK /\ chan \in Channels /\ master_sockets \in [Masters -> Sockets]
    BY DEF IInv, TypeOK, Sockets
  <1>1. CASE primary_sockaddr[m] = x
    <2>1. /\ primary_sockaddr' = [primary_sockaddr EXCEPT ![m] = None]
          /\ master_sockets' = [master_sockets EXCEPT ![m] = s]
          /\ chan' = chan
      BY <1>1 DEF MasterOffline, SetPrimary
    <2> QED
      BY <1>0, <1>1, <2>1 DEF TypeOK
  <1>2. CASE primary_sockaddr[m] # x
    <2>1. MasterGroupChanged(m, s, chan) /\ UNCHANGED primary_sockaddr
      BY <1>2 DEF MasterOffline
    <2> QED
      BY <1>0, <2>1, GroupChangedType DEF TypeOK
  <1> QED
    BY <1>1, <1>2

\* SocketClose, with and without a reset.
LEMMA SocketCloseStepped ==
  ASSUME IInv, NEW m \in Masters, NEW x \in Masters, SocketClose(m, x)
  PROVE  Stepped
  <1>0. TypeOK /\ chan \in Channels /\ master_sockets \in [Masters -> Sockets]
    BY DEF IInv, TypeOK, Sockets
  <1>1. /\ UNCHANGED <<up, upgraded, beat, late, starts, crashes, merges>>
        /\ master_sockets[m][x] = "broken"
    BY DEF SocketClose
  <1>2. PICK t : t = [master_sockets[m] EXCEPT ![x] = "stale"]
    OBVIOUS
  <1>3. /\ t \in Sockets /\ [master_sockets[m] EXCEPT ![x] = "none"] \in Sockets
        /\ \A y \in Masters : [t EXCEPT ![y] = "none"] \in Sockets
    BY <1>0, <1>2 DEF Sockets
  <1>4. CASE /\ MasterOffline(m, [master_sockets[m] EXCEPT ![x] = "none"], x)
             /\ UNCHANGED resets
    BY <1>0, <1>1, <1>3, <1>4, OfflineType DEF Stepped, TypeOK, GivenUp
  <1>5. CASE resets < MaxResets /\ resets' = resets + 1
    <2>1. resets' \in 0 .. MaxResets /\ resets' > resets
      BY <1>0, <1>5, GroupAssumption DEF TypeOK
    <2>2. CASE /\ master_sockets' = [master_sockets EXCEPT ![m] = t]
               /\ UNCHANGED <<primary_sockaddr, chan>>
      BY <1>0, <1>1, <1>3, <2>1, <2>2 DEF Stepped, TypeOK, GivenUp
    <2>3. ASSUME NEW y \in Masters, MasterOffline(m, [t EXCEPT ![y] = "none"], y)
          PROVE  Stepped
      BY <1>0, <1>1, <1>3, <2>1, <2>3, OfflineType DEF Stepped, TypeOK, GivenUp
    <2>4. \/ /\ master_sockets' = [master_sockets EXCEPT ![m] = t]
             /\ UNCHANGED <<primary_sockaddr, chan>>
          \/ \E y \in Masters : MasterOffline(m, [t EXCEPT ![y] = "none"], y)
          \/ /\ MasterOffline(m, [master_sockets[m] EXCEPT ![x] = "none"], x)
             /\ UNCHANGED resets
      BY <1>2 DEF SocketClose
    <2> QED
      BY <1>4, <2>2, <2>3, <2>4
  <1> QED
    BY <1>4, <1>5 DEF SocketClose

\* HeartBeat, SocketClose and the exchange loop of one master.
LEMMA MasterStepped ==
  ASSUME IInv, NEW m \in Masters, MasterStep(m)
  PROVE  Stepped
  <1>0. TypeOK /\ chan \in Channels /\ master_sockets \in [Masters -> Sockets]
    BY DEF IInv, TypeOK, Sockets
  <1>1. CASE HeartBeatRequests(m)
    <2>1. Ends(m) /\ UNCHANGED <<late, starts, crashes, merges, resets>>
      BY <1>1 DEF HeartBeatRequests, counts
    <2> QED
      BY <1>0, <2>1, EndsType DEF Stepped, TypeOK, GivenUp
  <1>2. CASE ExchangeWaits(m)
    BY <1>0, <1>2 DEF ExchangeWaits, counts, Stepped, TypeOK, GivenUp
  <1> QED
    BY <1>1, <1>2, HeartBeatStepped, SocketCloseStepped, ProtocolProcessStep DEF MasterStep

\* Reads that return two messages keep the announced master; what is lost is the
\* newest.
LEMMA ChannelSteps ==
  ASSUME IInv, NEW x \in Masters, NEW m \in Masters,
         EpollReadMerges(x, m) \/ LoseUnsent(x, m)
  PROVE  Stepped
  <1>0. TypeOK /\ chan \in Channels /\ master_sockets \in [Masters -> Sockets]
    BY DEF IInv, TypeOK, Sockets
  <1>1. PICK q : q = chan[x][m]
    OBVIOUS
  <1>2. q \in Seq(Messages)
    BY <1>0, <1>1 DEF Channels
  <1>3. Len(q) \in Nat /\ \A i \in 1 .. Len(q) : q[i] \in Messages
    BY <1>2, ElementOfSeq, LenProperties
  <1>4. CASE EpollReadMerges(x, m)
    <2>1. PICK g : g = IF q[2].response_result # None THEN q[2]
                       ELSE [q[2] EXCEPT !.response_result = q[1].response_result]
      OBVIOUS
    <2>2. /\ chan' = [chan EXCEPT ![x][m] = <<g>> \o SubSeq(q, 3, Len(q))]
          /\ Len(q) >= 2 /\ merges < MaxMerges /\ merges' = merges + 1
          /\ UNCHANGED <<up, primary_sockaddr, master_sockets, upgraded, beat, late,
                         starts, crashes, resets>>
      BY <1>1, <1>4, <2>1 DEF EpollReadMerges
    <2>3. q[1] \in Messages /\ q[2] \in Messages
      BY <1>3, <2>2
    <2>4. q[1].response_result \in Masters \cup {None}
      BY <2>3, MessageFields
    <2>5. g \in Messages
      BY <2>1, <2>3, <2>4, MessageFields
    <2>6. SubSeq(q, 3, Len(q)) \in Seq(Messages)
      <3>1. \A i \in 3 .. Len(q) : q[i] \in Messages
        BY <1>3
      <3> QED
        BY <1>3, <3>1, SubSeqProperties
    <2>7. <<g>> \in Seq(Messages)
      BY <2>5
    <2>8. <<g>> \o SubSeq(q, 3, Len(q)) \in Seq(Messages)
      BY <2>6, <2>7, ConcatProperties
    <2>9. chan' \in Channels
      BY <1>0, <2>2, <2>8 DEF Channels
    <2>10. merges' \in 0 .. MaxMerges
      BY <1>0, <2>2, GroupAssumption DEF TypeOK
    <2> QED
      BY <1>0, <2>2, <2>9, <2>10 DEF Stepped, TypeOK, GivenUp
  <1>5. CASE LoseUnsent(x, m)
    <2>1. /\ chan' = [chan EXCEPT ![x][m] = SubSeq(q, 1, Len(q) - 1)]
          /\ UNCHANGED <<up, primary_sockaddr, master_sockets, upgraded, beat, late,
                         starts, crashes, merges, resets>>
      BY <1>1, <1>5 DEF LoseUnsent, Front, counts
    <2>2. SubSeq(q, 1, Len(q) - 1) \in Seq(Messages)
      <3>1. \A i \in 1 .. Len(q) - 1 : q[i] \in Messages
        BY <1>3
      <3> QED
        BY <1>3, <3>1, SubSeqProperties
    <2>3. chan' \in Channels
      BY <1>0, <2>1, <2>2 DEF Channels
    <2> QED
      BY <1>0, <2>1, <2>3 DEF Stepped, TypeOK, GivenUp
  <1> QED
    BY <1>4, <1>5

\* Crashes and starts.
LEMMA FailureSteps ==
  ASSUME IInv, NEW m \in Masters, Crash(m) \/ Start(m)
  PROVE  Stepped
  <1>0. TypeOK /\ chan \in Channels /\ master_sockets \in [Masters -> Sockets]
    BY DEF IInv, TypeOK, Sockets
  <1>1. CASE Crash(m)
    <2>1. crashes' \in 0 .. MaxCrashes
      BY <1>0, <1>1, GroupAssumption DEF Crash, TypeOK
    <2>2. Ends(m) /\ UNCHANGED <<late, starts, merges, resets>>
      BY <1>1 DEF Crash
    <2> QED
      BY <1>0, <2>1, <2>2, EndsType DEF Stepped, TypeOK, GivenUp
  <1>2. CASE Start(m)
    <2>1. starts' \in 0 .. MaxStarts
      BY <1>0, <1>2, GroupAssumption DEF Start, TypeOK
    <2> QED
      BY <1>0, <1>2, <2>1 DEF Start, Stepped, TypeOK, GivenUp
  <1> QED
    BY <1>1, <1>2

\* Every step.
LEMMA NextStepped ==
  ASSUME IInv, Next
  PROVE  Stepped
  BY MasterStepped, ChannelSteps, FailureSteps DEF Next, Environment

-----------------------------------------------------------------------------
(* The invariant and what follows from it *)

\* The masters start without sockets, messages and a primary.
LEMMA IInvInit == Init => IInv
  <1> SUFFICES ASSUME Init PROVE IInv
    OBVIOUS
  <1>1. <<>> \in Seq(Messages)
    BY EmptySeq
  <1>2. chan \in Channels
    BY <1>1 DEF Init, Channels
  <1>3. /\ starts \in 0 .. MaxStarts /\ crashes \in 0 .. MaxCrashes
        /\ merges \in 0 .. MaxMerges /\ resets \in 0 .. MaxResets
    BY GroupAssumption DEF Init
  <1>4. /\ up \subseteq Masters /\ upgraded \subseteq up
        /\ primary_sockaddr \in [Masters -> Masters \cup {None}]
        /\ master_sockets \in [Masters -> [Masters -> {"none", "open", "broken", "stale"}]]
    BY GroupAssumption DEF Init, NoSockets
  <1>5. beat \in [Masters -> Beats] /\ late \in BOOLEAN
    BY BeatTypes DEF Init
  <1> QED
    BY <1>2, <1>3, <1>4, <1>5, ChannelsType DEF IInv, TypeOK

\* Every step keeps the invariant.
LEMMA IInvStep == IInv /\ [Next]_vars => IInv'
  <1> SUFFICES ASSUME IInv, [Next]_vars PROVE IInv'
    OBVIOUS
  <1>1. CASE Next
    <2>1. Stepped
      BY <1>1, NextStepped
    <2>2. chan' \in [Masters -> [Masters -> Seq(TrackerProtocol)]]
      BY <2>1, ChannelsType DEF Stepped
    <2> QED
      BY <2>1, <2>2 DEF Stepped, IInv, TypeOK, Sockets
  <1>2. CASE UNCHANGED vars
    BY <1>2 DEF vars, counts, IInv, TypeOK
  <1> QED
    BY <1>1, <1>2

\* Every COORDINATOR message under way names a master of tracker_group, and every
\* variable is in its range, for a group of any size.
THEOREM ElectionInvariant == Spec => []IInv
  BY IInvInit, IInvStep, PTL DEF Spec

\* Whoever is elected, announced or taken for the primary is one of
\* tracker_group, and only running masters were told to exchange tasks.
THEOREM TypeCorrect == Spec => []TypeOK
  <1>1. IInv => TypeOK
    BY DEF IInv
  <1> QED
    BY <1>1, ElectionInvariant, PTL

\* A running master gives up its primary only when the socket to it broke, or
\* another one did that a reset made SocketClose take for it.
THEOREM PrimaryKeptWhileConnected == Spec => PrimaryGivenUpWhenBroken
  <1> DEFINE Broke ==
        \A m \in Masters : GivenUp(m) =>
          \/ master_sockets[m][primary_sockaddr[m]] = "broken"
          \/ resets' > resets
  <1>1. IInv /\ [Next]_vars => [Broke]_vars
    BY NextStepped DEF Stepped
  <1> QED
    BY <1>1, ElectionInvariant, PTL DEF Spec, PrimaryGivenUpWhenBroken
=============================================================================
