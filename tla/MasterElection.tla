---------------------------- MODULE MasterElection ----------------------------
(***************************************************************************)
(* How the masters of tracker_group find and elect their primary           *)
(* (server/master.cc, server/tracker.cc).  Masters are numbered by their   *)
(* place in tracker_group.  A master talks to another one over the socket  *)
(* it opened itself, kept in master_sockets_; requests go around the ring  *)
(* of the masters that can be connected, and every sender adds itself to   *)
(* response_sock_addr (SendProtocol).                                      *)
(*                                                                         *)
(* SocketThread runs a handler, and the epoll thread the callback of a     *)
(* closed socket, under mutex_socket_: each is one step.  HeartBeatThread  *)
(* holds no lock while it connects, sends or makes itself the primary, so  *)
(* the others come between.                                                *)
(***************************************************************************)
EXTENDS Integers, Sequences, FiniteSets, FiniteSetsExt, SequencesExt

CONSTANTS
  GroupSize,     \* masters in tracker_group
  Started,       \* the masters that run from the beginning
  MaxStarts,     \* bound: masters started later, or again
  MaxCrashes,    \* bound: processes killed from outside
  MaxMerges,     \* bound: reads that return two messages
  MaxResets,     \* bound: closed sockets whose peer getpeername cannot tell
  MaxMessages    \* bound: no channel holds more when a heartbeat asks

Masters == 1 .. GroupSize
None    == 0

ASSUME GroupAssumption ==
  /\ GroupSize \in Nat \ {0}
  /\ Started \subseteq Masters
  /\ {MaxStarts, MaxCrashes, MaxMerges, MaxResets, MaxMessages} \subseteq Nat

VARIABLES
  up,                \* the masters whose process runs
  primary_sockaddr,  \* per master: whom it takes for the primary
  master_sockets,    \* per master and peer: "none", "open", "broken" (the
                     \* peer is gone and SocketClose has not run yet), or
                     \* "stale" (it ran and has not found this entry)
  chan,              \* chan[m][x]: sent by m over its socket to x
  upgraded,          \* masters whose TaskExchangeThread UpgradeTracker woke
  beat,              \* per master: where its HeartBeatThread is
  late,              \* a heartbeat asked, called an election or led when what
                     \* it had found before did not hold any more
  starts, crashes, merges, resets   \* counters for the bounds

counts == <<starts, crashes, merges, resets>>
vars == <<up, primary_sockaddr, master_sockets, chan, upgraded, beat, late,
          counts>>

ProtocolType == {"ELECTION", "COORDINATOR", "MASTER_ASK_TRACKER",
                 "MASTER_JOIN_GROUP", "MASTER_GROUP_CHANGED"}

TrackerProtocol ==
  [protocol_type : ProtocolType,
   request_sock_addr : Masters,
   request_args : SUBSET Masters,
   response_sock_addr : SUBSET Masters,
   response_result : Masters \cup {None}]

\* HeartBeatThread waits, looks for the next master, or has found it; what for;
\* and the master that FindNextMaster has come to.
Beats ==
  [step : {"wait", "find", "send"},
   round : {"MASTER_ASK_TRACKER", "ELECTION"},
   next : Masters]

\* Every variable stays in its range: in particular an elected or announced
\* master is one of tracker_group, and only a running master exchanges tasks.
TypeOK ==
  /\ up \subseteq Masters
  /\ primary_sockaddr \in [Masters -> Masters \cup {None}]
  /\ master_sockets \in [Masters -> [Masters -> {"none", "open", "broken", "stale"}]]
  /\ chan \in [Masters -> [Masters -> Seq(TrackerProtocol)]]
  /\ upgraded \subseteq up
  /\ starts \in 0 .. MaxStarts
  /\ crashes \in 0 .. MaxCrashes
  /\ merges \in 0 .. MaxMerges
  /\ resets \in 0 .. MaxResets
  /\ beat \in [Masters -> Beats]
  /\ late \in BOOLEAN

Waiting(m) == [step |-> "wait", round |-> "MASTER_ASK_TRACKER", next |-> m]

NoSockets == [x \in Masters |-> "none"]

Init ==
  /\ up = Started
  /\ primary_sockaddr = [m \in Masters |-> None]
  /\ master_sockets = [m \in Masters |-> NoSockets]
  /\ chan = [m \in Masters |-> [x \in Masters |-> <<>>]]
  /\ upgraded = {}
  /\ beat = [m \in Masters |-> Waiting(m)]
  /\ late = FALSE
  /\ starts = 0 /\ crashes = 0 /\ merges = 0 /\ resets = 0

IAmPrimaryMaster(m) == primary_sockaddr[m] = m

-----------------------------------------------------------------------------
(* Sockets and messages.  "sockets" is the master_sockets_ of one master   *)
(* and "c" the channels, both in the middle of a step.                     *)

\* Succeeds on a socket it has, working or not, and where someone listens.
CanConnect(sockets, x) == sockets[x] # "none" \/ x \in up

ConnectMaster(sockets, x) ==
  IF sockets[x] = "none" /\ x \in up THEN [sockets EXCEPT ![x] = "open"]
  ELSE sockets

NextMasterAddress(x) == IF x = GroupSize THEN 1 ELSE x + 1

\* How often NextMasterAddress leads from m to x.
Distance(m, x) == (x - m) % GroupSize

\* The nearest master behind m that can be connected.
FindNextMaster(m, sockets) ==
  LET found == {x \in Masters \ {m} : CanConnect(sockets, x)}
  IN  IF found = {} THEN None
      ELSE CHOOSE x \in found :
             \A y \in found : Distance(m, x) <= Distance(m, y)

NewTrackerProtocol(m, type) ==
  [protocol_type |-> type, request_sock_addr |-> m, request_args |-> {},
   response_sock_addr |-> {}, response_result |-> None]

\* What is written to a socket whose peer or whose buffer is gone is lost.
SendProtocol(m, sockets, c, x, g) ==
  IF sockets[x] = "open"
  THEN [c EXCEPT ![m][x] =
          Append(@, [g EXCEPT !.response_sock_addr = @ \cup {m}])]
  ELSE c

ClosedCircle(m, g) ==
  m = g.request_sock_addr \/ m \in g.response_sock_addr

\* FindNextMaster and SendProtocol: the end of most handlers.
SendToNext(m, sockets, c, g) ==
  \E next \in {FindNextMaster(m, sockets)} :
    IF next = None
    THEN /\ master_sockets' = [master_sockets EXCEPT ![m] = sockets]
         /\ chan' = c
    ELSE /\ master_sockets' =
              [master_sockets EXCEPT ![m] = ConnectMaster(sockets, next)]
         /\ chan' = SendProtocol(m, ConnectMaster(sockets, next), c, next, g)

SetPrimary(m, x) == primary_sockaddr' = [primary_sockaddr EXCEPT ![m] = x]

UpgradeTracker(m) == upgraded' = upgraded \cup {m}

\* Alone, a master needs no round: it is the primary.
AskNextOrLead(m, c, g) ==
  IF FindNextMaster(m, master_sockets[m]) = None
  THEN /\ SetPrimary(m, m)
       /\ UpgradeTracker(m)
       /\ chan' = c
       /\ UNCHANGED master_sockets
  ELSE /\ SendToNext(m, master_sockets[m], c, g)
       /\ UNCHANGED <<primary_sockaddr, upgraded>>

Election(m, c) == AskNextOrLead(m, c, NewTrackerProtocol(m, "ELECTION"))

Coordinator(m, c, x) ==
  AskNextOrLead(m, c, [NewTrackerProtocol(m, "COORDINATOR")
                         EXCEPT !.response_result = x])

\* Connects the primary and tells it; its sockets and channels thereafter.
JoinSockets(m, x) ==
  IF x = m THEN master_sockets[m] ELSE ConnectMaster(master_sockets[m], x)

JoinMasterGroup(m, c, x) ==
  IF x = m THEN c
  ELSE SendProtocol(m, JoinSockets(m, x), c, x,
                    NewTrackerProtocol(m, "MASTER_JOIN_GROUP"))

\* The primary tells the ring whom it has a socket to; its listening socket
\* is in master_sockets_ too.
MasterGroupChanged(m, sockets, c) ==
  IF IAmPrimaryMaster(m)
  THEN SendToNext(m, sockets, c,
         [NewTrackerProtocol(m, "MASTER_GROUP_CHANGED") EXCEPT
            !.request_args = {m} \cup {x \in Masters : sockets[x] # "none"}])
  ELSE /\ master_sockets' = [master_sockets EXCEPT ![m] = sockets]
       /\ chan' = c

-----------------------------------------------------------------------------
(* ProtocolProcess: master m handles message g; c is what remains in the   *)
(* channels.                                                               *)

\* Mutant of Elected: the initiator wins.
InitiatorWins(m, g) == m

\* Mutant of Elected: the search starts behind the end of the group.
PastTheEnd(m, g) == Max(g.response_sock_addr \cup {m}) + 1

\* The last of tracker_group among those the message passed.
Elected(m, g) == Max(g.response_sock_addr \cup {m})

HandleElection(m, g, c) ==
  /\ g.protocol_type = "ELECTION"
  /\ IF ClosedCircle(m, g)
     THEN Coordinator(m, c, Elected(m, g))
     ELSE /\ SendToNext(m, master_sockets[m], c, g)
          /\ UNCHANGED <<primary_sockaddr, upgraded>>

HandleCoordinator(m, g, c) ==
  /\ g.protocol_type = "COORDINATOR"
  /\ SetPrimary(m, g.response_result)
  /\ IF ClosedCircle(m, g)
     THEN /\ IF g.response_result = m THEN UpgradeTracker(m)
             ELSE UNCHANGED upgraded
          /\ chan' = c
          /\ UNCHANGED master_sockets
     ELSE /\ SendToNext(m, JoinSockets(m, g.response_result),
                        JoinMasterGroup(m, c, g.response_result), g)
          /\ UNCHANGED upgraded

\* Mutant of LearnPrimary: no election when nobody knew one.
LearnOnly(m, g, c) ==
  /\ IF g.response_result = None THEN UNCHANGED primary_sockaddr
     ELSE SetPrimary(m, g.response_result)
  /\ chan' = c
  /\ UNCHANGED <<master_sockets, upgraded>>

\* The circle is closed: somebody knew a primary, or an election is due.
LearnPrimary(m, g, c) ==
  IF g.response_result = None THEN Election(m, c)
  ELSE /\ SetPrimary(m, g.response_result)
       /\ master_sockets' =
            [master_sockets EXCEPT ![m] = JoinSockets(m, g.response_result)]
       /\ chan' = JoinMasterGroup(m, c, g.response_result)
       /\ UNCHANGED upgraded

\* Two masters know different primaries.
Conflict(m, g) ==
  /\ g.response_result # None
  /\ primary_sockaddr[m] \notin {None, g.response_result}

HandleAskTracker(m, g, c) ==
  /\ g.protocol_type = "MASTER_ASK_TRACKER"
  /\ \/ ClosedCircle(m, g) /\ LearnPrimary(m, g, c)
     \/ ~ClosedCircle(m, g) /\ Conflict(m, g) /\ Election(m, c)
     \/ /\ ~ClosedCircle(m, g) /\ ~Conflict(m, g)
        /\ SendToNext(m, master_sockets[m], c,
             IF g.response_result # None THEN g
             ELSE [g EXCEPT !.response_result = primary_sockaddr[m]])
        /\ UNCHANGED <<primary_sockaddr, upgraded>>

HandleJoinGroup(m, g, c) ==
  /\ g.protocol_type = "MASTER_JOIN_GROUP"
  /\ MasterGroupChanged(m,
       ConnectMaster(master_sockets[m], g.request_sock_addr), c)
  /\ UNCHANGED <<primary_sockaddr, upgraded>>

\* ConnectOnlineMaster, unless the message has been here.
HandleGroupChanged(m, g, c) ==
  /\ g.protocol_type = "MASTER_GROUP_CHANGED"
  /\ IF ClosedCircle(m, g)
     THEN chan' = c /\ UNCHANGED master_sockets
     ELSE SendToNext(m,
            [x \in Masters |->
               IF x \in g.request_args \ {m}
               THEN ConnectMaster(master_sockets[m], x)[x]
               ELSE master_sockets[m][x]], c, g)
  /\ UNCHANGED <<primary_sockaddr, upgraded>>

ProtocolProcess(x, m) ==
  /\ m \in up
  /\ chan[x][m] # <<>>
  /\ LET g == Head(chan[x][m])
         c == [chan EXCEPT ![x][m] = Tail(@)]
     IN  \/ HandleElection(m, g, c)
         \/ HandleCoordinator(m, g, c)
         \/ HandleAskTracker(m, g, c)
         \/ HandleJoinGroup(m, g, c)
         \/ HandleGroupChanged(m, g, c)
  /\ UNCHANGED <<up, beat, late, counts>>

-----------------------------------------------------------------------------
(* HeartBeatThread *)

\* A process ends: its peers' sockets break, what it has not read is lost.
Ends(m) ==
  /\ up' = up \ {m}
  /\ primary_sockaddr' = [primary_sockaddr EXCEPT ![m] = None]
  /\ master_sockets' =
       [y \in Masters |->
          IF y = m THEN NoSockets
          ELSE IF master_sockets[y][m] = "open"
               THEN [master_sockets[y] EXCEPT ![m] = "broken"]
               ELSE master_sockets[y]]
  /\ chan' = [y \in Masters |-> [chan[y] EXCEPT ![m] = <<>>]]
  /\ upgraded' = upgraded \ {m}
  /\ beat' = [beat EXCEPT ![m] = Waiting(m)]

BeatAt(m, step) == m \in up /\ beat[m].step = step

SetBeat(m, b) == beat' = [beat EXCEPT ![m] = b]

\* FindNextMaster begins behind m.
Find(m, type) ==
  SetBeat(m, [step |-> "find", round |-> type, next |-> NextMasterAddress(m)])

\* What HeartBeat found when it began does not hold any more: SocketThread has
\* learnt of a primary, or, when nobody could be connected, a master runs now.
Overtaken(m) ==
  \/ beat[m].step = "send" /\ primary_sockaddr[m] # None
  \/ beat[m].step = "find" /\ up # {m}

\* AskTracker: a master that knows no primary looks for the next master.
HeartBeatAsks(m) ==
  /\ BeatAt(m, "wait")
  /\ primary_sockaddr[m] = None
  /\ \A x, y \in Masters : Len(chan[x][y]) < MaxMessages
  /\ Find(m, "MASTER_ASK_TRACKER")
  /\ UNCHANGED <<up, primary_sockaddr, master_sockets, chan, upgraded, late,
                 counts>>

\* FindNextMaster connects the next master, or goes on to the one behind it.
HeartBeatConnects(m) ==
  LET x == beat[m].next
  IN  /\ BeatAt(m, "find")
      /\ x # m
      /\ IF CanConnect(master_sockets[m], x)
         THEN SetBeat(m, [beat[m] EXCEPT !.step = "send"])
         ELSE SetBeat(m, [beat[m] EXCEPT !.next = NextMasterAddress(x)])
      /\ master_sockets' = [master_sockets EXCEPT ![m] = ConnectMaster(@, x)]
      /\ UNCHANGED <<up, primary_sockaddr, chan, upgraded, late, counts>>

\* With no next master AskTracker calls Election, which looks again and then
\* makes m the primary, whatever SocketThread has heard meanwhile.
HeartBeatFindsNobody(m) ==
  /\ BeatAt(m, "find")
  /\ beat[m].next = m
  /\ \/ /\ beat[m].round = "MASTER_ASK_TRACKER"
        /\ Find(m, "ELECTION")
        /\ UNCHANGED <<primary_sockaddr, upgraded, late>>
     \/ /\ beat[m].round = "ELECTION"
        /\ SetBeat(m, Waiting(m))
        /\ SetPrimary(m, m)
        /\ UpgradeTracker(m)
        /\ late' = (late \/ Overtaken(m))
  /\ UNCHANGED <<up, master_sockets, chan, counts>>

\* SendProtocol to the master found.  When its socket was closed meanwhile
\* master_sockets_[next_master_addr] is NULL and the process ends, or the
\* message goes to a descriptor without a buffer.
HeartBeatSends(m) ==
  LET x == beat[m].next
      closed == master_sockets[m][x] = "none"
  IN  /\ BeatAt(m, "send")
      /\ \/ /\ chan' = SendProtocol(m, master_sockets[m], chan, x,
                                   NewTrackerProtocol(m, beat[m].round))
            /\ SetBeat(m, Waiting(m))
            /\ late' = (late \/ Overtaken(m))
            /\ UNCHANGED <<up, primary_sockaddr, master_sockets, upgraded>>
         \/ closed /\ Ends(m) /\ UNCHANGED late
      /\ UNCHANGED counts

\* RequestTaskDuplicate of a secondary uses master_sockets_[primary_sockaddr_]
\* without looking: with no such socket the process ends.  It returns before
\* while there are idle tasks, which may be for ever.  The request itself does
\* not matter here.
HeartBeatRequests(m) ==
  /\ BeatAt(m, "wait")
  /\ primary_sockaddr[m] \notin {None, m}
  /\ master_sockets[m][primary_sockaddr[m]] = "none"
  /\ Ends(m)
  /\ UNCHANGED <<late, counts>>

-----------------------------------------------------------------------------
(* Connections and failures *)

\* The entry of x is gone from the sockets of m.
MasterOffline(m, sockets, x) ==
  IF primary_sockaddr[m] = x
  THEN /\ SetPrimary(m, None)
       /\ master_sockets' = [master_sockets EXCEPT ![m] = sockets]
       /\ UNCHANGED chan
  ELSE /\ MasterGroupChanged(m, sockets, chan)
       /\ UNCHANGED primary_sockaddr

\* epoll reports the end of a socket m had opened to x.  The entry is found
\* under the address of the peer; after a reset getpeername fails, which is not
\* looked at, and the address is what the stack holds: the entry of x stays, and
\* the one of another master y may go.
SocketClose(m, x) ==
  /\ m \in up
  /\ master_sockets[m][x] = "broken"
  /\ \/ /\ MasterOffline(m, [master_sockets[m] EXCEPT ![x] = "none"], x)
        /\ UNCHANGED resets
     \/ /\ resets < MaxResets
        /\ resets' = resets + 1
        /\ LET sockets == [master_sockets[m] EXCEPT ![x] = "stale"]
           IN  \/ /\ master_sockets' = [master_sockets EXCEPT ![m] = sockets]
                  /\ UNCHANGED <<primary_sockaddr, chan>>
               \/ \E y \in Masters \ {x} :
                    /\ sockets[y] # "none"
                    /\ MasterOffline(m, [sockets EXCEPT ![y] = "none"], y)
  /\ UNCHANGED <<up, upgraded, beat, late, starts, crashes, merges>>

\* The exchange loop of a master that is not the primary any more waits
\* again for UpgradeTracker.
ExchangeWaits(m) ==
  /\ m \in upgraded
  /\ ~IAmPrimaryMaster(m)
  /\ upgraded' = upgraded \ {m}
  /\ UNCHANGED <<up, primary_sockaddr, master_sockets, chan, beat, late,
                 counts>>

\* Messages carry no length: what one read returns is parsed as one
\* message, in which the later value of a field wins and an empty
\* response_result leaves the earlier one.
EpollReadMerges(x, m) ==
  /\ m \in up
  /\ merges < MaxMerges
  /\ Len(chan[x][m]) >= 2
  /\ LET a == chan[x][m][1]
         b == chan[x][m][2]
         ab == IF b.response_result # None THEN b
               ELSE [b EXCEPT !.response_result = a.response_result]
     IN  chan' = [chan EXCEPT ![x][m] = <<ab>> \o SubSeq(@, 3, Len(@))]
  /\ merges' = merges + 1
  /\ UNCHANGED <<up, primary_sockaddr, master_sockets, upgraded, beat, late,
                 starts, crashes, resets>>

Crash(m) ==
  /\ m \in up
  /\ crashes < MaxCrashes
  /\ crashes' = crashes + 1
  /\ Ends(m)
  /\ UNCHANGED <<late, starts, merges, resets>>

\* What a dead master had sent may not have left it; the newest goes first.
LoseUnsent(x, m) ==
  /\ x \notin up
  /\ chan[x][m] # <<>>
  /\ chan' = [chan EXCEPT ![x][m] = Front(@)]
  /\ UNCHANGED <<up, primary_sockaddr, master_sockets, upgraded, beat, late,
                 counts>>

\* A restart takes longer than handling what the old process had sent.
Start(m) ==
  /\ m \notin up
  /\ starts < MaxStarts
  /\ \A x \in Masters : chan[m][x] = <<>>
  /\ up' = up \cup {m}
  /\ starts' = starts + 1
  /\ UNCHANGED <<primary_sockaddr, master_sockets, chan, upgraded, beat, late,
                 crashes, merges, resets>>

-----------------------------------------------------------------------------
HeartBeat(m) ==
  \/ HeartBeatAsks(m) \/ HeartBeatConnects(m)
  \/ HeartBeatFindsNobody(m) \/ HeartBeatSends(m)

MasterStep(m) ==
  \/ HeartBeat(m)
  \/ HeartBeatRequests(m)
  \/ ExchangeWaits(m)
  \/ \E x \in Masters : ProtocolProcess(x, m) \/ SocketClose(m, x)

Environment ==
  \E m \in Masters :
    \/ Crash(m) \/ Start(m)
    \/ \E x \in Masters : LoseUnsent(m, x) \/ EpollReadMerges(m, x)

Next == (\E m \in Masters : MasterStep(m)) \/ Environment

Spec == Init /\ [][Next]_vars

\* The heartbeat thread never stops, the kernel reports every closed
\* connection and SocketThread handles whatever arrives.  Nothing obliges a
\* process to start, or to end in RequestTaskDuplicate.
Fairness ==
  \A m \in Masters :
    /\ WF_vars(HeartBeat(m))
    /\ WF_vars(ExchangeWaits(m))
    /\ WF_vars(\E x \in Masters : SocketClose(m, x))
    /\ \A x \in Masters \ {m} : WF_vars(ProtocolProcess(x, m))

LiveSpec == Spec /\ Fairness

-----------------------------------------------------------------------------
(* Properties *)

\* A heartbeat acted out of date in a group that a master joined later.
LateStart == late /\ starts > 0

\* Among the running masters at most one takes itself for the primary, unless a
\* master was started after the others and a heartbeat was overtaken: it led
\* though that master was running by then, or asked or called an election though
\* a primary was known.  Every election of a group started together passes the
\* same masters, whatever crashes and however late a heartbeat is, and in a
\* group of two a master that comes back learns of the one that took over before
\* it can lead (HeartBeat and ProtocolProcess, cases ELECTION, COORDINATOR and
\* MASTER_ASK_TRACKER).
SinglePrimary ==
  \/ LateStart
  \/ \A m, x \in up : IAmPrimaryMaster(m) /\ IAmPrimaryMaster(x) => m = x

\* A master that took over a primary it has no socket to, or none that works,
\* keeps it as long as it has idle tasks.
Stranded(m) ==
  /\ primary_sockaddr[m] \notin {None, m}
  /\ master_sockets[m][primary_sockaddr[m]] \in {"none", "stale"}

\* One running master is the primary of all running masters, itself included,
\* but for those that are stranded.
Agreed == \E p \in up : \A m \in up : primary_sockaddr[m] = p \/ Stranded(m)

\* Once crashes and starts have ended the running masters agree on one of them
\* and stay so, but for those that took a primary without a socket from a
\* passing COORDINATOR: lost, merged and stale messages are made up for by the
\* heartbeat of a master that knows no primary (HeartBeat, SocketClose).  Two
\* things are not made up for: a heartbeat overtaken by a start, and a socket
\* that SocketClose has not found after a reset.
EventuallyAgreed == <>[](LateStart \/ resets > 0 \/ up = {} \/ Agreed)

\* An elected master that keeps running and leading comes to exchange tasks:
\* UpgradeTracker has been called for it.
ElectedIsUpgraded ==
  \A m \in Masters : (m \in up /\ IAmPrimaryMaster(m)) ~>
                     (m \in upgraded \/ ~IAmPrimaryMaster(m) \/ m \notin up)
=============================================================================
