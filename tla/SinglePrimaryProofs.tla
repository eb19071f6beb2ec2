------------------------ MODULE SinglePrimaryProofs ------------------------
(***************************************************************************)
(* Why a group of masters has one primary as long as no master starts      *)
(* after the others, whatever crashes and whatever reads merge, for a      *)
(* group of any size.  A message goes around the ring from one running     *)
(* master to the next, so an election that comes round has passed every    *)
(* master that is still running, and the last of those it passed is behind *)
(* none of them.  Crashes keep that true; a master that starts does not.   *)
(***************************************************************************)
EXTENDS MasterElectionProofs

\* No running master is behind x in tracker_group.
Leads(x) == x # None => \A q \in up : q <= x

\* How far x is behind the master that started the round of g.
Behind(g, x) == Distance(g.request_sock_addr, x)

\* The message passed every running master,
Round(g) == \A q \in up : q \in g.response_sock_addr

\* or, on its first way around the ring to m, those before m and nobody else.
OnTheWay(g, m) ==
  /\ m # g.request_sock_addr
  /\ \A p \in g.response_sock_addr : Behind(g, p) < Behind(g, m)
  /\ \A q \in up : Behind(g, q) < Behind(g, m) => q \in g.response_sock_addr

\* What may be under way to m: it names nobody who is before a running master,
\* and an election skipped none.
Fit(m) == {g \in Messages :
             /\ Leads(g.response_result)
             /\ g.protocol_type = "ELECTION" => Round(g) \/ OnTheWay(g, m)}

FitChannels == {c \in Channels : \A y, m \in Masters : c[y][m] \in Seq(Fit(m))}

FitPrimaries == \A m \in Masters : Leads(primary_sockaddr[m])

\* A heartbeat of m that has come to x skipped no running master, and met all of
\* them when it came back to m.
SkipsNobody(m, x) ==
  IF x = m THEN up \subseteq {m}
  ELSE \A q \in up \ {m} : Distance(m, x) <= Distance(m, q)

FitBeats ==
  \A m \in Masters : /\ beat[m].step # "wait" => SkipsNobody(m, beat[m].next)
                     /\ beat[m].step = "send" => beat[m].next # m

\* While no master was started after the others.
NobodyPassedOver == starts = 0 => FitPrimaries /\ FitBeats /\ chan \in FitChannels

\* Running masters that take a running master for the primary take the same
\* one for it, and it is the last of all running masters.
LastMasterLeads ==
  \A m \in up : primary_sockaddr[m] \in up =>
    \A q \in up : q <= primary_sockaddr[m]

-----------------------------------------------------------------------------
(* Distances on the ring *)

\* Distance counts from m up to the end of the group and on from its start.
LEMMA DistanceIs ==
  ASSUME NEW m \in Masters, NEW x \in Masters
  PROVE  Distance(m, x) = IF x >= m THEN x - m ELSE x - m + GroupSize
  <1> DEFINE a == x - m
             q == a \div GroupSize
             r == a % GroupSize
  <1>1. GroupSize \in Nat \ {0} /\ m \in 1 .. GroupSize /\ x \in 1 .. GroupSize
    BY GroupAssumption DEF Masters
  <1>2. a \in Int /\ - GroupSize < a /\ a < GroupSize
    BY <1>1
  <1> HIDE DEF a
  <1>3. q \in Int /\ r \in 0 .. GroupSize - 1 /\ a = GroupSize * q + r
    BY <1>1, <1>2
  <1> HIDE DEF q, r
  <1>4. q < 1
    <2> SUFFICES ASSUME q >= 1 PROVE FALSE
      BY <1>3
    <2>1. GroupSize * q >= GroupSize
      BY <1>1, <1>3
    <2> QED
      BY <1>1, <1>2, <1>3, <2>1
  <1>5. q > -2
    <2> SUFFICES ASSUME q <= -2 PROVE FALSE
      BY <1>3
    <2>1. GroupSize * q <= - GroupSize - GroupSize
      BY <1>1, <1>3
    <2> QED
      BY <1>1, <1>2, <1>3, <2>1
  <1>6. q = 0 \/ q = -1
    BY <1>3, <1>4, <1>5
  <1>7. r = IF a >= 0 THEN a ELSE a + GroupSize
    <2>1. CASE q = 0
      <3>1. a = r
        BY <1>1, <1>3, <2>1
      <3> QED
        BY <1>1, <1>3, <3>1
    <2>2. CASE q = -1
      <3>1. a = r - GroupSize
        BY <1>1, <1>3, <2>2
      <3> QED
        BY <1>1, <1>3, <3>1
    <2> QED
      BY <1>6, <2>1, <2>2
  <1>8. Distance(m, x) = r
    BY DEF Distance, r, a
  <1>9. (a >= 0 <=> x >= m) /\ a = x - m
    BY <1>1 DEF a
  <1> QED
    BY <1>1, <1>7, <1>8, <1>9

\* What that means for two steps on the ring, and that nobody but x is as far
\* from m as x.
LEMMA DistanceAdds ==
  ASSUME NEW r \in Masters, NEW m \in Masters, NEW x \in Masters
  PROVE  /\ Distance(r, m) \in 0 .. GroupSize - 1
         /\ Distance(r, r) = 0
         /\ m # x => Distance(m, x) > 0 /\ Distance(r, m) # Distance(r, x)
         /\ Distance(r, m) <= Distance(r, x) =>
              Distance(m, x) = Distance(r, x) - Distance(r, m)
         /\ Distance(r, x) < Distance(r, m) =>
              Distance(m, x) = Distance(r, x) + GroupSize - Distance(r, m)
  <1>1. /\ GroupSize \in Nat \ {0} /\ r \in 1 .. GroupSize
        /\ m \in 1 .. GroupSize /\ x \in 1 .. GroupSize
    BY GroupAssumption DEF Masters
  <1>2. Distance(r, m) = IF m >= r THEN m - r ELSE m - r + GroupSize
    BY DistanceIs
  <1>3. Distance(r, x) = IF x >= r THEN x - r ELSE x - r + GroupSize
    BY DistanceIs
  <1>4. Distance(m, x) = IF x >= m THEN x - m ELSE x - m + GroupSize
    BY DistanceIs
  <1>5. Distance(r, r) = 0
    BY <1>1, DistanceIs
  <1> QED
    BY <1>1, <1>2, <1>3, <1>4, <1>5

\* NextMasterAddress goes one further from m, or comes back to m.
LEMMA NextIsFurther ==
  ASSUME NEW m \in Masters, NEW x \in Masters
  PROVE  /\ NextMasterAddress(x) \in Masters
         /\ NextMasterAddress(x) # m => Distance(m, NextMasterAddress(x)) = Distance(m, x) + 1
         /\ NextMasterAddress(x) = m => Distance(m, x) = GroupSize - 1
  <1> DEFINE n == NextMasterAddress(x)
  <1>1. GroupSize \in Nat \ {0} /\ m \in 1 .. GroupSize /\ x \in 1 .. GroupSize
    BY GroupAssumption DEF Masters
  <1>2. n = IF x = GroupSize THEN 1 ELSE x + 1
    BY DEF NextMasterAddress
  <1>3. n \in Masters
    BY <1>1, <1>2 DEF Masters
  <1>4. Distance(m, x) = IF x >= m THEN x - m ELSE x - m + GroupSize
    BY DistanceIs
  <1>5. Distance(m, n) = IF n >= m THEN n - m ELSE n - m + GroupSize
    BY <1>3, DistanceIs
  <1> HIDE DEF n
  <1>6. n # m => Distance(m, n) = Distance(m, x) + 1
    BY <1>1, <1>2, <1>4, <1>5
  <1>7. n = m => Distance(m, x) = GroupSize - 1
    BY <1>1, <1>2, <1>4
  <1> QED
    BY <1>3, <1>6, <1>7 DEF n

\* The search goes on behind a master that does not run, or begins behind m.
LEMMA SearchGoesOn ==
  ASSUME NEW m \in Masters, NEW x \in Masters, up \subseteq Masters,
         \A q \in up \ {m} : q # x /\ Distance(m, x) <= Distance(m, q)
  PROVE  SkipsNobody(m, NextMasterAddress(x))
  <1>1. \A q \in up \ {m} : /\ Distance(m, q) \in 0 .. GroupSize - 1
                            /\ Distance(m, x) \in Nat
                            /\ Distance(m, x) # Distance(m, q)
    BY DistanceAdds, DistanceType
  <1>2. \A q \in up \ {m} : Distance(m, x) + 1 <= Distance(m, q)
    BY <1>1
  <1>3. CASE NextMasterAddress(x) = m
    <2>1. Distance(m, x) = GroupSize - 1 /\ GroupSize \in Nat
      BY <1>3, NextIsFurther, GroupAssumption
    <2>2. up \ {m} = {}
      BY <1>1, <1>2, <2>1
    <2> QED
      BY <1>3, <2>2 DEF SkipsNobody
  <1>4. CASE NextMasterAddress(x) # m
    BY <1>2, <1>4, NextIsFurther DEF SkipsNobody
  <1> QED
    BY <1>3, <1>4

-----------------------------------------------------------------------------
(* One step of a message on the ring *)

\* What FindNextMaster says of the running masters: the next is another one and
\* skips none, and there is none only for a master that is alone.
LEMMA NextSkipsNobody ==
  ASSUME NEW m \in Masters, NEW s, up \subseteq Masters
  PROVE  /\ FindNextMaster(m, s) = None => up \subseteq {m}
         /\ FindNextMaster(m, s) # None =>
              /\ FindNextMaster(m, s) \in Masters \ {m}
              /\ \A q \in up \ {m} : Distance(m, FindNextMaster(m, s)) <= Distance(m, q)
  <1> DEFINE found == {x \in Masters \ {m} : CanConnect(s, x)}
             D == {Distance(m, x) : x \in found}
  <1>1. up \ {m} \subseteq found
    BY DEF CanConnect
  <1>2. CASE found = {}
    BY <1>1, <1>2 DEF FindNextMaster
  <1>3. CASE found # {}
    <2>1. D \in SUBSET Nat /\ D # {}
      BY <1>3, DistanceType
    <2>2. PICK d \in D : \A n \in D : d <= n
      BY <2>1, Least
    <2>3. \E x \in found : \A y \in found : Distance(m, x) <= Distance(m, y)
      BY <2>2
    <2>4. /\ FindNextMaster(m, s) \in found
          /\ \A y \in found : Distance(m, FindNextMaster(m, s)) <= Distance(m, y)
      BY <1>3, <2>3 DEF FindNextMaster
    <2> QED
      BY <1>1, <2>4, MastersType
  <1> QED
    BY <1>2, <1>3

\* Before m sends g on: it passed everybody up to m, m included with this send.
Arrived(g, m) ==
  LET path == g.response_sock_addr \cup {m}
  IN  \/ \A q \in up : q \in path
      \/ /\ \A p \in path : Behind(g, p) <= Behind(g, m)
         /\ \A q \in up : Behind(g, q) <= Behind(g, m) => q \in path

\* A new message of m passed nobody but m.
LEMMA NewArrived ==
  ASSUME NEW m \in Masters, NEW g \in Messages, up \subseteq Masters,
         g.request_sock_addr = m, g.response_sock_addr = {}
  PROVE  Arrived(g, m)
  <1>1. Behind(g, m) = 0
    BY DistanceAdds DEF Behind
  <1>2. \A q \in up : q # m => Behind(g, q) > 0
    BY DistanceAdds DEF Behind
  <1>3. \A q \in up : Behind(g, q) <= Behind(g, m) => q = m
    BY <1>1, <1>2, DistanceType DEF Behind
  <1> QED
    BY <1>1, <1>3 DEF Arrived

\* A message that does not close its circle at m passed everybody up to m.
LEMMA PassedArrived ==
  ASSUME NEW m \in Masters, NEW g \in Messages, up \subseteq Masters,
         Round(g) \/ OnTheWay(g, m)
  PROVE  Arrived(g, m)
  <1>1. g.request_sock_addr \in Masters /\ g.response_sock_addr \subseteq Masters
    BY DEF Messages, TrackerProtocol
  <1>2. CASE Round(g)
    BY <1>2 DEF Round, Arrived
  <1>3. CASE OnTheWay(g, m)
    <2>1. \A q \in Masters : /\ Behind(g, q) \in Nat
                             /\ q # m => Behind(g, q) # Behind(g, m)
      BY <1>1, DistanceAdds, DistanceType DEF Behind
    <2>2. \A p \in g.response_sock_addr \cup {m} : Behind(g, p) <= Behind(g, m)
      BY <1>1, <1>3, <2>1 DEF OnTheWay
    <2>3. \A q \in up : Behind(g, q) <= Behind(g, m) =>
                          q \in g.response_sock_addr \cup {m}
      BY <1>3, <2>1 DEF OnTheWay
    <2> QED
      BY <2>2, <2>3 DEF Arrived
  <1> QED
    BY <1>2, <1>3

\* Sent on, it passed everybody, or everybody up to the next master.
LEMMA SentOn ==
  ASSUME NEW m \in Masters, NEW n \in Masters \ {m}, NEW g \in Messages, NEW h,
         up \subseteq Masters, Arrived(g, m),
         h = [g EXCEPT !.response_sock_addr = @ \cup {m}],
         \A q \in up \ {m} : Distance(m, n) <= Distance(m, q)
  PROVE  Round(h) \/ OnTheWay(h, n)
  <1>1. /\ g.request_sock_addr \in Masters /\ g.response_sock_addr \subseteq Masters
        /\ h.request_sock_addr = g.request_sock_addr
        /\ h.response_sock_addr = g.response_sock_addr \cup {m}
    BY DEF Messages, TrackerProtocol
  <1>2. PICK r \in Masters : r = g.request_sock_addr
    BY <1>1
  <1>3. \A x : Behind(h, x) = Distance(r, x) /\ Behind(g, x) = Distance(r, x)
    BY <1>1, <1>2 DEF Behind
  <1>4. PICK path \in SUBSET Masters : path = h.response_sock_addr
    BY <1>1
  <1>5. CASE \A q \in up : q \in path
    BY <1>4, <1>5 DEF Round
  <1>6. CASE /\ \A p \in path : Distance(r, p) <= Distance(r, m)
             /\ \A q \in up : Distance(r, q) <= Distance(r, m) => q \in path
    <2>1. GroupSize \in Nat /\ m \in Masters /\ n \in Masters /\ m # n
      BY GroupAssumption
    <2>2. \A q \in up : Distance(r, q) > Distance(r, m) =>
            Distance(m, n) <= Distance(r, q) - Distance(r, m)
      <3> SUFFICES ASSUME NEW q \in up, Distance(r, q) > Distance(r, m)
                   PROVE  Distance(m, n) <= Distance(r, q) - Distance(r, m)
        OBVIOUS
      <3>1. q \in Masters /\ Distance(r, q) \in Nat /\ Distance(r, m) \in Nat
        BY DistanceType
      <3>2. q # m
        BY <3>1
      <3>3. Distance(m, q) = Distance(r, q) - Distance(r, m)
        BY <3>1, DistanceAdds
      <3> QED
        BY <3>2, <3>3
    <2>3. CASE Distance(r, m) < Distance(r, n)
      <3>1. Distance(m, n) = Distance(r, n) - Distance(r, m)
        BY <2>1, <2>3, DistanceAdds, DistanceType
      <3>2. \A p \in path : Distance(r, p) < Distance(r, n)
        BY <1>6, <2>1, <2>3, DistanceType
      <3>3. \A q \in up : Distance(r, q) < Distance(r, n) => q \in path
        BY <1>6, <2>1, <2>2, <3>1, DistanceType
      <3>4. n # r
        BY <2>1, <2>3, DistanceAdds, DistanceType
      <3> QED
        BY <1>1, <1>2, <1>3, <1>4, <3>2, <3>3, <3>4 DEF OnTheWay
    <2>4. CASE Distance(r, n) < Distance(r, m)
      <3>1. Distance(m, n) = Distance(r, n) + GroupSize - Distance(r, m)
        BY <2>1, <2>4, DistanceAdds
      <3>2. \A q \in up : Distance(r, q) <= Distance(r, m)
        <4> SUFFICES ASSUME NEW q \in up, ~(Distance(r, q) <= Distance(r, m))
                     PROVE  FALSE
          OBVIOUS
        <4>1. /\ Distance(r, q) \in 0 .. GroupSize - 1
              /\ Distance(r, n) \in Nat /\ Distance(r, m) \in Nat
          BY <2>1, DistanceAdds, DistanceType
        <4> QED
          BY <2>1, <2>2, <3>1, <4>1
      <3> QED
        BY <1>4, <1>6, <3>2 DEF Round
    <2> QED
      BY <2>1, <2>3, <2>4, DistanceAdds, DistanceType
  <1> QED
    BY <1>1, <1>3, <1>4, <1>5, <1>6 DEF Arrived

\* An election that closes its circle passed every running master, and the last
\* of those it passed is behind none of them.
LEMMA ElectedLeads ==
  ASSUME NEW m \in Masters, NEW g \in Messages, up \subseteq Masters,
         Round(g) \/ OnTheWay(g, m), ClosedCircle(m, g)
  PROVE  Leads(Elected(m, g))
  <1> DEFINE S == g.response_sock_addr \cup {m}
             D == {GroupSize - x : x \in S}
  <1>1. /\ g.request_sock_addr \in Masters /\ g.response_sock_addr \subseteq Masters
        /\ S \subseteq Masters /\ S # {}
    BY DEF Messages, TrackerProtocol
  <1>2. Round(g)
    <2> SUFFICES ASSUME OnTheWay(g, m) PROVE FALSE
      OBVIOUS
    <2>1. m \in g.response_sock_addr
      BY DEF ClosedCircle, OnTheWay
    <2>2. Behind(g, m) < Behind(g, m) /\ Behind(g, m) \in Nat
      BY <1>1, <2>1, DistanceType DEF OnTheWay, Behind
    <2> QED
      BY <2>2
  <1>3. D \in SUBSET Nat /\ D # {}
    BY <1>1, GroupAssumption DEF Masters
  <1>4. PICK d \in D : \A n \in D : d <= n
    BY <1>3, Least
  <1>5. PICK x \in S : d = GroupSize - x
    BY <1>4
  <1>6. \A y \in S : GroupSize - x <= GroupSize - y
    BY <1>4, <1>5
  <1>7. \A y \in S : x >= y
    BY <1>1, <1>5, <1>6, GroupAssumption DEF Masters
  <1>8. \A y \in S : Max(S) >= y
    BY <1>7 DEF Max
  <1>9. Max(S) \in S
    BY <1>7 DEF Max
  <1>10. \A q \in up : q <= Max(S)
    BY <1>1, <1>2, <1>8, <1>9, MastersType DEF Round
  <1> QED
    BY <1>10 DEF Leads, Elected

-----------------------------------------------------------------------------
(* Sending *)

\* What m may send to the next master on the ring.
Sendable(g, m) ==
  /\ g \in Messages
  /\ Leads(g.response_result)
  /\ g.protocol_type = "ELECTION" => Arrived(g, m)

\* A message that m makes itself; one that it received and does not keep.
LEMMA NewSendable ==
  ASSUME up \subseteq Masters, NEW m \in Masters, NEW type \in ProtocolType,
         type # "COORDINATOR"
  PROVE  Sendable(NewTrackerProtocol(m, type), m)
  <1>1. PICK g : g = NewTrackerProtocol(m, type)
    OBVIOUS
  <1>2. g \in Messages
    BY <1>1, NewMessageType
  <1>3. g.request_sock_addr = m /\ g.response_sock_addr = {} /\ g.response_result = None
    BY <1>1 DEF NewTrackerProtocol
  <1>4. Arrived(g, m) /\ Leads(g.response_result)
    BY <1>2, <1>3, NewArrived DEF Leads
  <1> QED
    BY <1>1, <1>2, <1>4 DEF Sendable

LEMMA FitSendable ==
  ASSUME up \subseteq Masters, NEW m \in Masters, NEW g \in Fit(m)
  PROVE  Sendable(g, m)
  BY PassedArrived DEF Fit, Sendable

\* SendProtocol to the next master, or of a message that is no election.
LEMMA SendProtocolFits ==
  ASSUME up \subseteq Masters, NEW m \in Masters, NEW n \in Masters, NEW s,
         NEW c \in FitChannels, NEW g, Sendable(g, m),
         g.protocol_type = "ELECTION" =>
           n # m /\ \A q \in up \ {m} : Distance(m, n) <= Distance(m, q)
  PROVE  SendProtocol(m, s, c, n, g) \in FitChannels
  <1>1. PICK h : h = [g EXCEPT !.response_sock_addr = @ \cup {m}]
    OBVIOUS
  <1>2. g \in Messages /\ h \in Messages
    BY <1>1, MessageFields DEF Sendable
  <1>3. h.response_result = g.response_result /\ h.protocol_type = g.protocol_type
    BY <1>1, <1>2 DEF Messages, TrackerProtocol
  <1>4. g.protocol_type = "ELECTION" => Round(h) \/ OnTheWay(h, n)
    BY <1>1, <1>2, SentOn DEF Sendable
  <1>5. h \in Fit(n)
    BY <1>2, <1>3, <1>4 DEF Fit, Sendable
  <1>6. c \in Channels /\ c[m][n] \in Seq(Fit(n))
    BY DEF FitChannels
  <1>7. Append(c[m][n], h) \in Seq(Fit(n))
    BY <1>5, <1>6, AppendProperties
  <1>8. PICK d : d = [c EXCEPT ![m][n] = Append(c[m][n], h)]
    OBVIOUS
  <1>9. \A y, x \in Masters : d[y][x] = IF y = m /\ x = n THEN Append(c[m][n], h) ELSE c[y][x]
    BY <1>6, <1>8 DEF Channels
  <1>10. \A y, x \in Masters : d[y][x] \in Seq(Fit(x))
    BY <1>7, <1>9 DEF FitChannels
  <1>11. SendProtocol(m, s, c, n, g) \in Channels
    BY <1>2, <1>6, SendProtocolType
  <1>12. SendProtocol(m, s, c, n, g) = d \/ SendProtocol(m, s, c, n, g) = c
    BY <1>1, <1>8 DEF SendProtocol
  <1> QED
    BY <1>10, <1>11, <1>12 DEF FitChannels

\* FindNextMaster and SendProtocol.
LEMMA SendToNextFits ==
  ASSUME TypeOK, NEW m \in Masters, NEW s, NEW c \in FitChannels, NEW g,
         Sendable(g, m), SendToNext(m, s, c, g)
  PROVE  chan' \in FitChannels
  <1>1. PICK next : next = FindNextMaster(m, s)
    OBVIOUS
  <1>2. up \subseteq Masters
    BY DEF TypeOK
  <1>3. next # None =>
          next \in Masters \ {m} /\ \A q \in up \ {m} : Distance(m, next) <= Distance(m, q)
    BY <1>1, <1>2, NextSkipsNobody
  <1>4. \/ chan' = c
        \/ next # None /\ chan' = SendProtocol(m, ConnectMaster(s, next), c, next, g)
    BY <1>1 DEF SendToNext
  <1> QED
    BY <1>2, <1>3, <1>4, SendProtocolFits

-----------------------------------------------------------------------------
(* Handlers *)

\* After a handler: nobody takes a master for the primary, and no message names
\* one, that is before a running master.
Kept ==
  /\ \A n \in Masters : Leads(primary_sockaddr'[n])
  /\ chan' \in FitChannels

\* After a step of a heartbeat: it skipped none.
BeatsKept ==
  \A n \in Masters : /\ beat'[n].step # "wait" => SkipsNobody(n, beat'[n].next)
                     /\ beat'[n].step = "send" => beat'[n].next # n

LEMMA SetPrimaryKeeps ==
  ASSUME TypeOK, FitPrimaries, NEW m \in Masters, NEW x, Leads(x), SetPrimary(m, x)
  PROVE  \A n \in Masters : Leads(primary_sockaddr'[n])
  BY DEF TypeOK, SetPrimary, FitPrimaries

\* A master that is alone leads.
LEMMA AskNextOrLeadKeeps ==
  ASSUME TypeOK, FitPrimaries, NEW m \in Masters, NEW c \in FitChannels, NEW g,
         Sendable(g, m), AskNextOrLead(m, c, g)
  PROVE  Kept
  <1>1. up \subseteq Masters
    BY DEF TypeOK
  <1>2. CASE FindNextMaster(m, master_sockets[m]) = None
    <2>1. up \subseteq {m}
      BY <1>1, <1>2, NextSkipsNobody
    <2>2. Leads(m)
      BY <2>1, MastersType DEF Leads
    <2>3. SetPrimary(m, m) /\ chan' = c
      BY <1>2 DEF AskNextOrLead
    <2> QED
      BY <2>2, <2>3, SetPrimaryKeeps DEF Kept
  <1>3. CASE FindNextMaster(m, master_sockets[m]) # None
    <2>1. SendToNext(m, master_sockets[m], c, g) /\ UNCHANGED primary_sockaddr
      BY <1>3 DEF AskNextOrLead
    <2>2. chan' \in FitChannels
      BY <2>1, SendToNextFits
    <2> QED
      BY <2>1, <2>2 DEF Kept, FitPrimaries
  <1> QED
    BY <1>2, <1>3

\* Case ELECTION: the last master the message passed is announced.
LEMMA ElectionKeeps ==
  ASSUME TypeOK, FitPrimaries, NEW m \in Masters, NEW c \in FitChannels,
         NEW g \in Fit(m), HandleElection(m, g, c)
  PROVE  Kept
  <1>1. /\ up \subseteq Masters /\ g \in Messages /\ g.protocol_type = "ELECTION"
        /\ Round(g) \/ OnTheWay(g, m)
    BY DEF TypeOK, Fit, HandleElection
  <1>2. CASE ClosedCircle(m, g)
    <2>1. PICK x : x = Elected(m, g)
      OBVIOUS
    <2>2. x \in Masters /\ Leads(x)
      BY <1>1, <1>2, <2>1, ElectedType, ElectedLeads
    <2>3. PICK h : h = [NewTrackerProtocol(m, "COORDINATOR") EXCEPT !.response_result = x]
      OBVIOUS
    <2>4. h \in Messages
      BY <2>2, <2>3, NewMessageType, MastersType
         DEF Messages, TrackerProtocol, ProtocolType
    <2>5. h.response_result = x /\ h.protocol_type = "COORDINATOR"
      BY <2>3 DEF NewTrackerProtocol
    <2>6. Sendable(h, m)
      BY <2>2, <2>4, <2>5 DEF Sendable
    <2>7. AskNextOrLead(m, c, h)
      BY <1>2, <2>1, <2>3 DEF HandleElection, Coordinator
    <2> QED
      BY <2>6, <2>7, AskNextOrLeadKeeps
  <1>3. CASE ~ClosedCircle(m, g)
    <2>1. SendToNext(m, master_sockets[m], c, g) /\ UNCHANGED primary_sockaddr
      BY <1>3 DEF HandleElection
    <2>2. chan' \in FitChannels
      BY <1>1, <2>1, FitSendable, SendToNextFits
    <2> QED
      BY <2>1, <2>2 DEF Kept, FitPrimaries
  <1> QED
    BY <1>2, <1>3

\* MASTER_JOIN_GROUP names nobody.
LEMMA JoinFits ==
  ASSUME TypeOK, NEW m \in Masters, NEW x \in Masters, NEW c \in FitChannels
  PROVE  JoinMasterGroup(m, c, x) \in FitChannels
  <1>1. PICK g : g = NewTrackerProtocol(m, "MASTER_JOIN_GROUP")
    OBVIOUS
  <1>2. Sendable(g, m) /\ g.protocol_type # "ELECTION"
    BY <1>1, NewSendable, NewMessageType DEF ProtocolType, TypeOK
  <1>3. SendProtocol(m, JoinSockets(m, x), c, x, g) \in FitChannels
    BY <1>2, SendProtocolFits DEF TypeOK
  <1> QED
    BY <1>1, <1>3 DEF JoinMasterGroup

\* Case COORDINATOR: the announced master is taken for the primary, and told.
LEMMA CoordinatorKeeps ==
  ASSUME TypeOK, FitPrimaries, NEW m \in Masters, NEW c \in FitChannels,
         NEW g \in Fit(m), HandleCoordinator(m, g, c)
  PROVE  Kept
  <1>1. up \subseteq Masters /\ g \in Messages /\ Leads(g.response_result)
    BY DEF TypeOK, Fit
  <1>2. g.response_result \in Masters
    BY <1>1, MessageFields DEF HandleCoordinator, Messages
  <1>3. \A n \in Masters : Leads(primary_sockaddr'[n])
    BY <1>1, SetPrimaryKeeps DEF HandleCoordinator
  <1>4. \/ chan' = c
        \/ SendToNext(m, JoinSockets(m, g.response_result),
                      JoinMasterGroup(m, c, g.response_result), g)
    BY DEF HandleCoordinator
  <1>5. JoinMasterGroup(m, c, g.response_result) \in FitChannels
    BY <1>2, JoinFits
  <1>6. chan' \in FitChannels
    BY <1>1, <1>4, <1>5, FitSendable, SendToNextFits
  <1> QED
    BY <1>3, <1>6 DEF Kept

\* Case MASTER_ASK_TRACKER: a master adds the primary it knows, or learns one.
LEMMA AskTrackerKeeps ==
  ASSUME TypeOK, FitPrimaries, NEW m \in Masters, NEW c \in FitChannels,
         NEW g \in Fit(m), HandleAskTracker(m, g, c)
  PROVE  Kept
  <1>1. /\ up \subseteq Masters /\ g \in Messages /\ Leads(g.response_result)
        /\ g.protocol_type = "MASTER_ASK_TRACKER"
    BY DEF TypeOK, Fit, HandleAskTracker
  <1>2. CASE Election(m, c)
    <2>1. Sendable(NewTrackerProtocol(m, "ELECTION"), m)
      BY <1>1, NewSendable DEF ProtocolType
    <2> QED
      BY <1>2, <2>1, AskNextOrLeadKeeps DEF Election
  <1>3. CASE /\ g.response_result # None
             /\ SetPrimary(m, g.response_result)
             /\ chan' = JoinMasterGroup(m, c, g.response_result)
    <2>1. g.response_result \in Masters
      BY <1>1, <1>3, MessageFields
    <2> QED
      BY <1>1, <1>3, <2>1, JoinFits, SetPrimaryKeeps DEF Kept
  <1>4. CASE /\ SendToNext(m, master_sockets[m], c,
                   IF g.response_result # None THEN g
                   ELSE [g EXCEPT !.response_result = primary_sockaddr[m]])
             /\ UNCHANGED primary_sockaddr
    <2>1. PICK h : h = IF g.response_result # None THEN g
                       ELSE [g EXCEPT !.response_result = primary_sockaddr[m]]
      OBVIOUS
    <2>2. primary_sockaddr[m] \in Masters \cup {None} /\ Leads(primary_sockaddr[m])
      BY DEF TypeOK, FitPrimaries
    <2>3. h \in Messages
      BY <1>1, <2>1, <2>2, MessageFields
    <2>4. /\ h.protocol_type = "MASTER_ASK_TRACKER"
          /\ h.response_result \in {g.response_result, primary_sockaddr[m]}
      BY <1>1, <2>1 DEF Messages, TrackerProtocol
    <2>5. Sendable(h, m)
      BY <1>1, <2>2, <2>3, <2>4 DEF Sendable
    <2>6. chan' \in FitChannels
      BY <1>4, <2>1, <2>5, SendToNextFits
    <2> QED
      BY <1>4, <2>6 DEF Kept, FitPrimaries
  <1> QED
    BY <1>2, <1>3, <1>4 DEF HandleAskTracker, LearnPrimary

\* MASTER_GROUP_CHANGED names the group, and nobody as primary.
LEMMA GroupChangedFits ==
  ASSUME TypeOK, NEW m \in Masters, NEW s, NEW c \in FitChannels,
         MasterGroupChanged(m, s, c)
  PROVE  chan' \in FitChannels
  <1>1. PICK A : A = {m} \cup {x \in Masters : s[x] # "none"}
    OBVIOUS
  <1>2. PICK f : f = NewTrackerProtocol(m, "MASTER_GROUP_CHANGED")
    OBVIOUS
  <1>3. PICK h : h = [f EXCEPT !.request_args = A]
    OBVIOUS
  <1>4. Sendable(f, m) /\ f.protocol_type = "MASTER_GROUP_CHANGED"
    BY <1>2, NewSendable, NewMessageType DEF ProtocolType, TypeOK
  <1>5. f \in Messages /\ A \in SUBSET Masters
    BY <1>1, <1>4 DEF Sendable
  <1>6. h \in Messages
    BY <1>3, <1>5, MessageFields
  <1>7. h.response_result = f.response_result /\ h.protocol_type = f.protocol_type
    BY <1>3, <1>5 DEF Messages, TrackerProtocol
  <1>8. Sendable(h, m)
    BY <1>4, <1>6, <1>7 DEF Sendable
  <1>9. chan' = c \/ SendToNext(m, s, c, h)
    BY <1>1, <1>2, <1>3 DEF MasterGroupChanged
  <1> QED
    BY <1>8, <1>9, SendToNextFits

\* Cases MASTER_JOIN_GROUP and MASTER_GROUP_CHANGED.
LEMMA GroupKeeps ==
  ASSUME TypeOK, FitPrimaries, NEW m \in Masters, NEW c \in FitChannels,
         NEW g \in Fit(m), HandleJoinGroup(m, g, c) \/ HandleGroupChanged(m, g, c)
  PROVE  Kept
  <1>1. UNCHANGED primary_sockaddr
    BY DEF HandleJoinGroup, HandleGroupChanged
  <1>2. chan' \in FitChannels
    <2>1. CASE HandleJoinGroup(m, g, c)
      BY <2>1, GroupChangedFits DEF HandleJoinGroup
    <2>2. CASE HandleGroupChanged(m, g, c)
      <3>1. chan' = c \/ \E s : SendToNext(m, s, c, g)
        BY <2>2 DEF HandleGroupChanged
      <3> QED
        BY <3>1, FitSendable, SendToNextFits DEF TypeOK
    <2> QED
      BY <2>1, <2>2
  <1> QED
    BY <1>1, <1>2 DEF Kept, FitPrimaries

-----------------------------------------------------------------------------
(* Steps *)

\* With the same or fewer running masters what was fit stays so.
LEMMA FewerRunning ==
  ASSUME up' \subseteq up, Kept, BeatsKept
  PROVE  FitPrimaries' /\ FitBeats' /\ (chan \in FitChannels)'
  <1>1. FitPrimaries'
    BY DEF Kept, FitPrimaries, Leads
  <1>2. \A m \in Masters : Fit(m) \subseteq Fit(m)'
    BY DEF Fit, Leads, Round, OnTheWay, Behind
  <1>3. chan' \in Channels /\ \A y, m \in Masters : chan'[y][m] \in Seq(Fit(m))
    BY DEF Kept, FitChannels
  <1>4. \A y, m \in Masters : chan'[y][m] \in Seq(Fit(m)')
    BY <1>2, <1>3, SeqMonotonic
  <1>5. FitBeats'
    BY DEF BeatsKept, FitBeats, SkipsNobody
  <1> QED
    BY <1>1, <1>3, <1>4, <1>5 DEF FitChannels

\* ProtocolProcess.
LEMMA ProtocolProcessKeeps ==
  ASSUME TypeOK, FitPrimaries, chan \in FitChannels,
         NEW x \in Masters, NEW m \in Masters, ProtocolProcess(x, m)
  PROVE  Kept /\ up' = up /\ beat' = beat
  <1>1. /\ chan \in Channels /\ chan[x][m] \in Seq(Fit(m)) /\ chan[x][m] # <<>>
        /\ up' = up /\ beat' = beat
    BY DEF FitChannels, ProtocolProcess
  <1>2. PICK g : g = Head(chan[x][m])
    OBVIOUS
  <1>3. PICK c : c = [chan EXCEPT ![x][m] = Tail(chan[x][m])]
    OBVIOUS
  <1>4. g \in Fit(m) /\ Tail(chan[x][m]) \in Seq(Fit(m))
    BY <1>1, <1>2, HeadTailProperties
  <1>5. c \in Channels
    <2>1. Fit(m) \subseteq Messages
      BY DEF Fit
    <2>2. Tail(chan[x][m]) \in Seq(Messages)
      BY <1>4, <2>1, SeqMonotonic
    <2> QED
      BY <1>1, <1>3, <2>2 DEF Channels
  <1>6. \A y, n \in Masters : c[y][n] = IF y = x /\ n = m THEN Tail(chan[x][m]) ELSE chan[y][n]
    BY <1>1, <1>3 DEF Channels
  <1>7. c \in FitChannels
    BY <1>4, <1>5, <1>6 DEF FitChannels
  <1>8. \/ HandleElection(m, g, c) \/ HandleCoordinator(m, g, c)
        \/ HandleAskTracker(m, g, c) \/ HandleJoinGroup(m, g, c)
        \/ HandleGroupChanged(m, g, c)
    BY <1>2, <1>3 DEF ProtocolProcess
  <1> QED
    BY <1>1, <1>4, <1>7, <1>8, ElectionKeeps, CoordinatorKeeps, AskTrackerKeeps, GroupKeeps

\* The end of a process.
LEMMA EndsKeeps ==
  ASSUME TypeOK, FitPrimaries, FitBeats, chan \in FitChannels, NEW m \in Masters, Ends(m)
  PROVE  Kept /\ BeatsKept /\ up' \subseteq up
  <1>1. chan \in Channels /\ \A y, n \in Masters : chan[y][n] \in Seq(Fit(n))
    BY DEF FitChannels
  <1>2. <<>> \in Seq(Messages) /\ \A n \in Masters : <<>> \in Seq(Fit(n))
    BY EmptySeq
  <1>3. chan' \in Channels
    BY <1>1, <1>2 DEF Ends, Channels
  <1>4. \A y, n \in Masters : chan'[y][n] = IF n = m THEN <<>> ELSE chan[y][n]
    BY <1>1 DEF Ends, Channels
  <1>5. chan' \in FitChannels
    BY <1>1, <1>2, <1>3, <1>4 DEF FitChannels
  <1>6. \A n \in Masters : Leads(primary_sockaddr'[n])
    <2>1. \A n \in Masters : primary_sockaddr'[n] = IF n = m THEN None ELSE primary_sockaddr[n]
      BY DEF TypeOK, Ends
    <2> QED
      BY <2>1 DEF Leads, FitPrimaries
  <1>7. BeatsKept
    <2>1. \A n \in Masters : beat'[n] = IF n = m THEN Waiting(m) ELSE beat[n]
      BY DEF TypeOK, Ends
    <2>2. Waiting(m).step = "wait"
      BY DEF Waiting
    <2> QED
      BY <2>1, <2>2 DEF BeatsKept, FitBeats
  <1> QED
    BY <1>5, <1>6, <1>7 DEF Kept, Ends

\* Setting one heartbeat.
LEMMA SetBeatKeeps ==
  ASSUME TypeOK, FitBeats, NEW m \in Masters, NEW b, SetBeat(m, b),
         b.step # "wait" => SkipsNobody(m, b.next),
         b.step = "send" => b.next # m
  PROVE  BeatsKept
  <1>1. \A n \in Masters : beat'[n] = IF n = m THEN b ELSE beat[n]
    BY DEF TypeOK, SetBeat
  <1> QED
    BY <1>1 DEF BeatsKept, FitBeats

\* A search that begins behind m.
LEMMA FindKeeps ==
  ASSUME TypeOK, FitBeats, NEW m \in Masters, NEW type, Find(m, type)
  PROVE  BeatsKept
  <1>1. PICK b : b = [step |-> "find", round |-> type, next |-> NextMasterAddress(m)]
    OBVIOUS
  <1>2. up \subseteq Masters
    BY DEF TypeOK
  <1>3. \A q \in up \ {m} : Distance(m, m) <= Distance(m, q)
    BY <1>2, DistanceAdds
  <1>4. SkipsNobody(m, NextMasterAddress(m))
    BY <1>2, <1>3, SearchGoesOn
  <1>5. b.step = "find" /\ b.next = NextMasterAddress(m) /\ SetBeat(m, b)
    BY <1>1 DEF Find
  <1> QED
    BY <1>4, <1>5, SetBeatKeeps

\* The steps of HeartBeat: a master that finds nobody is alone, and one that
\* sends an election has skipped nobody, however late it is.
LEMMA HeartBeatKeeps ==
  ASSUME TypeOK, FitPrimaries, FitBeats, chan \in FitChannels, NEW m \in Masters,
         HeartBeat(m)
  PROVE  Kept /\ BeatsKept /\ up' \subseteq up
  <1>0. up \subseteq Masters /\ beat[m] \in Beats
    BY DEF TypeOK
  <1>1. CASE HeartBeatAsks(m)
    <2>1. UNCHANGED <<up, primary_sockaddr, chan>> /\ Find(m, "MASTER_ASK_TRACKER")
      BY <1>1 DEF HeartBeatAsks
    <2> QED
      BY <2>1, FindKeeps DEF Kept, FitPrimaries
  <1>2. CASE HeartBeatConnects(m)
    <2>1. PICK x \in Masters : x = beat[m].next
      BY <1>0, BeatTypes
    <2>2. /\ UNCHANGED <<up, primary_sockaddr, chan>>
          /\ beat[m].step = "find" /\ x # m
      BY <1>2, <2>1 DEF HeartBeatConnects, BeatAt
    <2>3. SkipsNobody(m, x)
      BY <2>1, <2>2 DEF FitBeats
    <2>4. CASE CanConnect(master_sockets[m], x)
      <3>1. PICK b : b = [beat[m] EXCEPT !.step = "send"]
        OBVIOUS
      <3>2. b.step = "send" /\ b.next = x
        BY <1>0, <2>1, <3>1 DEF Beats
      <3>3. SetBeat(m, b)
        BY <1>2, <2>1, <2>4, <3>1 DEF HeartBeatConnects
      <3>4. BeatsKept
        BY <2>2, <2>3, <3>2, <3>3, SetBeatKeeps
      <3> QED
        BY <2>2, <3>4 DEF Kept, FitPrimaries
    <2>5. CASE ~CanConnect(master_sockets[m], x)
      <3>1. PICK b : b = [beat[m] EXCEPT !.next = NextMasterAddress(x)]
        OBVIOUS
      <3>2. b.step = "find" /\ b.next = NextMasterAddress(x)
        BY <1>0, <2>2, <3>1 DEF Beats
      <3>3. SetBeat(m, b)
        BY <1>2, <2>1, <2>5, <3>1 DEF HeartBeatConnects
      <3>4. x \notin up
        BY <2>5 DEF CanConnect
      <3>5. \A q \in up \ {m} : q # x /\ Distance(m, x) <= Distance(m, q)
        BY <2>2, <2>3, <3>4 DEF SkipsNobody
      <3>6. SkipsNobody(m, NextMasterAddress(x))
        BY <1>0, <3>5, SearchGoesOn
      <3>7. BeatsKept
        BY <3>2, <3>3, <3>6, SetBeatKeeps
      <3> QED
        BY <2>2, <3>7 DEF Kept, FitPrimaries
    <2> QED
      BY <2>4, <2>5
  <1>3. CASE HeartBeatFindsNobody(m)
    <2>1. UNCHANGED <<up, chan>> /\ beat[m].step = "find" /\ beat[m].next = m
      BY <1>3 DEF HeartBeatFindsNobody, BeatAt
    <2>2. CASE Find(m, "ELECTION") /\ UNCHANGED primary_sockaddr
      BY <2>1, <2>2, FindKeeps DEF Kept, FitPrimaries
    <2>3. CASE SetBeat(m, Waiting(m)) /\ SetPrimary(m, m)
      <3>1. up \subseteq {m}
        BY <2>1 DEF FitBeats, SkipsNobody
      <3>2. Leads(m)
        BY <3>1, MastersType DEF Leads
      <3>3. Kept
        BY <2>1, <2>3, <3>2, SetPrimaryKeeps DEF Kept
      <3>4. Waiting(m).step = "wait"
        BY DEF Waiting
      <3>5. BeatsKept
        BY <2>3, <3>4, SetBeatKeeps
      <3> QED
        BY <2>1, <3>3, <3>5
    <2> QED
      BY <1>3, <2>2, <2>3 DEF HeartBeatFindsNobody
  <1>4. CASE HeartBeatSends(m)
    <2>1. CASE Ends(m)
      BY <2>1, EndsKeeps
    <2>2. CASE /\ chan' = SendProtocol(m, master_sockets[m], chan, beat[m].next,
                                      NewTrackerProtocol(m, beat[m].round))
               /\ SetBeat(m, Waiting(m))
               /\ UNCHANGED <<up, primary_sockaddr>>
      <3>1. PICK x \in Masters : x = beat[m].next
        BY <1>0, BeatTypes
      <3>2. x # m /\ SkipsNobody(m, x)
        BY <1>4, <3>1 DEF HeartBeatSends, BeatAt, FitBeats
      <3>3. Sendable(NewTrackerProtocol(m, beat[m].round), m)
        BY <1>0, BeatTypes, NewSendable
      <3>4. chan' \in FitChannels
        BY <1>0, <2>2, <3>1, <3>2, <3>3, SendProtocolFits DEF SkipsNobody
      <3>5. Waiting(m).step = "wait"
        BY DEF Waiting
      <3>6. BeatsKept
        BY <2>2, <3>5, SetBeatKeeps
      <3> QED
        BY <2>2, <3>4, <3>6 DEF Kept, FitPrimaries
    <2> QED
      BY <1>4, <2>1, <2>2 DEF HeartBeatSends
  <1> QED
    BY <1>1, <1>2, <1>3, <1>4 DEF HeartBeat

\* SocketClose, whichever entry it finds.
LEMMA OfflineKeeps ==
  ASSUME TypeOK, FitPrimaries, chan \in FitChannels, NEW m \in Masters, NEW s, NEW x,
         MasterOffline(m, s, x)
  PROVE  Kept
  <1>1. CASE primary_sockaddr[m] = x
    <2>1. SetPrimary(m, None) /\ UNCHANGED chan
      BY <1>1 DEF MasterOffline
    <2> QED
      BY <2>1, SetPrimaryKeeps DEF Kept, Leads
  <1>2. CASE primary_sockaddr[m] # x
    <2>1. MasterGroupChanged(m, s, chan) /\ UNCHANGED primary_sockaddr
      BY <1>2 DEF MasterOffline
    <2> QED
      BY <2>1, GroupChangedFits DEF Kept, FitPrimaries
  <1> QED
    BY <1>1, <1>2

\* HeartBeat, SocketClose and the exchange loop.
LEMMA MasterKeeps ==
  ASSUME TypeOK, FitPrimaries, FitBeats, chan \in FitChannels, NEW m \in Masters,
         MasterStep(m)
  PROVE  Kept /\ BeatsKept /\ up' \subseteq up
  <1>1. CASE HeartBeatRequests(m)
    BY <1>1, EndsKeeps DEF HeartBeatRequests
  <1>2. CASE ExchangeWaits(m)
    BY <1>2 DEF ExchangeWaits, Kept, BeatsKept, FitBeats, FitPrimaries
  <1>3. ASSUME NEW x \in Masters, SocketClose(m, x)
        PROVE  Kept /\ BeatsKept /\ up' \subseteq up
    <2>1. UNCHANGED <<up, beat>>
      BY <1>3 DEF SocketClose
    <2>2. \/ UNCHANGED <<primary_sockaddr, chan>>
          \/ \E s, y : MasterOffline(m, s, y)
      BY <1>3 DEF SocketClose
    <2>3. Kept
      BY <2>2, OfflineKeeps DEF Kept, FitPrimaries
    <2> QED
      BY <2>1, <2>3 DEF BeatsKept, FitBeats
  <1>4. ASSUME NEW x \in Masters, ProtocolProcess(x, m)
        PROVE  Kept /\ BeatsKept /\ up' \subseteq up
    BY <1>4, ProtocolProcessKeeps DEF BeatsKept, FitBeats
  <1> QED
    BY <1>1, <1>2, <1>3, <1>4, HeartBeatKeeps DEF MasterStep

\* A read that returns two messages keeps the way of the second, and may take the
\* announced master of the first.
LEMMA ChannelKeeps ==
  ASSUME TypeOK, FitPrimaries, FitBeats, chan \in FitChannels,
         NEW x \in Masters, NEW m \in Masters,
         EpollReadMerges(x, m) \/ LoseUnsent(x, m)
  PROVE  Kept /\ BeatsKept /\ up' \subseteq up
  <1>0. chan \in Channels /\ \A y, n \in Masters : chan[y][n] \in Seq(Fit(n))
    BY DEF FitChannels
  <1>1. PICK q : q = chan[x][m]
    OBVIOUS
  <1>2. q \in Seq(Fit(m))
    BY <1>0, <1>1
  <1>3. Len(q) \in Nat /\ \A i \in 1 .. Len(q) : q[i] \in Fit(m)
    BY <1>2, ElementOfSeq, LenProperties
  <1>4. ASSUME NEW r \in Seq(Fit(m)), chan' = [chan EXCEPT ![x][m] = r]
        PROVE  chan' \in FitChannels
    <2>1. Fit(m) \subseteq Messages
      BY DEF Fit
    <2>2. r \in Seq(Messages)
      BY <2>1, SeqMonotonic
    <2>3. chan' \in Channels
      BY <1>0, <1>4, <2>2 DEF Channels
    <2>4. \A y, n \in Masters : chan'[y][n] = IF y = x /\ n = m THEN r ELSE chan[y][n]
      BY <1>0, <1>4 DEF Channels
    <2> QED
      BY <1>0, <2>3, <2>4 DEF FitChannels
  <1>5. CASE EpollReadMerges(x, m)
    <2>1. PICK g : g = IF q[2].response_result # None THEN q[2]
                       ELSE [q[2] EXCEPT !.response_result = q[1].response_result]
      OBVIOUS
    <2>2. /\ chan' = [chan EXCEPT ![x][m] = <<g>> \o SubSeq(q, 3, Len(q))]
          /\ Len(q) >= 2 /\ UNCHANGED <<up, primary_sockaddr, beat>>
      BY <1>1, <1>5, <2>1 DEF EpollReadMerges
    <2>3. q[1] \in Fit(m) /\ q[2] \in Fit(m)
      BY <1>3, <2>2
    <2>4. q[1] \in Messages /\ q[2] \in Messages
      BY <2>3 DEF Fit
    <2>5. g \in Messages
      BY <2>1, <2>4, MessageFields
    <2>6. /\ g.protocol_type = q[2].protocol_type
          /\ g.request_sock_addr = q[2].request_sock_addr
          /\ g.response_sock_addr = q[2].response_sock_addr
          /\ g.response_result \in {q[1].response_result, q[2].response_result}
      BY <2>1, <2>4 DEF Messages, TrackerProtocol
    <2>7. g \in Fit(m)
      BY <2>3, <2>5, <2>6 DEF Fit, Round, OnTheWay, Behind
    <2>8. SubSeq(q, 3, Len(q)) \in Seq(Fit(m))
      <3>1. \A i \in 3 .. Len(q) : q[i] \in Fit(m)
        BY <1>3
      <3> QED
        BY <1>3, <3>1, SubSeqProperties
    <2>9. <<g>> \in Seq(Fit(m))
      BY <2>7
    <2>10. <<g>> \o SubSeq(q, 3, Len(q)) \in Seq(Fit(m))
      BY <2>8, <2>9, ConcatProperties
    <2>11. chan' \in FitChannels
      BY <1>4, <2>2, <2>10
    <2> QED
      BY <2>2, <2>11 DEF Kept, BeatsKept, FitBeats, FitPrimaries
  <1>6. CASE LoseUnsent(x, m)
    <2>1. /\ chan' = [chan EXCEPT ![x][m] = SubSeq(q, 1, Len(q) - 1)]
          /\ UNCHANGED <<up, primary_sockaddr, beat>>
      BY <1>1, <1>6 DEF LoseUnsent, Front
    <2>2. SubSeq(q, 1, Len(q) - 1) \in Seq(Fit(m))
      <3>1. \A i \in 1 .. Len(q) - 1 : q[i] \in Fit(m)
        BY <1>3
      <3> QED
        BY <1>3, <3>1, SubSeqProperties
    <2>3. chan' \in FitChannels
      BY <1>4, <2>1, <2>2
    <2> QED
      BY <2>1, <2>3 DEF Kept, BeatsKept, FitBeats, FitPrimaries
  <1> QED
    BY <1>5, <1>6

-----------------------------------------------------------------------------
(* The invariant and what follows from it *)

\* In the beginning nobody is taken for the primary.
LEMMA PassedOverInit == Init => NobodyPassedOver
  <1> SUFFICES ASSUME Init PROVE FitPrimaries /\ FitBeats /\ chan \in FitChannels
    BY DEF NobodyPassedOver
  <1>1. FitPrimaries
    BY DEF Init, FitPrimaries, Leads
  <1>2. <<>> \in Seq(Messages) /\ \A n \in Masters : <<>> \in Seq(Fit(n))
    BY EmptySeq
  <1>3. chan \in Channels
    BY <1>2 DEF Init, Channels
  <1>4. \A y, n \in Masters : chan[y][n] = <<>>
    BY DEF Init
  <1>5. FitBeats
    BY DEF Init, FitBeats, Waiting
  <1> QED
    BY <1>1, <1>2, <1>3, <1>4, <1>5 DEF FitChannels

\* Every step keeps the invariant.
LEMMA PassedOverStep == IInv /\ NobodyPassedOver /\ [Next]_vars => NobodyPassedOver'
  <1> SUFFICES ASSUME IInv, NobodyPassedOver, [Next]_vars, starts' = 0
               PROVE  FitPrimaries' /\ FitBeats' /\ (chan \in FitChannels)'
    BY DEF NobodyPassedOver
  <1>1. TypeOK
    BY DEF IInv
  <1>2. CASE UNCHANGED vars
    <2>1. FitPrimaries /\ FitBeats /\ chan \in FitChannels
      BY <1>2 DEF vars, counts, NobodyPassedOver
    <2>2. UNCHANGED <<up, chan, primary_sockaddr, beat>>
      BY <1>2 DEF vars
    <2>3. Kept /\ BeatsKept
      BY <2>1, <2>2 DEF Kept, BeatsKept, FitBeats, FitPrimaries
    <2> QED
      BY <2>2, <2>3, FewerRunning
  <1>3. CASE Next
    <2>1. starts \in Nat
      BY <1>1, GroupAssumption DEF TypeOK
    <2>2. starts = 0
      <3>1. starts' = starts \/ starts' = starts + 1
        <4>1. ASSUME NEW m \in Masters, MasterStep(m) PROVE starts' = starts
          BY <4>1 DEF MasterStep, HeartBeat, HeartBeatAsks, HeartBeatConnects,
             HeartBeatFindsNobody, HeartBeatSends, HeartBeatRequests, ExchangeWaits,
             ProtocolProcess, SocketClose, counts
        <4>2. ASSUME Environment PROVE starts' = starts \/ starts' = starts + 1
          BY <4>2 DEF Environment, Crash, Start, LoseUnsent, EpollReadMerges, counts
        <4> QED
          BY <1>3, <4>1, <4>2 DEF Next
      <3> QED
        BY <2>1, <3>1
    <2>3. FitPrimaries /\ FitBeats /\ chan \in FitChannels
      BY <2>2 DEF NobodyPassedOver
    <2>4. Kept /\ BeatsKept /\ up' \subseteq up
      <3>1. ASSUME NEW m \in Masters, MasterStep(m) PROVE Kept /\ BeatsKept /\ up' \subseteq up
        BY <1>1, <2>3, <3>1, MasterKeeps
      <3>2. ASSUME NEW m \in Masters, Crash(m) PROVE Kept /\ BeatsKept /\ up' \subseteq up
        BY <1>1, <2>3, <3>2, EndsKeeps DEF Crash
      <3>3. ASSUME NEW m \in Masters, Start(m) PROVE FALSE
        BY <2>1, <3>3 DEF Start
      <3>4. ASSUME NEW m \in Masters, NEW x \in Masters,
                   LoseUnsent(m, x) \/ EpollReadMerges(m, x)
            PROVE  Kept /\ BeatsKept /\ up' \subseteq up
        BY <1>1, <2>3, <3>4, ChannelKeeps
      <3> QED
        BY <1>3, <3>1, <3>2, <3>3, <3>4 DEF Next, Environment
    <2> QED
      BY <2>4, FewerRunning
  <1> QED
    BY <1>2, <1>3

\* No running master is passed over by a message or a primary, while no master
\* was started after the others.
THEOREM NobodyIsPassedOver == Spec => []NobodyPassedOver
  BY PassedOverInit, PassedOverStep, ElectionInvariant, PTL DEF Spec

\* While no master was started after the others, at most one running master takes
\* itself for the primary, whatever crashes, messages, merged reads, resets and
\* overtaken heartbeats do.
THEOREM OnePrimary == Spec => [](starts = 0 => SinglePrimary)
  <1>1. IInv /\ NobodyPassedOver => (starts = 0 => SinglePrimary)
    <2> SUFFICES ASSUME IInv, NobodyPassedOver, starts = 0, NEW m \in up, NEW x \in up,
                        primary_sockaddr[m] = m, primary_sockaddr[x] = x
                 PROVE  m = x
      BY DEF SinglePrimary, LateStart, IAmPrimaryMaster
    <2>1. m \in Masters /\ x \in Masters
      BY DEF IInv, TypeOK
    <2>2. m <= x /\ x <= m
      BY <2>1, MastersType DEF NobodyPassedOver, FitPrimaries, Leads
    <2> QED
      BY <2>1, <2>2, MastersType
  <1> QED
    BY <1>1, NobodyIsPassedOver, ElectionInvariant, PTL

\* Under the same condition a primary that runs is the last running master of
\* tracker_group, and so the same for all who take a running one for it.
THEOREM LastMasterIsPrimary == Spec => [](starts = 0 => LastMasterLeads)
  <1>1. IInv /\ NobodyPassedOver => (starts = 0 => LastMasterLeads)
    BY MastersType
       DEF IInv, TypeOK, NobodyPassedOver, FitPrimaries, Leads, LastMasterLeads
  <1> QED
    BY <1>1, NobodyIsPassedOver, ElectionInvariant, PTL
=============================================================================
