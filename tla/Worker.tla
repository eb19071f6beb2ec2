------------------------------- MODULE Worker -------------------------------
(***************************************************************************)
(* A FastDCS worker (server/worker.cc, demo/dict_worker.cc).  Its threads  *)
(* share the task table fdcs_env_ and the table of sockets to masters:     *)
(*   - the computing threads take tasks and complete them (Computing);     *)
(*   - HeartBeatThread reports results and asks for tasks (RequestTask), or *)
(*     asks for the primary (AskTracker);                                  *)
(*   - SocketThread handles the answers (ProtocolProcess);                 *)
(*   - the epoll thread closes sockets (SocketClose).                      *)
(* Each access to shared state is an action of its own.  Masters are the   *)
(* environment: they crash, come back, and answer what they like.          *)
(***************************************************************************)
EXTENDS Enviroment

CONSTANTS
  Threads,       \* computing threads
  Masters,       \* tracker_group, numbered in the order it lists them
  RingOrder,     \* masters as this worker's address meets them on the ring
  None,          \* no address, no task, no socket
  TaskDuplicate, \* settings task_duplicate: tasks in one answer
  MaxRequests,   \* bound: requests under way
  MaxExpiries,   \* bound: leases that run out while the worker has the task
  MaxCrashes,    \* bound: crashes of a master
  MaxResets      \* bound: closed sockets whose peer getpeername cannot tell

ASSUME WorkerAssumption ==
  /\ IsFiniteSet(Masters) /\ Masters # {} /\ Masters = 1 .. Cardinality(Masters)
  /\ RingOrder \in [Masters -> Masters]
  /\ \A i, j \in Masters : RingOrder[i] = RingOrder[j] => i = j
  /\ None \notin Masters \cup Tasks
  /\ {TaskDuplicate, MaxRequests, MaxExpiries, MaxCrashes, MaxResets}
       \subseteq Nat

VARIABLES
  running,     \* the process has not aborted or crashed
  is_master,   \* never assigned in a worker: what the allocation left there
  up,          \* masters that run
  broken,      \* masters whose end of our socket is gone
  sockets,     \* masters with an entry in master_sockets_
  dead,        \* masters whose entry has lost its buffers and its descriptor
  conhash,     \* masters in master_conhash_
  primary,     \* primary_sockaddr_
  asked,       \* masters that got a WORKER_ASK_TRACKER from us
  env,         \* fdcs_env_
  words,       \* per task: how often ComputingUDF added words to its object
  pc,          \* per thread: where it is in Computing
  task,        \* per thread: the task whose object it points to
  dangling,    \* threads whose object was deleted meanwhile
  beat,        \* where HeartBeatThread is
  target,      \* the master FindMaster or FindOwnerMaster has come to, and
               \* then the one whose socket the request goes to
  report,      \* the results RequestTask has copied into its message
  pointer,     \* the result it copies next; None: deleted meanwhile
  shifted,     \* completed_tasks_ was replaced under the copying loop
  requests,    \* WORKER_REQUEST_TASK messages without an answer yet
  overlap,     \* a request was begun while another one had no answer
  cut,         \* a request lost its socket before it was sent
  dropped,     \* a result was deleted that no message carries
  expired,     \* a lease ran out, or the clock was moved over one
  expiries, crashes, resets   \* counters for the bounds

table == <<env, words>>
computing == <<pc, task>>
message == <<report, pointer, shifted>>
heart == <<beat, target, message>>
masters == <<up, crashes>>
connections == <<broken, sockets, dead, conhash, primary, asked, resets>>
network == <<masters, connections>>
history == <<overlap, cut, dropped, expired>>
vars == <<running, is_master, network, table, computing, dangling, heart,
          requests, history, expiries>>

ThreadSteps == {"check", "to_wait", "wait", "get", "compute", "complete"}
BeatSteps == {"wait", "beat", "find", "ask", "owner", "primary", "socket",
              "copy", "write", "clear", "send"}

\* Every variable stays in its range; requests is bounded although answers and
\* requests cross.
TypeOK ==
  /\ running \in BOOLEAN /\ is_master \in BOOLEAN
  /\ up \subseteq Masters
  /\ broken \subseteq sockets \ dead /\ dead \subseteq sockets
  /\ sockets \subseteq Masters /\ conhash \subseteq Masters
  /\ asked \subseteq Masters /\ primary \in Masters \cup {None}
  /\ env \in Enviroments /\ words \in [Tasks -> Nat]
  /\ pc \in [Threads -> ThreadSteps]
  /\ task \in [Threads -> Tasks \cup {None}] /\ dangling \subseteq Threads
  /\ beat \in BeatSteps /\ target \in Masters \cup {None}
  /\ report \in [Tasks -> Nat]
  /\ pointer \in Tasks \cup {None} /\ shifted \in BOOLEAN
  /\ requests \in 0 .. MaxRequests
  /\ overlap \in BOOLEAN /\ cut \in BOOLEAN
  /\ dropped \in BOOLEAN /\ expired \in BOOLEAN
  /\ expiries \in 0 .. MaxExpiries
  /\ crashes \in 0 .. MaxCrashes /\ resets \in 0 .. MaxResets

First(S) == CHOOSE m \in S : \A n \in S : m <= n

\* FindMaster needs a master (CHECK_GT); the ring gets every node unless the
\* worker takes itself for a master.
Init ==
  /\ running = TRUE /\ is_master \in BOOLEAN
  /\ up \in (SUBSET Masters) \ {{}}
  /\ broken = {} /\ dead = {} /\ sockets = {First(up)}
  /\ conhash = IF is_master THEN {} ELSE Masters
  /\ primary = None /\ asked = {}
  /\ env = EmptyEnviroment /\ words = NoResult
  /\ pc = [h \in Threads |-> "check"]
  /\ task = [h \in Threads |-> None] /\ dangling = {}
  /\ beat = "beat" /\ target = None
  /\ report = NoResult /\ pointer = None /\ shifted = FALSE
  /\ requests = 0
  /\ overlap = FALSE /\ cut = FALSE /\ dropped = FALSE /\ expired = FALSE
  /\ expiries = 0 /\ crashes = 0 /\ resets = 0

Abort == running' = FALSE

-----------------------------------------------------------------------------
(* Computing *)

ThreadAt(h, from, to) ==
  /\ running
  /\ pc[h] = from
  /\ pc' = [pc EXCEPT ![h] = to]

\* while (TasksSize() == 0): the table is read under its own mutex, not under
\* the one this thread waits with.  An idle thread signals HeartBeatThread.
CheckTasks(h) ==
  /\ ThreadAt(h, "check", IF env.tasks = {} THEN "to_wait" ELSE "get")
  /\ beat' = IF env.tasks = {} /\ beat = "wait" THEN "beat" ELSE beat
  /\ UNCHANGED <<running, is_master, network, table, task, dangling, target,
                 message, requests, history, expiries>>

Wait(h) ==
  /\ ThreadAt(h, "to_wait", "wait")
  /\ UNCHANGED <<running, is_master, network, table, task, dangling, heart,
                 requests, history, expiries>>

\* Mutant of TimeOut: Wait without a timeout.
NeverTimeOut(h) == FALSE /\ ThreadAt(h, "wait", "check") /\ UNCHANGED vars

\* Wait(&mutex_computing_[i], 5000) returns after five seconds at the latest
TimeOut(h) ==
  /\ ThreadAt(h, "wait", "check")
  /\ UNCHANGED <<running, is_master, network, table, task, dangling, heart,
                 requests, history, expiries>>

\* Mutant of Take: the lease is not written.
TakeUnleased(e, L) == e

\* Enviroment::GetIdleTask: the first idle task of the map, leased
Take(e, L) == SetLease(e, L)

GetIdleTask(h) ==
  LET first == FirstIdle(env, 1)
  IN  /\ ThreadAt(h, "get", IF first = {} THEN "check" ELSE "compute")
      /\ env' = Take(env, first)
      /\ task' = [task EXCEPT ![h] = IF first = {} THEN None
                                     ELSE CHOOSE t \in first : TRUE]
      /\ UNCHANGED <<running, is_master, network, words, dangling, heart,
                     requests, history, expiries>>

\* DictWorker::ComputingUDF adds one key_values_pair with the words it counted
\* to the task's object.  A failed SELECT adds nothing, and the caller does
\* not look at the result.  Writing through a dangling pointer may crash.
ComputingUDF(h) ==
  /\ ThreadAt(h, "compute", "complete")
  /\ \/ /\ h \notin dangling
        /\ words' = [words EXCEPT ![task[h]] = @ + 1]
        /\ UNCHANGED running
     \/ UNCHANGED <<running, words>>
     \/ /\ h \in dangling
        /\ running' \in BOOLEAN
        /\ UNCHANGED words
  /\ UNCHANGED <<is_master, network, env, task, dangling, heart, requests,
                 history, expiries>>

\* fdcs_env_.TaskCompleted(task->task_id()); a task that is no longer in
\* tasks_ is only logged.  A deleted object has any id, or the read crashes.
\* CompletedTasks(i) takes no lock: a result that HeartBeatThread reads while
\* this push_back moves the vector may be lost to it.  The last task done wakes
\* HeartBeatThread.
CompleteTask(h) ==
  /\ ThreadAt(h, "complete", "check")
  /\ \E t \in IF h \in dangling THEN Tasks \cup {None} ELSE {task[h]} :
       /\ env' = TasksCompleted(env, {t} \cap env.tasks)
       /\ pointer' \in IF t \in env.tasks THEN {pointer, None} ELSE {pointer}
  /\ IF h \in dangling THEN running' \in BOOLEAN ELSE UNCHANGED running
  /\ task' = [task EXCEPT ![h] = None]
  /\ dangling' = dangling \ {h}
  /\ beat' = IF env'.tasks = {} /\ beat = "wait" THEN "beat" ELSE beat
  /\ UNCHANGED <<is_master, network, words, target, report, shifted, requests,
                 history, expiries>>

Computing(h) ==
  \/ CheckTasks(h) \/ Wait(h) \/ TimeOut(h)
  \/ GetIdleTask(h) \/ ComputingUDF(h) \/ CompleteTask(h)

\* A lease given by GetIdleTask runs out, or WORKER_ASK_TRACKER moved the clock.
Expire(t) ==
  /\ running
  /\ expiries < MaxExpiries
  /\ t \in env.tasks /\ env.lease[t] = "live"
  /\ env' = ExpireLease(env, t)
  /\ expiries' = expiries + 1 /\ expired' = TRUE
  /\ UNCHANGED <<running, is_master, network, words, computing, dangling,
                 heart, requests, overlap, cut, dropped>>

-----------------------------------------------------------------------------
(* HeartBeatThread *)

BeatAt(from, to) ==
  /\ running
  /\ beat = from
  /\ beat' = to

\* cond_heartbeat_.Wait with the heartbeat interval as timeout
HeartBeatTimeOut ==
  /\ BeatAt("wait", "beat")
  /\ UNCHANGED <<running, is_master, network, table, computing, dangling,
                 target, message, requests, history, expiries>>

Connectable == sockets \cup up

\* Mutant of ConnectMaster: neither the address nor the outcome is looked at.
ConnectUnchecked(m) == UNCHANGED running /\ sockets' = sockets \cup {m}

\* ConnectMaster(m) finds a socket or opens one; ConnectMaster("") aborts in
\* CHECK_EQ(2, ip_and_port.size()).
ConnectMaster(m) ==
  /\ IF m = None THEN Abort ELSE UNCHANGED running
  /\ sockets' = sockets \cup ({m} \cap up)

\* AskTracker, when no primary is known: FindMaster begins with the first master.
AskTracker ==
  /\ BeatAt("beat", "find")
  /\ primary = None
  /\ target' = 1
  /\ UNCHANGED <<running, is_master, network, table, computing, dangling,
                 message, requests, history, expiries>>

\* FindMaster tries one master of tracker_group after the other.
FindMaster ==
  /\ \/ /\ BeatAt("find", "ask")
        /\ target \in Connectable
        /\ UNCHANGED target
     \/ /\ BeatAt("find", "find")
        /\ target \notin Connectable /\ target + 1 \in Masters
        /\ target' = target + 1
     \/ /\ BeatAt("find", "wait")
        /\ target \notin Connectable /\ target + 1 \notin Masters
        /\ target' = None
  /\ ConnectMaster(target)
  /\ UNCHANGED <<is_master, masters, broken, dead, conhash, primary, asked,
                 resets, table, computing, dangling, message, requests,
                 history, expiries>>

\* master_sockets_[master_addr]->Socket(), NULL once the socket was closed, and
\* SendProtocol.  An entry without a descriptor holds a number that may belong
\* to another connection by now.
SendAsk ==
  /\ BeatAt("ask", "wait")
  /\ target' = None
  /\ IF target \in sockets THEN UNCHANGED running ELSE Abort
  /\ \/ target \notin dead /\ asked' = asked \cup (({target} \cap sockets) \ broken)
     \/ target \in dead /\ UNCHANGED asked
     \/ /\ target \in dead
        /\ \E m \in sockets \ (broken \cup dead) : asked' = asked \cup {m}
  /\ UNCHANGED <<is_master, masters, broken, sockets, dead, conhash, primary,
                 resets, table, computing, dangling, message, requests,
                 history, expiries>>

\* Mutant of BeginRequest: no look whether there are tasks.
BeginAlways ==
  /\ BeatAt("beat", "owner")
  /\ primary # None
  /\ requests < MaxRequests
  /\ overlap' = (overlap \/ requests > 0)
  /\ UNCHANGED <<running, is_master, network, table, computing, dangling,
                 target, message, requests, cut, dropped, expired, expiries>>

\* RequestTask returns at once while there are tasks
BeginRequest ==
  /\ primary # None
  /\ IF env.tasks # {} THEN BeatAt("beat", "wait") /\ UNCHANGED overlap
     ELSE /\ BeatAt("beat", "owner")
          /\ requests < MaxRequests
          /\ overlap' = (overlap \/ requests > 0)
  /\ UNCHANGED <<running, is_master, network, table, computing, dangling,
                 target, message, requests, cut, dropped, expired, expiries>>

\* conhash_lookup: the first master of the ring order that is on the ring
Owner == RingOrder[CHOOSE i \in Masters :
                     /\ RingOrder[i] \in conhash
                     /\ \A j \in Masters : RingOrder[j] \in conhash => i <= j]

\* FindOwnerMaster: the owner on the ring; -1 when the ring is empty
FindOwnerMaster ==
  /\ \/ /\ conhash = {}
        /\ BeatAt("owner", "wait")
        /\ UNCHANGED <<running, sockets, target>>
     \/ /\ conhash # {}
        /\ BeatAt("owner", IF Owner \in Connectable THEN "socket" ELSE "primary")
        /\ target' = IF Owner \in Connectable THEN Owner ELSE None
        /\ ConnectMaster(Owner)
  /\ UNCHANGED <<is_master, masters, broken, dead, conhash, primary, asked,
                 resets, table, computing, dangling, message, requests,
                 history, expiries>>

\* else the primary, else none
FindPrimary ==
  /\ BeatAt("primary", IF primary \in Connectable THEN "socket" ELSE "wait")
  /\ ConnectMaster(primary)
  /\ UNCHANGED <<is_master, masters, broken, dead, conhash, primary, asked,
                 resets, table, computing, dangling, target, message, requests,
                 history, expiries>>

\* return master_sockets_[address]->Socket(): NULL once the socket was closed,
\* and primary_sockaddr_ is read again; the number of a descriptor that is gone
\* once its connection was reset
TakeSocket ==
  LET m == IF target = None THEN primary ELSE target
  IN  /\ BeatAt("socket", "copy")
      /\ IF m \in sockets THEN UNCHANGED running ELSE Abort
      /\ target' = IF m \in dead THEN None ELSE m
      /\ cut' = (cut \/ m \in dead)
      /\ UNCHANGED <<is_master, network, table, computing, dangling, message,
                     requests, overlap, dropped, expired, expiries>>

\* for (i = 0; i < CompletedTasksSize(); ++i): the size is read again for every
\* result.  Once completed_tasks_ was replaced, i means other entries of it and
\* the loop may end before it has seen them.
CopyCompleted ==
  /\ \/ /\ BeatAt("copy", "write")
        /\ \E t \in Tasks : env.completed[t] > report[t] /\ pointer' = t
     \/ /\ BeatAt("copy", "clear")
        /\ shifted \/ \A t \in Tasks : report[t] >= env.completed[t]
        /\ UNCHANGED pointer
  /\ UNCHANGED <<running, is_master, network, table, computing, dangling,
                 target, report, shifted, requests, history, expiries>>

\* WriteRecord; a deleted object gives any record, or the read crashes.
WriteCompleted ==
  /\ BeatAt("write", "copy")
  /\ pointer' = None
  /\ \/ /\ pointer # None
        /\ report' = [report EXCEPT ![pointer] = @ + 1]
        /\ UNCHANGED running
     \/ /\ pointer = None
        /\ running' \in BOOLEAN
        /\ UNCHANGED report
  /\ UNCHANGED <<is_master, network, table, computing, dangling, target,
                 shifted, requests, history, expiries>>

\* The objects in completed_tasks_ are deleted: by whom they are still used
DeletedUnder(h) == task[h] # None /\ env.completed[task[h]] > 0

\* A result in completed_tasks_ is in no message yet.
Unreported == \E t \in Tasks :
  env.completed[t] >
    IF beat \in {"copy", "write", "clear"} /\ ~shifted THEN report[t] ELSE 0

ClearCompleted ==
  /\ BeatAt("clear", "send")
  /\ env' = ClearCompletedTasks(env)
  /\ words' = [t \in Tasks |-> IF env.completed[t] > 0 THEN 0 ELSE words[t]]
  /\ dangling' = dangling \cup {h \in Threads : DeletedUnder(h)}
  /\ dropped' = (dropped \/ Unreported)
  /\ UNCHANGED <<running, is_master, network, computing, target, message,
                 requests, overlap, cut, expired, expiries>>

\* SendProtocol: false, and the message is gone, when the number of the socket
\* has no buffer any more; it may also be the number of another connection, or
\* of one that is not yet known to be broken.
SendRequest ==
  /\ BeatAt("send", "wait")
  /\ \/ /\ target # None
        /\ requests' = IF target \in broken THEN requests ELSE requests + 1
        /\ UNCHANGED dropped
     \/ /\ target = None
        /\ dropped' = (dropped \/ report # NoResult)
        /\ UNCHANGED requests
     \/ /\ target = None
        /\ requests' \in {requests, requests + 1}
        /\ UNCHANGED dropped
  /\ target' = None /\ report' = NoResult /\ shifted' = FALSE
  /\ UNCHANGED <<running, is_master, network, table, computing, dangling,
                 pointer, overlap, cut, expired, expiries>>

HeartBeat ==
  \/ AskTracker \/ FindMaster \/ SendAsk
  \/ BeginRequest \/ FindOwnerMaster \/ FindPrimary \/ TakeSocket
  \/ CopyCompleted \/ WriteCompleted \/ ClearCompleted \/ SendRequest

-----------------------------------------------------------------------------
(* SocketThread: ProtocolProcess *)

\* Mutant of Refused: new tasks replace the ones at hand.
NeverRefused(S) == S = {}

\* SaveNewTask returns while there are tasks, and keeps an empty answer out
Refused(S) == env.tasks # {} \/ S = {}

\* UpdateTasks deletes every object of both containers.  ComputingSignal wakes
\* the threads that wait already.
SaveNewTask(S) ==
  IF Refused(S)
  THEN UNCHANGED <<table, dangling, pointer, shifted, dropped, pc>>
  ELSE /\ env' = UpdateTasks(env, S)
       /\ words' = NoResult
       /\ dangling' = dangling \cup
            {h \in Threads : task[h] # None /\ (DeletedUnder(h) \/ task[h] \in env.tasks)}
       /\ dropped' = (dropped \/ Unreported)
       /\ pointer' = None
       /\ shifted' = (shifted \/ beat \in {"copy", "write"})
       /\ pc' = [h \in Threads |-> IF pc[h] = "wait" THEN "check" ELSE pc[h]]

\* A master answers WORKER_REQUEST_TASK with some tasks, or with none.
ReceiveTasks(S) ==
  /\ running
  /\ requests > 0
  /\ Cardinality(S) <= TaskDuplicate
  /\ requests' = requests - 1
  /\ SaveNewTask(S)
  /\ UNCHANGED <<running, is_master, network, task, beat, target, report,
                 overlap, cut, expired, expiries>>

\* A request or its answer is lost with a connection, or the master drops it.
LoseAnswer ==
  /\ requests > 0
  /\ requests' = requests - 1
  /\ UNCHANGED <<running, is_master, network, table, computing, dangling,
                 heart, history, expiries>>

\* A master that knows no primary does not answer WORKER_ASK_TRACKER.
IgnoreAsk(m) ==
  /\ m \in asked \cap up
  /\ asked' = asked \ {m}
  /\ UNCHANGED <<running, is_master, masters, broken, sockets, dead, conhash,
                 primary, resets, table, computing, dangling, heart, requests,
                 history, expiries>>

\* WORKER_ASK_TRACKER answered by m names a master p that runs or did: take it
\* as the primary, move the clock to its time, connect, wake HeartBeatThread.
ReceiveAskTracker(m, p) ==
  /\ running
  /\ m \in asked \cap up
  /\ asked' = asked \ {m}
  /\ primary' = p
  /\ sockets' = sockets \cup ({p} \cap up)
  /\ beat' = IF beat = "wait" THEN "beat" ELSE beat
  /\ \E L \in SUBSET EverLeased(env) :
       /\ env' = MoveClock(env, L)
       /\ expired' = (expired \/ env'.lease # env.lease)
  /\ UNCHANGED <<running, is_master, masters, broken, dead, conhash, resets,
                 words, computing, dangling, target, message, requests, overlap,
                 cut, dropped, expiries>>

-----------------------------------------------------------------------------
(* The epoll thread, and masters that crash and come back *)

\* Masters with a socket are put on the ring, the others are taken off.
UpdateMasterConhash == conhash' = IF is_master THEN {} ELSE sockets'

\* The entry of master m is deleted.  When it is the primary's the ring is left
\* alone.
DeleteMasterSocket(m) ==
  /\ sockets' = sockets \ {m}
  /\ IF m \notin sockets THEN UNCHANGED <<primary, conhash>>
     ELSE IF primary = m THEN primary' = None /\ UNCHANGED conhash
     ELSE UpdateMasterConhash /\ UNCHANGED primary

\* A request that is being built keeps the number of its socket, and nothing else.
CutRequest(M) ==
  IF target \in M /\ beat \in {"copy", "write", "clear", "send"}
  THEN target' = None /\ cut' = TRUE
  ELSE UNCHANGED <<target, cut>>

\* Mutant of SocketClose: the entry of master_sockets_ stays.
SocketKept(m) ==
  /\ running
  /\ m \in broken
  /\ UNCHANGED <<sockets, broken, dead, resets>>
  /\ asked' = asked \ {m}
  /\ IF primary = m THEN primary' = None /\ UNCHANGED conhash
     ELSE UpdateMasterConhash /\ UNCHANGED primary
  /\ UNCHANGED <<running, is_master, masters, table, computing, dangling,
                 heart, requests, history, expiries>>

\* Tracker::SocketClose takes the buffers of the socket away, and looks for its
\* entry under the address of the peer.  After a reset getpeername fails, which
\* is not looked at, and the address is what the stack holds: the entry stays,
\* and another one may go.
SocketClose(m) ==
  /\ running
  /\ m \in broken
  /\ asked' = asked \ {m}
  /\ \/ /\ DeleteMasterSocket(m)
        /\ CutRequest({m})
        /\ broken' = broken \ {m}
        /\ UNCHANGED <<dead, resets>>
     \/ /\ resets < MaxResets
        /\ resets' = resets + 1
        /\ \E k \in (Masters \ {m}) \cup {None} :
             /\ DeleteMasterSocket(k)
             /\ CutRequest({m, k})
             /\ broken' = broken \ {m, k}
             /\ dead' = (dead \cup {m}) \ {k}
  /\ UNCHANGED <<running, is_master, masters, table, computing, dangling, beat,
                 message, requests, overlap, dropped, expired, expiries>>

MasterCrash(m) ==
  /\ m \in up
  /\ crashes < MaxCrashes
  /\ crashes' = crashes + 1
  /\ up' = up \ {m}
  /\ broken' = broken \cup (({m} \cap sockets) \ dead)
  /\ UNCHANGED <<running, is_master, sockets, dead, conhash, primary, asked,
                 resets, table, computing, dangling, heart, requests, history,
                 expiries>>

MasterStart(m) ==
  /\ m \notin up
  /\ up' = up \cup {m}
  /\ UNCHANGED <<running, is_master, crashes, connections, table, computing,
                 dangling, heart, requests, history, expiries>>

\* A worker that aborted is started again by hand, or never.
Stopped == ~running /\ UNCHANGED vars

Next ==
  \/ \E h \in Threads : Computing(h)
  \/ \E t \in Tasks : Expire(t)
  \/ HeartBeatTimeOut \/ HeartBeat
  \/ \E S \in SUBSET Tasks : ReceiveTasks(S)
  \/ LoseAnswer
  \/ \E m \in Masters, p \in Masters : ReceiveAskTracker(m, p)
  \/ \E m \in Masters : IgnoreAsk(m)
  \/ \E m \in Masters : SocketClose(m) \/ MasterCrash(m) \/ MasterStart(m)
  \/ Stopped

Spec == Init /\ [][Next]_vars

\* The operating system runs every thread, timed waits end, and the messages of
\* masters that run arrive or are lost.  Nothing obliges the masters to elect a
\* primary, to start or to crash.
Fairness ==
  /\ \A h \in Threads : WF_vars(Computing(h))
  /\ WF_vars(HeartBeatTimeOut) /\ WF_vars(HeartBeat)
  /\ WF_vars(LoseAnswer \/ \E S \in SUBSET Tasks : ReceiveTasks(S))
  /\ WF_vars(\E m \in Masters : IgnoreAsk(m) \/ \E p \in Masters : ReceiveAskTracker(m, p))
  /\ \A m \in Masters : WF_vars(SocketClose(m))

FairSpec == Spec /\ Fairness

-----------------------------------------------------------------------------
(* Properties *)

\* Enviroment::GetIdleTask and SaveNewTask: as long as no lease runs out on the
\* worker, a computing thread never uses a task object that was deleted, in
\* spite of answers and reports that come while it computes.
NoDanglingTask == expired \/ dangling = {}

\* Enviroment::GetIdleTask: as long as no lease runs out on the worker, the
\* words of a task are counted into its object at most once, so a report
\* (RequestTask) never carries the words of a text twice.
ComputedOnce == expired \/ \A t \in Tasks : words[t] <= 1

\* RequestTask and SaveNewTask: a result can only be dropped unreported when a
\* request was begun while an earlier one had no answer yet (a second answer then
\* clears the results of the first, worker.cc:204, or a task of the first answer
\* completes between the copy and the clearing, worker.cc:180), or when the
\* socket of the request was closed under it: the results are cleared before
\* SendProtocol is called, and its result is not looked at (tracker.cc:302).
DroppedByOverlapOrCut == dropped => overlap \/ cut

\* Worker::Computing: every task a worker was given is computed or replaced by
\* new ones, although ComputingSignal may come before the threads wait.
TaskIsComputed == \A t \in Tasks : t \in env.tasks ~> (t \notin env.tasks \/ ~running)

AllUp == running /\ ~is_master /\ up = Masters

\* The masters ignore no more questions: all of them know a primary.
AllAnswer == <>[][\A m \in Masters : ~IgnoreAsk(m)]_vars

\* Worker::HeartBeat, FindMaster, FindOwnerMaster and Tracker::SocketClose: when
\* all masters run and know a primary, the ring is not empty, and no connection
\* was reset (its entry would stay in master_sockets_ for ever, tracker.cc:163
\* and 198), the worker's requests reach a master again and again, whatever was
\* lost before.
AsksAgain ==
  <>[](AllUp /\ conhash # {} /\ dead = {}) /\ AllAnswer
    => []<>(requests > 0 \/ env.tasks # {})

\* README:43 promises that masters that come and go do not stop the cluster:
\* once all masters run again and know a primary the worker asks for tasks again
\* and again.  The ring is updated only when a master other than the primary
\* leaves (tracker.cc:323-330) and never when one joins.
ServedAgain == <>[]AllUp /\ AllAnswer => []<>(requests > 0 \/ env.tasks # {})
=============================================================================
