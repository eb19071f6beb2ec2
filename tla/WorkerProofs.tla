---------------------------- MODULE WorkerProofs ----------------------------
(***************************************************************************)
(* Proofs about Worker, for any number of computing threads, masters and   *)
(* tasks.  Two invariants carry them.  While no lease ran out, a task that *)
(* a thread computes is in the table, leased, and computed by no other     *)
(* thread (Exclusive).  While no request was begun before the answer to    *)
(* the last one, the table is empty from the moment a request is begun     *)
(* until its answer comes, so that no result can arrive while the results  *)
(* are copied and cleared (OneRequest); what is lost then is lost with the *)
(* socket of the request.                                                  *)
(***************************************************************************)
EXTENDS Worker, EnviromentProofs, WellFoundedInduction, FiniteSetTheorems

\* HeartBeatThread is inside RequestTask, behind its look at the table.
InRequest ==
  beat \in {"owner", "primary", "socket", "copy", "write", "clear", "send"}

\* The request has its socket, and may lose it.
Building == beat \in {"copy", "write", "clear", "send"}

\* A request that is begun is one that may still be sent.
RequestsBounded == InRequest => requests < MaxRequests

\* A thread points to a task from GetIdleTask to TaskCompleted.
HoldsTask == \A h \in Threads : task[h] # None <=> pc[h] \in {"compute", "complete"}

\* What is in the table has no result.
NoResultInTable == \A t \in env.tasks : env.completed[t] = 0

\* While no lease ran out a thread has its task to itself, and a task that
\* nobody has computed yet has no words.
Exclusive ==
  ~expired =>
    /\ dangling = {}
    /\ \A t \in Tasks : env.lease[t] # "expired"
    /\ \A h \in Threads : task[h] # None =>
         task[h] \in env.tasks /\ env.lease[task[h]] = "live"
    /\ \A h, k \in Threads : task[h] # None /\ task[h] = task[k] => h = k
    /\ \A t \in env.tasks : env.lease[t] = "none" => words[t] = 0
    /\ \A h \in Threads : pc[h] = "compute" => words[task[h]] = 0
    /\ \A t \in Tasks : words[t] <= 1

\* While requests did not overlap, something is dropped only with the socket of a
\* request, the table stays empty from the beginning of a request to its answer,
\* and the copying loop sees every result once.
OneRequest ==
  ~overlap =>
    /\ dropped => cut
    /\ running /\ Building /\ target = None => cut
    /\ ~shifted
    /\ InRequest => requests = 0 /\ env.tasks = {}
    /\ ~Building => report = NoResult
    /\ beat \in {"copy", "write"} => \A t \in Tasks : report[t] <= env.completed[t]
    /\ beat = "write" => pointer # None /\ report[pointer] < env.completed[pointer]
    /\ beat = "clear" => report = env.completed
    /\ beat = "send" => env.completed = NoResult
    /\ requests > 0 => requests = 1 /\ env.tasks = {} /\ env.completed = NoResult

IInv ==
  /\ TypeOK /\ RequestsBounded /\ HoldsTask /\ NoResultInTable
  /\ Exclusive /\ OneRequest

-----------------------------------------------------------------------------
(* Choices *)

\* A set of numbers has a least one.
LEMMA Least ==
  ASSUME NEW S \in SUBSET Nat, S # {}
  PROVE  \E m \in S : \A n \in S : m <= n
  <1>1. PICK m \in S : \A n \in S : ~(<<n, m>> \in OpToRel(<, Nat))
    BY NatLessThanWellFounded, WFMin
  <1>2. \A n \in S : ~(n < m)
    BY <1>1 DEF OpToRel
  <1> QED
    BY <1>2

\* FindMaster finds a master when there is one.
LEMMA FirstType ==
  ASSUME NEW S \in SUBSET Masters, S # {}
  PROVE  First(S) \in S
  <1>1. Masters \subseteq Nat
    BY WorkerAssumption, FS_CardinalityType
  <1>2. \E m \in S : \A n \in S : m <= n
    BY <1>1, Least
  <1> QED
    BY <1>2 DEF First

\* tracker_group has a first master.
LEMMA MastersExist == 1 \in Masters
  <1>1. Cardinality(Masters) \in Nat /\ Masters = 1 .. Cardinality(Masters)
    BY WorkerAssumption, FS_CardinalityType
  <1>2. PICK m : m \in Masters
    BY WorkerAssumption
  <1> QED
    BY <1>1, <1>2

-----------------------------------------------------------------------------
(* Type correctness *)

\* GetIdleTask: the task it takes is one of the table that is not leased.
LEMMA FirstIdleTaken ==
  ASSUME NEW e \in Enviroments, FirstIdle(e, 1) # {}
  PROVE  LET t == CHOOSE t \in FirstIdle(e, 1) : TRUE
         IN  t \in FirstIdle(e, 1) /\ t \in e.tasks /\ t \in Tasks /\ e.lease[t] # "live"
  BY DEF FirstIdle, IdleTasks, Enviroments

\* Computing and its thread-local variables keep their types.
LEMMA ComputingType ==
  ASSUME TypeOK, HoldsTask, NEW h \in Threads, Computing(h)
  PROVE  TypeOK'
  <1> USE DEF network, masters, connections, table, computing, heart, message, history
  <1>1. pc' \in [Threads -> ThreadSteps]
    BY DEF TypeOK, Computing, ThreadAt, CheckTasks, Wait, TimeOut, GetIdleTask,
           ComputingUDF, CompleteTask, ThreadSteps
  <1>2. CASE CheckTasks(h) \/ Wait(h) \/ TimeOut(h)
    BY <1>1, <1>2 DEF TypeOK, CheckTasks, Wait, TimeOut, BeatSteps
  <1>3. CASE GetIdleTask(h)
    <2>1. env' \in Enviroments
      BY <1>3, SetLeaseEffect DEF GetIdleTask, Take, TypeOK
    <2>2. task' \in [Threads -> Tasks \cup {None}]
      BY <1>3, FirstIdleTaken DEF GetIdleTask, TypeOK
    <2> QED
      BY <1>1, <1>3, <2>1, <2>2 DEF TypeOK, GetIdleTask
  <1>4. CASE ComputingUDF(h)
    <2>1. task[h] \in Tasks
      BY <1>4 DEF ComputingUDF, ThreadAt, HoldsTask, TypeOK
    <2>2. words' \in [Tasks -> Nat]
      BY <1>4, <2>1 DEF ComputingUDF, TypeOK
    <2>3. running' \in BOOLEAN
      BY <1>4 DEF ComputingUDF, ThreadAt, TypeOK
    <2> QED
      BY <1>1, <1>4, <2>2, <2>3 DEF TypeOK, ComputingUDF
  <1>5. CASE CompleteTask(h)
    <2>1. env' \in Enviroments
      <3>1. PICK t : env' = TasksCompleted(env, {t} \cap env.tasks)
        BY <1>5 DEF CompleteTask
      <3> QED
        BY <3>1, TasksCompletedEffect DEF TypeOK
    <2>2. /\ running' \in BOOLEAN
          /\ task' \in [Threads -> Tasks \cup {None}]
          /\ dangling' \subseteq Threads
          /\ beat' \in BeatSteps
          /\ pointer' \in Tasks \cup {None}
      BY <1>5 DEF CompleteTask, TypeOK, BeatSteps
    <2> QED
      BY <1>1, <1>5, <2>1, <2>2 DEF TypeOK, CompleteTask
  <1> QED
    BY <1>2, <1>3, <1>4, <1>5 DEF Computing

\* HeartBeatThread keeps the types; a request is counted only when there is room.
LEMMA HeartBeatType ==
  ASSUME TypeOK, RequestsBounded, HeartBeat \/ HeartBeatTimeOut
  PROVE  TypeOK'
  <1> USE DEF network, masters, connections, table, computing, heart, message, history, BeatAt
  <1>1. CASE HeartBeatTimeOut
    BY <1>1 DEF HeartBeatTimeOut, TypeOK, BeatSteps
  <1>2. CASE AskTracker
    <2>1. target' \in Masters
      BY <1>2, MastersExist DEF AskTracker
    <2> QED
      BY <1>2, <2>1 DEF AskTracker, TypeOK, BeatSteps
  <1>3. CASE BeginRequest
    BY <1>3 DEF BeginRequest, TypeOK, BeatSteps
  <1>4. CASE FindOwnerMaster
    <2>1. target' \in Masters \cup {None}
      BY <1>4 DEF FindOwnerMaster, TypeOK, Connectable
    <2>2. /\ beat' \in BeatSteps /\ running' \in BOOLEAN
          /\ sockets \subseteq sockets' /\ sockets' \subseteq Masters
      BY <1>4 DEF FindOwnerMaster, ConnectMaster, Abort, TypeOK, BeatSteps
    <2> QED
      BY <1>4, <2>1, <2>2 DEF FindOwnerMaster, TypeOK
  <1>5. CASE TakeSocket
    BY <1>5 DEF TakeSocket, Abort, TypeOK, BeatSteps
  <1>6. CASE CopyCompleted
    <2>1. pointer' \in Tasks \cup {None} /\ beat' \in BeatSteps
      BY <1>6 DEF CopyCompleted, TypeOK, BeatSteps
    <2> QED
      BY <1>6, <2>1 DEF CopyCompleted, TypeOK
  <1>7. CASE ClearCompleted
    <2>1. env' \in Enviroments
      BY <1>7, ClearCompletedEffect DEF ClearCompleted, TypeOK
    <2>2. words' \in [Tasks -> Nat] /\ dangling' \subseteq Threads
      BY <1>7 DEF ClearCompleted, TypeOK
    <2>3. dropped' \in BOOLEAN
      BY <1>7 DEF ClearCompleted, TypeOK, Unreported
    <2> QED
      BY <1>7, <2>1, <2>2, <2>3 DEF ClearCompleted, TypeOK, BeatSteps
  <1>8. CASE SendRequest
    <2>1. requests' \in {requests, requests + 1}
      BY <1>8 DEF SendRequest
    <2>2. requests' \in 0 .. MaxRequests
      BY <1>8, <2>1, WorkerAssumption DEF SendRequest, TypeOK, RequestsBounded, InRequest
    <2>3. dropped' \in BOOLEAN
      BY <1>8 DEF SendRequest, TypeOK
    <2> QED
      BY <1>8, <2>2, <2>3 DEF SendRequest, TypeOK, BeatSteps, NoResult
  <1>9. CASE FindMaster
    <2>1. target' \in Masters \cup {None} /\ beat' \in BeatSteps
      BY <1>9 DEF FindMaster, TypeOK, BeatSteps
    <2>2. running' \in BOOLEAN /\ sockets \subseteq sockets' /\ sockets' \subseteq Masters
      BY <1>9 DEF FindMaster, ConnectMaster, Abort, TypeOK
    <2> QED
      BY <1>9, <2>1, <2>2 DEF FindMaster, TypeOK
  <1>10. CASE SendAsk
    <2>1. asked' \subseteq Masters
      BY <1>10 DEF SendAsk, TypeOK
    <2> QED
      BY <1>10, <2>1 DEF SendAsk, Abort, TypeOK, BeatSteps
  <1>11. CASE FindPrimary
    <2>1. beat' \in BeatSteps /\ running' \in BOOLEAN
          /\ sockets \subseteq sockets' /\ sockets' \subseteq Masters
      BY <1>11 DEF FindPrimary, ConnectMaster, Abort, TypeOK, BeatSteps
    <2> QED
      BY <1>11, <2>1 DEF FindPrimary, TypeOK
  <1>12. CASE WriteCompleted
    <2>1. report' \in [Tasks -> Nat]
      <3>1. report' = report \/ (pointer \in Tasks /\ report' = [report EXCEPT ![pointer] = @ + 1])
        BY <1>12 DEF WriteCompleted, TypeOK
      <3>2. report \in [Tasks -> Nat]
        BY DEF TypeOK
      <3> QED
        BY <3>1, <3>2
    <2>2. running' \in BOOLEAN
      BY <1>12 DEF WriteCompleted, TypeOK
    <2> QED
      BY <1>12, <2>1, <2>2 DEF WriteCompleted, TypeOK, BeatSteps
  <1> QED
    BY <1>1, <1>2, <1>3, <1>4, <1>5, <1>6, <1>7, <1>8, <1>9, <1>10, <1>11, <1>12 DEF HeartBeat

\* Answers, the clock, and masters that come and go keep the types.
LEMMA EnvironmentType ==
  ASSUME TypeOK,
         \/ \E t \in Tasks : Expire(t)
         \/ \E S \in SUBSET Tasks : ReceiveTasks(S)
         \/ LoseAnswer
         \/ \E m \in Masters, p \in Masters : ReceiveAskTracker(m, p)
         \/ \E m \in Masters : IgnoreAsk(m)
         \/ \E m \in Masters : SocketClose(m) \/ MasterCrash(m) \/ MasterStart(m)
  PROVE  TypeOK'
  <1> USE DEF network, masters, connections, table, computing, heart, message, history
  <1>1. ASSUME NEW t \in Tasks, Expire(t) PROVE TypeOK'
    <2>1. env' \in Enviroments
      BY <1>1, ExpireLeaseEffect DEF Expire, TypeOK
    <2>2. expiries' \in 0 .. MaxExpiries
      BY <1>1, WorkerAssumption DEF Expire, TypeOK
    <2> QED
      BY <1>1, <2>1, <2>2 DEF Expire, TypeOK
  <1>2. ASSUME NEW S \in SUBSET Tasks, ReceiveTasks(S) PROVE TypeOK'
    <2>1. requests' \in 0 .. MaxRequests
      BY <1>2, WorkerAssumption DEF ReceiveTasks, TypeOK
    <2>2. /\ env' \in Enviroments /\ words' \in [Tasks -> Nat]
          /\ dangling' \subseteq Threads /\ pc' \in [Threads -> ThreadSteps]
      BY <1>2, UpdateTasksEffect DEF ReceiveTasks, SaveNewTask, TypeOK, NoResult, ThreadSteps
    <2>3. /\ dropped' \in BOOLEAN /\ shifted' \in BOOLEAN
          /\ pointer' \in Tasks \cup {None}
      BY <1>2 DEF ReceiveTasks, SaveNewTask, TypeOK, Unreported
    <2> QED
      BY <1>2, <2>1, <2>2, <2>3 DEF ReceiveTasks, TypeOK
  <1>3. CASE LoseAnswer
    BY <1>3, WorkerAssumption DEF LoseAnswer, TypeOK
  <1>4. ASSUME NEW m \in Masters, NEW p \in Masters, ReceiveAskTracker(m, p) PROVE TypeOK'
    <2>1. PICK L : env' = MoveClock(env, L) /\ expired' = (expired \/ env'.lease # env.lease)
      BY <1>4 DEF ReceiveAskTracker
    <2>2. env' \in Enviroments /\ expired' \in BOOLEAN
      BY <2>1, MoveClockEffect DEF TypeOK
    <2> QED
      BY <1>4, <2>2 DEF ReceiveAskTracker, TypeOK, BeatSteps
  <1>5. ASSUME NEW m \in Masters, SocketClose(m) PROVE TypeOK'
    <2>1. /\ broken' \subseteq sockets' \ dead' /\ dead' \subseteq sockets' /\ sockets' \subseteq Masters
          /\ asked' \subseteq Masters
      <3>1. /\ broken \subseteq sockets \ dead /\ dead \subseteq sockets /\ sockets \subseteq Masters
            /\ asked \subseteq Masters /\ m \in broken /\ asked' = asked \ {m}
        BY <1>5 DEF SocketClose, TypeOK
      <3>2. \/ sockets' = sockets \ {m} /\ broken' = broken \ {m} /\ dead' = dead
            \/ \E k : /\ k # m /\ sockets' = sockets \ {k} /\ broken' = broken \ {m, k}
                     /\ dead' = (dead \cup {m}) \ {k}
        BY <1>5, WorkerAssumption DEF SocketClose, DeleteMasterSocket
      <3>3. CASE sockets' = sockets \ {m} /\ broken' = broken \ {m} /\ dead' = dead
        BY <3>1, <3>3
      <3> QED
        BY <3>1, <3>2, <3>3
    <2>2. conhash' \subseteq Masters /\ primary' \in Masters \cup {None}
      BY <1>5, <2>1 DEF SocketClose, DeleteMasterSocket, UpdateMasterConhash, TypeOK
    <2>3. target' \in Masters \cup {None} /\ cut' \in BOOLEAN
      BY <1>5 DEF SocketClose, CutRequest, TypeOK
    <2>4. resets' \in 0 .. MaxResets
      <3>1. resets' = resets \/ (resets < MaxResets /\ resets' = resets + 1)
        BY <1>5 DEF SocketClose
      <3> QED
        BY <3>1, WorkerAssumption DEF TypeOK
    <2> QED
      BY <1>5, <2>1, <2>2, <2>3, <2>4 DEF SocketClose, TypeOK
  <1>6. ASSUME NEW m \in Masters, MasterCrash(m) \/ MasterStart(m) PROVE TypeOK'
    <2>1. CASE MasterStart(m)
      BY <1>6, <2>1 DEF MasterStart, TypeOK
    <2>2. CASE MasterCrash(m)
      <3>1. crashes' \in 0 .. MaxCrashes
        BY <2>2, WorkerAssumption DEF MasterCrash, TypeOK
      <3>2. up' \subseteq Masters /\ broken' \subseteq sockets' \ dead'
        BY <2>2 DEF MasterCrash, TypeOK
      <3> QED
        BY <2>2, <3>1, <3>2 DEF MasterCrash, TypeOK
    <2> QED
      BY <1>6, <2>1, <2>2
  <1>7. ASSUME NEW m \in Masters, IgnoreAsk(m) PROVE TypeOK'
    BY <1>7 DEF IgnoreAsk, TypeOK
  <1> QED
    BY <1>1, <1>2, <1>3, <1>4, <1>5, <1>6, <1>7

\* Every step keeps every variable in its range.
LEMMA TypeStep ==
  ASSUME TypeOK, RequestsBounded, HoldsTask, Next
  PROVE  TypeOK'
  <1>1. CASE Stopped
    BY <1>1 DEF Stopped, vars, network, masters, connections, table, computing, heart, message, history, TypeOK
  <1> QED
    BY <1>1, ComputingType, HeartBeatType, EnvironmentType DEF Next

-----------------------------------------------------------------------------
(* Requests that are begun, tasks that are held, results *)

\* RequestTask begins a request only while another one may be sent, and nobody
\* else sends one.
LEMMA RequestsStep ==
  ASSUME TypeOK, RequestsBounded, Next
  PROVE  RequestsBounded'
  <1> USE DEF network, masters, connections, table, computing, heart, message, history, BeatAt, ThreadAt,
              InRequest, RequestsBounded
  <1>1. ASSUME NEW h \in Threads, Computing(h) PROVE RequestsBounded'
    BY <1>1 DEF Computing, CheckTasks, Wait, TimeOut, GetIdleTask, ComputingUDF, CompleteTask
  <1>2. CASE BeginRequest
    BY <1>2 DEF BeginRequest
  <1>3. CASE SendRequest
    BY <1>3 DEF SendRequest
  <1>4. CASE \/ HeartBeatTimeOut \/ AskTracker \/ FindMaster \/ SendAsk
             \/ FindOwnerMaster \/ FindPrimary \/ TakeSocket
             \/ CopyCompleted \/ WriteCompleted \/ ClearCompleted
    BY <1>4 DEF HeartBeatTimeOut, AskTracker, FindMaster, SendAsk, FindOwnerMaster,
                FindPrimary, TakeSocket, CopyCompleted, WriteCompleted, ClearCompleted
  <1>5. ASSUME NEW S \in SUBSET Tasks, ReceiveTasks(S) \/ LoseAnswer PROVE RequestsBounded'
    BY <1>5, WorkerAssumption DEF ReceiveTasks, LoseAnswer, TypeOK
  <1>6. ASSUME NEW t \in Tasks, Expire(t) PROVE RequestsBounded'
    BY <1>6 DEF Expire
  <1>7. ASSUME NEW m \in Masters, NEW p \in Masters, ReceiveAskTracker(m, p)
        PROVE  RequestsBounded'
    BY <1>7 DEF ReceiveAskTracker
  <1>8. ASSUME NEW m \in Masters,
               SocketClose(m) \/ IgnoreAsk(m) \/ MasterCrash(m) \/ MasterStart(m)
        PROVE  RequestsBounded'
    BY <1>8 DEF SocketClose, IgnoreAsk, MasterCrash, MasterStart
  <1>9. CASE Stopped
    BY <1>9 DEF Stopped, vars
  <1> QED
    BY <1>1, <1>2, <1>3, <1>4, <1>5, <1>6, <1>7, <1>8, <1>9 DEF Next, HeartBeat

\* GetIdleTask gives a thread its task, TaskCompleted ends it.
LEMMA HoldsStep ==
  ASSUME TypeOK, HoldsTask, Next
  PROVE  HoldsTask'
  <1> USE DEF network, masters, connections, table, computing, heart, message, history, BeatAt, ThreadAt, HoldsTask
  <1>1. ASSUME NEW h \in Threads, GetIdleTask(h) PROVE HoldsTask'
    <2>1. FirstIdle(env, 1) # {} => (CHOOSE t \in FirstIdle(env, 1) : TRUE) # None
      BY FirstIdleTaken, WorkerAssumption DEF TypeOK
    <2> QED
      BY <1>1, <2>1 DEF GetIdleTask, TypeOK
  <1>2. ASSUME NEW h \in Threads, CheckTasks(h) \/ Wait(h) \/ TimeOut(h) PROVE HoldsTask'
    BY <1>2 DEF CheckTasks, Wait, TimeOut, TypeOK
  <1>3. ASSUME NEW h \in Threads, ComputingUDF(h) PROVE HoldsTask'
    BY <1>3 DEF ComputingUDF, TypeOK
  <1>4. ASSUME NEW h \in Threads, CompleteTask(h) PROVE HoldsTask'
    BY <1>4 DEF CompleteTask, TypeOK
  <1>5. ASSUME NEW S \in SUBSET Tasks, ReceiveTasks(S) PROVE HoldsTask'
    BY <1>5 DEF ReceiveTasks, SaveNewTask, TypeOK
  <1>6. CASE HeartBeatTimeOut \/ HeartBeat \/ LoseAnswer
    BY <1>6 DEF HeartBeatTimeOut, HeartBeat, AskTracker, FindMaster, SendAsk, BeginRequest,
                FindOwnerMaster, FindPrimary, TakeSocket, CopyCompleted, WriteCompleted,
                ClearCompleted, SendRequest, LoseAnswer
  <1>7. ASSUME NEW t \in Tasks, Expire(t) PROVE HoldsTask'
    BY <1>7 DEF Expire
  <1>8. ASSUME NEW m \in Masters, NEW p \in Masters, ReceiveAskTracker(m, p) PROVE HoldsTask'
    BY <1>8 DEF ReceiveAskTracker
  <1>9. ASSUME NEW m \in Masters,
               SocketClose(m) \/ IgnoreAsk(m) \/ MasterCrash(m) \/ MasterStart(m)
        PROVE  HoldsTask'
    BY <1>9 DEF SocketClose, IgnoreAsk, MasterCrash, MasterStart
  <1>10. CASE Stopped
    BY <1>10 DEF Stopped, vars
  <1> QED
    BY <1>1, <1>2, <1>3, <1>4, <1>5, <1>6, <1>7, <1>8, <1>9, <1>10 DEF Next, Computing

\* The steps that leave the table, the threads' tasks and the objects alone.
Quiet ==
  \/ \E h \in Threads : CheckTasks(h) \/ Wait(h) \/ TimeOut(h)
  \/ HeartBeatTimeOut \/ AskTracker \/ FindMaster \/ SendAsk \/ BeginRequest
  \/ FindOwnerMaster \/ FindPrimary \/ TakeSocket
  \/ CopyCompleted \/ WriteCompleted \/ SendRequest \/ LoseAnswer
  \/ \E m \in Masters : IgnoreAsk(m) \/ SocketClose(m) \/ MasterCrash(m) \/ MasterStart(m)
  \/ Stopped

\* They are what Next has besides the steps that handle tasks.
LEMMA NextCases ==
  ASSUME Next
  PROVE  \/ Quiet \/ ClearCompleted
         \/ \E h \in Threads : GetIdleTask(h) \/ ComputingUDF(h) \/ CompleteTask(h)
         \/ \E t \in Tasks : Expire(t)
         \/ \E S \in SUBSET Tasks : ReceiveTasks(S)
         \/ \E m \in Masters, p \in Masters : ReceiveAskTracker(m, p)
  BY DEF Next, Quiet, Computing, HeartBeat

\* What the quiet steps leave alone.
LEMMA QuietEffect ==
  ASSUME TypeOK, Quiet
  PROVE  /\ UNCHANGED <<table, task, dangling, expired>>
         /\ \A h \in Threads : pc'[h] = "compute" <=> pc[h] = "compute"
  <1> USE DEF network, masters, connections, table, computing, heart, message, history, BeatAt, ThreadAt
  <1>1. ASSUME NEW h \in Threads, CheckTasks(h) \/ Wait(h) \/ TimeOut(h)
        PROVE  /\ UNCHANGED <<table, task, dangling, expired>>
               /\ \A k \in Threads : pc'[k] = "compute" <=> pc[k] = "compute"
    BY <1>1 DEF CheckTasks, Wait, TimeOut, TypeOK
  <1>2. ASSUME \/ HeartBeatTimeOut \/ AskTracker \/ FindMaster \/ SendAsk
               \/ BeginRequest \/ FindOwnerMaster \/ FindPrimary \/ TakeSocket
               \/ CopyCompleted \/ WriteCompleted \/ SendRequest \/ LoseAnswer \/ Stopped
        PROVE  UNCHANGED <<table, computing, dangling, expired>>
    BY <1>2 DEF HeartBeatTimeOut, AskTracker, FindMaster, SendAsk, BeginRequest,
                FindOwnerMaster, FindPrimary, TakeSocket, CopyCompleted, WriteCompleted,
                SendRequest, LoseAnswer, Stopped, vars
  <1>3. ASSUME NEW m \in Masters,
               SocketClose(m) \/ IgnoreAsk(m) \/ MasterCrash(m) \/ MasterStart(m)
        PROVE  UNCHANGED <<table, computing, dangling, expired>>
    BY <1>3 DEF SocketClose, IgnoreAsk, MasterCrash, MasterStart
  <1> QED
    BY <1>1, <1>2, <1>3 DEF Quiet

\* A task leaves the table when it gets a result, and results are deleted when
\* new tasks come.
LEMMA NoResultStep ==
  ASSUME TypeOK, NoResultInTable, Next
  PROVE  NoResultInTable'
  <1> USE DEF NoResultInTable, TypeOK
  <1>0. env.tasks \subseteq Tasks
    BY DEF Enviroments
  <1>1. CASE Quiet
    BY <1>1, QuietEffect DEF table
  <1>2. CASE ClearCompleted
    BY <1>0, <1>2, ClearCompletedEffect DEF ClearCompleted
  <1>3. ASSUME NEW h \in Threads, GetIdleTask(h) PROVE NoResultInTable'
    BY <1>3, SetLeaseEffect DEF GetIdleTask, Take
  <1>4. ASSUME NEW h \in Threads, ComputingUDF(h) PROVE NoResultInTable'
    BY <1>4 DEF ComputingUDF
  <1>5. ASSUME NEW h \in Threads, CompleteTask(h) PROVE NoResultInTable'
    <2>1. PICK t : env' = TasksCompleted(env, {t} \cap env.tasks)
      BY <1>5 DEF CompleteTask
    <2> QED
      BY <1>0, <2>1, TasksCompletedEffect
  <1>6. ASSUME NEW t \in Tasks, Expire(t) PROVE NoResultInTable'
    BY <1>6, ExpireLeaseEffect DEF Expire
  <1>7. ASSUME NEW S \in SUBSET Tasks, ReceiveTasks(S) PROVE NoResultInTable'
    BY <1>7, UpdateTasksEffect DEF ReceiveTasks, SaveNewTask, table
  <1>8. ASSUME NEW m \in Masters, NEW p \in Masters, ReceiveAskTracker(m, p)
        PROVE  NoResultInTable'
    BY <1>8, MoveClockEffect DEF ReceiveAskTracker
  <1> QED
    BY <1>1, <1>2, <1>3, <1>4, <1>5, <1>6, <1>7, <1>8, NextCases

-----------------------------------------------------------------------------
(* One request at a time *)

\* TaskCompleted finds nothing in an empty table.
LEMMA NothingCompleted ==
  ASSUME NEW e \in Enviroments, e.tasks = {}, NEW t
  PROVE  LET f == TasksCompleted(e, {t} \cap e.tasks)
         IN  f.tasks = {} /\ f.completed = e.completed
  BY DEF TasksCompleted, Enviroments

\* While requests do not overlap, results are copied, deleted and sent with no
\* result coming between, and the answer finds a table without tasks or results.
LEMMA OneRequestStep ==
  ASSUME TypeOK, OneRequest, Next
  PROVE  OneRequest'
  <1> USE DEF network, masters, connections, table, computing, heart, message, history, BeatAt, ThreadAt,
              InRequest, Building, OneRequest
  <1>0. SUFFICES ASSUME ~overlap' PROVE OneRequest'
    OBVIOUS
  <1>1. ASSUME NEW h \in Threads, Computing(h) PROVE OneRequest'
    <2>1. CASE CompleteTask(h)
      <3>1. PICK t : env' = TasksCompleted(env, {t} \cap env.tasks)
        BY <2>1 DEF CompleteTask
      <3>2. env.tasks = {} => env'.tasks = {} /\ env'.completed = env.completed
        BY <3>1, NothingCompleted DEF TypeOK
      <3> QED
        BY <1>0, <2>1, <3>2 DEF CompleteTask
    <2>2. CASE GetIdleTask(h)
      <3>1. env'.tasks = env.tasks /\ env'.completed = env.completed
        BY <2>2, SetLeaseEffect DEF GetIdleTask, Take, TypeOK
      <3> QED
        BY <1>0, <2>2, <3>1 DEF GetIdleTask
    <2> QED
      BY <1>0, <1>1, <2>1, <2>2 DEF Computing, CheckTasks, Wait, TimeOut, ComputingUDF
  <1>2. CASE BeginRequest
    BY <1>0, <1>2 DEF BeginRequest, TypeOK
  <1>3. CASE \/ HeartBeatTimeOut \/ AskTracker \/ FindMaster \/ SendAsk
             \/ FindOwnerMaster \/ FindPrimary
    BY <1>0, <1>3 DEF HeartBeatTimeOut, AskTracker, FindMaster, SendAsk, FindOwnerMaster,
                      FindPrimary
  <1>4. CASE ClearCompleted
    <2>1. ~Unreported
      BY <1>0, <1>4 DEF ClearCompleted, Unreported, TypeOK, Enviroments
    <2>2. env'.tasks = env.tasks /\ env'.completed = NoResult
      BY <1>4 DEF ClearCompleted, ClearCompletedTasks, TypeOK, Enviroments
    <2> QED
      BY <1>0, <1>4, <2>1, <2>2 DEF ClearCompleted
  <1>5. CASE SendRequest
    <2>1. requests = 0 /\ env.tasks = {} /\ env.completed = NoResult /\ requests' \in {0, 1}
      BY <1>0, <1>5 DEF SendRequest
    <2>2. dropped' => cut
      BY <1>0, <1>5 DEF SendRequest
    <2> QED
      BY <1>0, <1>5, <2>1, <2>2 DEF SendRequest
  <1>6. ASSUME NEW S \in SUBSET Tasks, ReceiveTasks(S) PROVE OneRequest'
    <2>1. requests = 1 /\ requests' = 0 /\ ~InRequest /\ beat' = beat
          /\ env.completed = NoResult /\ report' = report /\ report = NoResult
      BY <1>0, <1>6 DEF ReceiveTasks, TypeOK
    <2>2. ~Unreported
      BY <2>1 DEF Unreported, NoResult
    <2>3. (dropped' => cut) /\ cut' = cut /\ ~shifted'
      BY <1>0, <1>6, <2>1, <2>2 DEF ReceiveTasks, SaveNewTask
    <2> QED
      BY <2>1, <2>3
  <1>7. CASE LoseAnswer
    BY <1>0, <1>7 DEF LoseAnswer, TypeOK
  <1>8. ASSUME NEW t \in Tasks, Expire(t) PROVE OneRequest'
    BY <1>0, <1>8, ExpireLeaseEffect DEF Expire, TypeOK
  <1>9. ASSUME NEW m \in Masters, NEW p \in Masters, ReceiveAskTracker(m, p)
        PROVE  OneRequest'
    <2>1. env'.tasks = env.tasks /\ env'.completed = env.completed
      BY <1>9, MoveClockEffect DEF ReceiveAskTracker, TypeOK
    <2> QED
      BY <1>0, <1>9, <2>1 DEF ReceiveAskTracker
  <1>10. ASSUME NEW m \in Masters,
               SocketClose(m) \/ IgnoreAsk(m) \/ MasterCrash(m) \/ MasterStart(m)
         PROVE  OneRequest'
    <2>1. UNCHANGED <<running, env, beat, report, pointer, shifted, requests, overlap, dropped>>
      BY <1>10 DEF SocketClose, IgnoreAsk, MasterCrash, MasterStart
    <2>2. (cut => cut') /\ (Building /\ target' = None => target = None \/ cut')
      BY <1>10 DEF SocketClose, CutRequest, IgnoreAsk, MasterCrash, MasterStart
    <2> QED
      BY <1>0, <2>1, <2>2
  <1>11. CASE Stopped
    BY <1>0, <1>11 DEF Stopped, vars
  <1>12. CASE TakeSocket
    <2>1. \A t \in Tasks : env.completed[t] \in Nat
      BY DEF TypeOK, Enviroments
    <2>2. running' /\ target' = None => cut'
      BY <1>12, WorkerAssumption DEF TakeSocket, Abort, TypeOK
    <2>3. report' = NoResult /\ env' = env
      BY <1>0, <1>12 DEF TakeSocket
    <2>4. \A t \in Tasks : report'[t] <= env'.completed[t]
      BY <2>1, <2>3 DEF NoResult
    <2> QED
      BY <1>0, <1>12, <2>2, <2>4 DEF TakeSocket
  <1>13. CASE CopyCompleted
    <2>1. /\ UNCHANGED <<running, env, target, report, shifted, requests, overlap, cut, dropped>>
          /\ ~shifted /\ beat = "copy"
      BY <1>0, <1>13 DEF CopyCompleted
    <2>2. /\ \A t \in Tasks : env.completed[t] \in Nat /\ report[t] \in Nat
          /\ env.completed \in [Tasks -> Nat] /\ report \in [Tasks -> Nat]
      BY DEF TypeOK, Enviroments
    <2>3. CASE beat' = "write"
      <3>1. PICK t \in Tasks : env.completed[t] > report[t] /\ pointer' = t
        BY <1>13, <2>3 DEF CopyCompleted
      <3>2. pointer' # None /\ report[pointer'] < env.completed[pointer']
        BY <2>2, <3>1, WorkerAssumption
      <3> QED
        BY <1>0, <2>1, <2>3, <3>2
    <2>4. CASE beat' = "clear"
      <3>1. \A t \in Tasks : report[t] >= env.completed[t]
        BY <1>13, <2>1, <2>4 DEF CopyCompleted
      <3>2. \A t \in Tasks : report[t] = env.completed[t]
        BY <1>0, <2>1, <2>2, <3>1
      <3>3. report = env.completed
        BY <2>2, <3>2
      <3> QED
        BY <1>0, <2>1, <2>4, <3>3
    <2> QED
      BY <1>13, <2>3, <2>4 DEF CopyCompleted
  <1>14. CASE WriteCompleted
    <2>1. /\ UNCHANGED <<env, target, shifted, requests, overlap, cut, dropped>>
          /\ beat = "write" /\ beat' = "copy" /\ running
      BY <1>14 DEF WriteCompleted
    <2>2. pointer \in Tasks /\ report[pointer] < env.completed[pointer]
      BY <1>0, <2>1 DEF TypeOK
    <2>3. report' = [report EXCEPT ![pointer] = @ + 1]
      BY <1>14, <2>2, WorkerAssumption DEF WriteCompleted
    <2>4. \A t \in Tasks : env.completed[t] \in Nat /\ report[t] \in Nat
      BY DEF TypeOK, Enviroments
    <2>5. \A t \in Tasks : report[t] <= env.completed[t]
      BY <1>0, <2>1
    <2>6. \A t \in Tasks : report'[t] = IF t = pointer THEN report[t] + 1 ELSE report[t]
      BY <2>2, <2>3 DEF TypeOK
    <2>7. \A t \in Tasks : report'[t] <= env'.completed[t]
      BY <2>1, <2>2, <2>4, <2>5, <2>6
    <2> QED
      BY <1>0, <2>1, <2>7
  <1> QED
    BY <1>1, <1>2, <1>3, <1>4, <1>5, <1>6, <1>7, <1>8, <1>9, <1>10, <1>11, <1>12, <1>13, <1>14
       DEF Next, HeartBeat

-----------------------------------------------------------------------------
(* A task to itself *)

\* GetIdleTask gives a thread a task that nobody has and nobody computed.
LEMMA TakenAlone ==
  ASSUME TypeOK, HoldsTask, Exclusive, ~expired, NEW h \in Threads, GetIdleTask(h)
  PROVE  Exclusive'
  <1> USE DEF history, table, computing, network, masters, connections, heart, message
  <1>1. /\ dangling' = {} /\ words' = words /\ env'.tasks = env.tasks
        /\ env.tasks \subseteq Tasks
        /\ \A t \in Tasks : env'.lease[t] = IF t \in FirstIdle(env, 1) THEN "live"
                                            ELSE env.lease[t]
    BY SetLeaseEffect DEF GetIdleTask, Take, TypeOK, Exclusive, Enviroments
  <1>2. \A k \in Threads : k # h => task'[k] = task[k] /\ pc'[k] = pc[k]
    BY DEF GetIdleTask, ThreadAt, TypeOK
  <1>3. \/ task'[h] = None /\ pc'[h] = "check"
        \/ /\ task'[h] \in FirstIdle(env, 1) /\ task'[h] \in env.tasks
           /\ env.lease[task'[h]] = "none"
    <2>1. CASE FirstIdle(env, 1) = {}
      BY <2>1 DEF GetIdleTask, ThreadAt, TypeOK
    <2>2. CASE FirstIdle(env, 1) # {}
      <3>1. PICK t : t = CHOOSE u \in FirstIdle(env, 1) : TRUE
        OBVIOUS
      <3>2. task'[h] = t
        BY <2>2, <3>1 DEF GetIdleTask, TypeOK
      <3>3. t \in FirstIdle(env, 1) /\ t \in env.tasks /\ t \in Tasks /\ env.lease[t] # "live"
        BY <2>2, <3>1, FirstIdleTaken DEF TypeOK
      <3>4. env.lease[t] \in Lease
        BY <3>3 DEF TypeOK, Enviroments
      <3> QED
        BY <3>2, <3>3, <3>4 DEF Exclusive, Lease
    <2> QED
      BY <2>1, <2>2
  <1>4. \A t \in Tasks : env'.lease[t] # "expired" /\ words'[t] <= 1
    BY <1>1 DEF Exclusive
  <1>5. \A k \in Threads : task'[k] # None =>
          task'[k] \in env'.tasks /\ env'.lease[task'[k]] = "live"
    BY <1>1, <1>2, <1>3 DEF Exclusive
  <1>6. \A k, l \in Threads : task'[k] # None /\ task'[k] = task'[l] => k = l
    BY <1>1, <1>2, <1>3 DEF Exclusive
  <1>7. \A t \in env'.tasks : env'.lease[t] = "none" => words'[t] = 0
    BY <1>1 DEF Exclusive
  <1>8. \A k \in Threads : pc'[k] = "compute" => words'[task'[k]] = 0
    BY <1>1, <1>2, <1>3 DEF Exclusive
  <1> QED
    BY <1>1, <1>4, <1>5, <1>6, <1>7, <1>8 DEF Exclusive

\* ComputingUDF counts the words of a task that nobody else computes.
LEMMA ComputedAlone ==
  ASSUME TypeOK, HoldsTask, Exclusive, ~expired, NEW h \in Threads, ComputingUDF(h)
  PROVE  Exclusive'
  <1> USE DEF history, table, computing, network, masters, connections, heart, message
  <1>1. task[h] \in env.tasks /\ env.lease[task[h]] = "live" /\ words[task[h]] = 0
    BY DEF ComputingUDF, ThreadAt, HoldsTask, Exclusive
  <1>2. UNCHANGED <<env, task, dangling>>
    BY DEF ComputingUDF
  <1>3. /\ pc'[h] = "complete"
        /\ \A k \in Threads : k # h => pc'[k] = pc[k]
    BY DEF ComputingUDF, ThreadAt, TypeOK
  <1>4. \/ words' = words
        \/ words' = [words EXCEPT ![task[h]] = @ + 1]
    BY DEF ComputingUDF
  <1>5. \A t \in Tasks : words'[t] = words[t] \/ (t = task[h] /\ words'[t] = 1)
    BY <1>1, <1>4 DEF TypeOK
  <1>6. \A t \in env'.tasks : env'.lease[t] = "none" => words'[t] = 0
    BY <1>1, <1>2, <1>5 DEF Exclusive, TypeOK, Enviroments
  <1>7. \A k \in Threads : pc'[k] = "compute" => words'[task'[k]] = 0
    <2>1. \A k \in Threads : pc'[k] = "compute" =>
            task[k] \in Tasks /\ task[k] # task[h] /\ words[task[k]] = 0
      BY <1>1, <1>3 DEF Exclusive, HoldsTask, TypeOK
    <2> QED
      BY <1>2, <1>5, <2>1
  <1>8. \A t \in Tasks : words'[t] <= 1
    BY <1>5 DEF Exclusive
  <1> QED
    BY <1>2, <1>6, <1>7, <1>8 DEF Exclusive

\* TaskCompleted takes the thread's own task out of the table.
LEMMA CompletedAlone ==
  ASSUME TypeOK, HoldsTask, Exclusive, ~expired, NEW h \in Threads, CompleteTask(h)
  PROVE  Exclusive'
  <1> USE DEF history, table, computing, network, masters, connections, heart, message
  <1>1. task[h] \in env.tasks /\ task[h] \in Tasks /\ dangling = {} /\ env.tasks \subseteq Tasks
    BY DEF CompleteTask, ThreadAt, HoldsTask, Exclusive, TypeOK, Enviroments
  <1>2. /\ words' = words /\ dangling' = {} /\ task'[h] = None /\ pc'[h] = "check"
        /\ \A k \in Threads : k # h => task'[k] = task[k] /\ pc'[k] = pc[k]
    BY <1>1 DEF CompleteTask, ThreadAt, TypeOK
  <1>3. env' = TasksCompleted(env, {task[h]})
    <2>1. env' = TasksCompleted(env, {task[h]} \cap env.tasks)
      BY <1>1 DEF CompleteTask
    <2>2. {task[h]} \cap env.tasks = {task[h]}
      BY <1>1
    <2> QED
      BY <2>1, <2>2
  <1>4. /\ env'.tasks = env.tasks \ {task[h]}
        /\ \A t \in Tasks : env'.lease[t] = IF t = task[h] THEN "none" ELSE env.lease[t]
    BY <1>1, <1>3, TasksCompletedEffect DEF TypeOK
  <1>5. \A t \in Tasks : env'.lease[t] # "expired" /\ words'[t] <= 1
    BY <1>2, <1>4 DEF Exclusive
  <1>6. \A k \in Threads : task'[k] # None =>
          task'[k] \in env'.tasks /\ env'.lease[task'[k]] = "live"
    BY <1>1, <1>2, <1>4 DEF Exclusive
  <1>7. \A k, l \in Threads : task'[k] # None /\ task'[k] = task'[l] => k = l
    BY <1>2 DEF Exclusive
  <1>8. \A t \in env'.tasks : env'.lease[t] = "none" => words'[t] = 0
    BY <1>1, <1>2, <1>4 DEF Exclusive
  <1>9. \A k \in Threads : pc'[k] = "compute" => words'[task'[k]] = 0
    BY <1>2 DEF Exclusive
  <1> QED
    BY <1>2, <1>5, <1>6, <1>7, <1>8, <1>9 DEF Exclusive

\* SaveNewTask replaces a table that has no tasks, so nobody holds a task.
LEMMA ReplacedUnused ==
  ASSUME TypeOK, HoldsTask, Exclusive, ~expired, NEW S \in SUBSET Tasks, ReceiveTasks(S)
  PROVE  Exclusive'
  <1> USE DEF history, table, computing, network, masters, connections, heart, message
  <1>1. CASE Refused(S)
    BY <1>1 DEF ReceiveTasks, SaveNewTask, Exclusive
  <1>2. CASE ~Refused(S)
    <2>1. \A h \in Threads : task[h] = None
      BY <1>2 DEF Refused, Exclusive
    <2>2. task' = task /\ dangling' = {}
      BY <1>2, <2>1 DEF ReceiveTasks, SaveNewTask, Exclusive
    <2>3. \A h \in Threads : pc'[h] # "compute"
      BY <1>2, <2>1 DEF ReceiveTasks, SaveNewTask, HoldsTask, TypeOK
    <2>4. env'.tasks = S /\ \A t \in Tasks : env'.lease[t] = "none" /\ words'[t] = 0
      BY <1>2, UpdateTasksEffect DEF ReceiveTasks, SaveNewTask, NoResult
    <2> QED
      BY <2>1, <2>2, <2>3, <2>4 DEF Exclusive
  <1> QED
    BY <1>1, <1>2

\* While no lease runs out every thread keeps its task to itself.
LEMMA ExclusiveStep ==
  ASSUME TypeOK, HoldsTask, NoResultInTable, Exclusive, Next
  PROVE  Exclusive'
  <1>1. SUFFICES ASSUME ~expired' PROVE Exclusive'
    BY DEF Exclusive
  <1>2. CASE Quiet
    BY <1>1, <1>2, QuietEffect DEF Exclusive, table
  <1>3. CASE ClearCompleted
    <2>1. ~expired /\ expired' = expired /\ task' = task /\ pc' = pc
      BY <1>1, <1>3 DEF ClearCompleted, computing
    <2>2. dangling' = {}
      BY <1>3, <2>1 DEF ClearCompleted, DeletedUnder, Exclusive, NoResultInTable
    <2>3. env'.tasks = env.tasks /\ env'.lease = env.lease
      BY <1>3, ClearCompletedEffect DEF ClearCompleted, TypeOK
    <2>4. \A t \in Tasks : words'[t] = 0 \/ words'[t] = words[t]
      BY <1>3 DEF ClearCompleted
    <2>5. \A h \in Threads : pc[h] = "compute" => task[h] \in Tasks
      BY DEF HoldsTask, TypeOK
    <2>6. env.tasks \subseteq Tasks
      BY DEF TypeOK, Enviroments
    <2> QED
      BY <2>1, <2>2, <2>3, <2>4, <2>5, <2>6 DEF Exclusive
  <1>4. ASSUME NEW h \in Threads, GetIdleTask(h) PROVE Exclusive'
    BY <1>1, <1>4, TakenAlone DEF GetIdleTask, history
  <1>5. ASSUME NEW h \in Threads, ComputingUDF(h) PROVE Exclusive'
    BY <1>1, <1>5, ComputedAlone DEF ComputingUDF, history
  <1>6. ASSUME NEW h \in Threads, CompleteTask(h) PROVE Exclusive'
    BY <1>1, <1>6, CompletedAlone DEF CompleteTask, history
  <1>7. ASSUME NEW t \in Tasks, Expire(t) PROVE Exclusive'
    BY <1>1, <1>7 DEF Expire
  <1>8. ASSUME NEW S \in SUBSET Tasks, ReceiveTasks(S) PROVE Exclusive'
    BY <1>1, <1>8, ReplacedUnused DEF ReceiveTasks
  <1>9. ASSUME NEW m \in Masters, NEW p \in Masters, ReceiveAskTracker(m, p)
        PROVE  Exclusive'
    <2>1. ~expired /\ env'.lease = env.lease /\ env'.tasks = env.tasks
      BY <1>1, <1>9, MoveClockEffect DEF ReceiveAskTracker, TypeOK
    <2>2. UNCHANGED <<words, task, pc, dangling>>
      BY <1>9 DEF ReceiveAskTracker, computing
    <2> QED
      BY <2>1, <2>2 DEF Exclusive
  <1> QED
    BY <1>2, <1>3, <1>4, <1>5, <1>6, <1>7, <1>8, <1>9, NextCases

-----------------------------------------------------------------------------
(* The invariant and what follows from it *)

\* The worker starts without tasks, results and requests.
LEMMA IInvInit == Init => IInv
  <1> SUFFICES ASSUME Init PROVE IInv
    OBVIOUS
  <1>1. First(up) \in Masters
    BY FirstType DEF Init
  <1>2. TypeOK
    <2>1. /\ expiries \in 0 .. MaxExpiries /\ resets \in 0 .. MaxResets
          /\ crashes \in 0 .. MaxCrashes /\ requests \in 0 .. MaxRequests
      BY WorkerAssumption DEF Init
    <2>2. /\ env \in Enviroments /\ words \in [Tasks -> Nat] /\ report \in [Tasks -> Nat]
          /\ pc \in [Threads -> ThreadSteps] /\ task \in [Threads -> Tasks \cup {None}]
      BY EmptyType DEF Init, NoResult, ThreadSteps
    <2>3. /\ up \subseteq Masters /\ conhash \subseteq Masters /\ sockets \subseteq Masters
          /\ broken \subseteq sockets \ dead /\ dead \subseteq sockets /\ asked \subseteq Masters /\ dangling \subseteq Threads
      BY <1>1 DEF Init
    <2>4. /\ running \in BOOLEAN /\ is_master \in BOOLEAN
          /\ overlap \in BOOLEAN /\ dropped \in BOOLEAN /\ expired \in BOOLEAN
          /\ cut \in BOOLEAN /\ shifted \in BOOLEAN /\ pointer \in Tasks \cup {None}
      BY DEF Init
    <2>5. beat \in BeatSteps /\ target \in Masters \cup {None} /\ primary \in Masters \cup {None}
      BY DEF Init, BeatSteps
    <2> QED
      BY <2>1, <2>2, <2>3, <2>4, <2>5 DEF TypeOK
  <1>3. RequestsBounded /\ HoldsTask /\ NoResultInTable
    BY DEF Init, RequestsBounded, InRequest, HoldsTask, NoResultInTable, EmptyEnviroment
  <1>4. Exclusive
    BY DEF Init, Exclusive, EmptyEnviroment, NoLease, NoResult
  <1>5. OneRequest
    BY DEF Init, OneRequest, InRequest, Building
  <1> QED
    BY <1>2, <1>3, <1>4, <1>5 DEF IInv

\* Every step keeps the invariant.
LEMMA IInvStep == IInv /\ [Next]_vars => IInv'
  <1> SUFFICES ASSUME IInv, [Next]_vars PROVE IInv'
    OBVIOUS
  <1>1. CASE Next
    BY <1>1, TypeStep, RequestsStep, HoldsStep, NoResultStep, ExclusiveStep, OneRequestStep
       DEF IInv
  <1>2. CASE UNCHANGED vars
    BY <1>2 DEF vars, network, masters, connections, table, computing, heart, message, history, IInv, TypeOK,
                RequestsBounded, InRequest, HoldsTask, NoResultInTable, Exclusive, OneRequest,
                Building
  <1> QED
    BY <1>1, <1>2

\* The invariant holds in every reachable state of the worker.
THEOREM WorkerInvariant == Spec => []IInv
  BY IInvInit, IInvStep, PTL DEF Spec

\* Every variable of the worker stays in its range, the requests under way too,
\* although answers and requests cross.
THEOREM TypeCorrect == Spec => []TypeOK
  <1>1. IInv => TypeOK
    BY DEF IInv
  <1> QED
    BY <1>1, WorkerInvariant, PTL

\* Enviroment::GetIdleTask, SaveNewTask and ClearCompletedTasks: with any number
\* of computing threads, no thread uses a deleted task object unless a lease ran
\* out on the worker.
THEOREM NoTaskDangles == Spec => []NoDanglingTask
  <1>1. IInv => NoDanglingTask
    BY DEF IInv, Exclusive, NoDanglingTask
  <1> QED
    BY <1>1, WorkerInvariant, PTL

\* Enviroment::GetIdleTask: with any number of computing threads, the words of a
\* task are counted into its object at most once unless a lease ran out.
THEOREM WordsCountedOnce == Spec => []ComputedOnce
  <1>1. IInv => ComputedOnce
    BY DEF IInv, Exclusive, ComputedOnce
  <1> QED
    BY <1>1, WorkerInvariant, PTL

\* RequestTask and SaveNewTask: with any number of threads, masters and tasks, a
\* result is dropped unreported only when a request was begun while an earlier
\* one had no answer, or when a request lost its socket before it was sent.
THEOREM NothingDroppedAlone == Spec => []DroppedByOverlapOrCut
  <1>1. IInv => DroppedByOverlapOrCut
    BY DEF IInv, OneRequest, DroppedByOverlapOrCut
  <1> QED
    BY <1>1, WorkerInvariant, PTL

-----------------------------------------------------------------------------
(* What a step may never do to tasks and results *)

\* What a step may take from the table.
KeepsTask ==
  \A t \in Tasks :
    /\ t \in env.tasks \ env'.tasks =>
         /\ env'.completed[t] = env.completed[t] + 1
         /\ expired \/ \E h \in Threads : task[h] = t /\ pc[h] = "complete"
    /\ env'.completed[t] < env.completed[t] =>
         overlap \/ (beat = "clear" /\ report[t] = env.completed[t])

\* Worker::Computing, RequestTask and SaveNewTask: a task leaves the table only
\* with a result and, unless a lease ran out, by the thread that computed it;
\* unless requests overlapped, a result leaves completed_tasks_ only when it is
\* cleared with all of it copied into the request under way, which may still fail
\* to be sent.
WorkerKeepsTask == [][KeepsTask]_vars

\* Every step of the threads, of answers and of masters keeps tasks and results
\* that way.
LEMMA KeepsTaskStep ==
  ASSUME IInv, Next
  PROVE  KeepsTask
  <1>0. /\ TypeOK /\ env \in Enviroments /\ env.tasks \subseteq Tasks
        /\ \A t \in Tasks : env.completed[t] \in Nat
    BY DEF IInv, TypeOK, Enviroments
  <1>1. ASSUME env'.tasks = env.tasks, env'.completed = env.completed
        PROVE  KeepsTask
    BY <1>0, <1>1 DEF KeepsTask
  <1>2. CASE Quiet
    BY <1>0, <1>1, <1>2, QuietEffect DEF table
  <1>3. CASE ClearCompleted
    <2>1. beat = "clear" /\ env'.tasks = env.tasks
      BY <1>0, <1>3, ClearCompletedEffect DEF ClearCompleted, BeatAt
    <2>2. overlap \/ report = env.completed
      BY <2>1 DEF IInv, OneRequest
    <2> QED
      BY <2>1, <2>2 DEF KeepsTask
  <1>4. ASSUME NEW h \in Threads, GetIdleTask(h) PROVE KeepsTask
    BY <1>0, <1>1, <1>4, SetLeaseEffect DEF GetIdleTask, Take
  <1>5. ASSUME NEW h \in Threads, ComputingUDF(h) PROVE KeepsTask
    BY <1>1, <1>5 DEF ComputingUDF
  <1>6. ASSUME NEW h \in Threads, CompleteTask(h) PROVE KeepsTask
    <2>1. PICK t : /\ env' = TasksCompleted(env, {t} \cap env.tasks)
                   /\ h \in dangling \/ t = task[h]
      BY <1>6 DEF CompleteTask
    <2>2. pc[h] = "complete"
      BY <1>6 DEF CompleteTask, ThreadAt
    <2>3. expired \/ t = task[h]
      BY <2>1 DEF IInv, Exclusive
    <2> DEFINE A == {t} \cap env.tasks
    <2>4. /\ env'.tasks = env.tasks \ A
          /\ \A u \in Tasks : env'.completed[u] = IF u \in A THEN env.completed[u] + 1
                                                ELSE env.completed[u]
      BY <1>0, <2>1, TasksCompletedEffect
    <2>5. \A u \in A : u = t
      OBVIOUS
    <2> HIDE DEF A
    <2>6. \A u \in Tasks : ~(env'.completed[u] < env.completed[u])
      BY <1>0, <2>4
    <2> QED
      BY <2>2, <2>3, <2>4, <2>5, <2>6 DEF KeepsTask
  <1>7. ASSUME NEW t \in Tasks, Expire(t) PROVE KeepsTask
    BY <1>0, <1>1, <1>7, ExpireLeaseEffect DEF Expire
  <1>8. ASSUME NEW S \in SUBSET Tasks, ReceiveTasks(S) PROVE KeepsTask
    <2>1. CASE Refused(S)
      BY <1>1, <1>8, <2>1 DEF ReceiveTasks, SaveNewTask, table
    <2>2. CASE ~Refused(S)
      <3>1. env.tasks = {}
        BY <2>2 DEF Refused
      <3>2. overlap \/ env.completed = NoResult
        BY <1>8 DEF ReceiveTasks, IInv, OneRequest
      <3>3. \A t \in Tasks : env'.completed[t] = 0
        BY <1>8, <2>2, UpdateTasksEffect DEF ReceiveTasks, SaveNewTask
      <3>4. ASSUME NEW t \in Tasks, ~overlap
            PROVE  ~(env'.completed[t] < env.completed[t])
        BY <3>2, <3>3, <3>4 DEF NoResult
      <3> QED
        BY <3>1, <3>4 DEF KeepsTask
    <2> QED
      BY <2>1, <2>2
  <1>9. ASSUME NEW m \in Masters, NEW p \in Masters, ReceiveAskTracker(m, p)
        PROVE  KeepsTask
    BY <1>0, <1>1, <1>9, MoveClockEffect DEF ReceiveAskTracker
  <1> QED
    BY <1>2, <1>3, <1>4, <1>5, <1>6, <1>7, <1>8, <1>9, NextCases

\* A worker of any size loses no task without a result, and clears no result that
\* its message does not carry, but for leases that run out and requests that
\* overlap.
THEOREM WorkerKeepsItsTasks == Spec => WorkerKeepsTask
  <1>1. IInv /\ [Next]_vars => [KeepsTask]_vars
    BY KeepsTaskStep
  <1> QED
    BY <1>1, WorkerInvariant, PTL DEF Spec, WorkerKeepsTask
=============================================================================
