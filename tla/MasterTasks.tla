---------------------------- MODULE MasterTasks ----------------------------
(***************************************************************************)
(* The life of a task in a group of FastDCS masters (server/master.cc):    *)
(* the primary's TaskExchangeThread imports tasks from the database and    *)
(* exports their results, the SocketThread of every master leases tasks to *)
(* workers and collects results, and secondaries hold copies of the        *)
(* primary's tasks.  A result that a worker brings to a secondary is shown *)
(* to the primary first.                                                   *)
(*                                                                         *)
(* Each master runs three threads that interleave here: TaskExchangeThread *)
(* (program counter pc), SocketThread (one action per message) and         *)
(* HeartBeatThread.  Who the primary is comes from the election protocol,  *)
(* of which this module keeps the outcome: a result is announced (Elect)   *)
(* and masters learn it one by one, with or without being woken.           *)
(***************************************************************************)
EXTENDS Enviroment

CONSTANTS
  Masters,       \* addresses in tracker_group
  Worker,        \* any worker; they are told apart by nothing here
  None,          \* the empty address, and "no socket"
  PreloadTasks,  \* settings preload_tasks
  TaskDuplicate, \* settings task_duplicate of a master
  RequestArgs,   \* task_duplicate of the workers, sent as request_args
  MaxElections,  \* bound: announced election results
  MaxCrashes,    \* bound: crashes of a master
  MaxDbFailures, \* bound: failing statements sent to the database
  MaxMessages    \* bound: messages under way between masters

ASSUME ParameterAssumption ==
  /\ Worker \notin Masters /\ None \notin Masters \cup {Worker}
  /\ {PreloadTasks, TaskDuplicate, RequestArgs} \subseteq Nat
  /\ {MaxElections, MaxCrashes, MaxDbFailures, MaxMessages} \subseteq Nat

VARIABLES
  up,                 \* masters that are running
  primary_sockaddr,   \* per master: the primary it knows
  env,                \* per master: fdcs_env_
  pc,                 \* per master: where TaskExchangeThread is
  batch,              \* per master: TaskExchangeThread's copy of the results
  selected,           \* per master: the tasks its ImportTaskUDF selected and
                      \* has not handed to AddTask yet
  store,              \* dict_task rows with task_status = 1
  exported,           \* per task: how often its result was added to dict_word
  issued,             \* tasks that were ever sent to a worker
  forwards,           \* WORKER_REQUEST_TASK messages between masters
  duplicates,         \* REQUEST_TASK_DUPLICATE messages between masters
  elected,            \* the latest announced election result
  elections,          \* how many results were announced
  crashes,            \* how many masters crashed
  failures,           \* how many database statements failed
  raced               \* history: two masters selected one row before either
                      \* of them marked it

vars == <<up, primary_sockaddr, env, pc, batch, selected, store, exported,
          issued, forwards, duplicates, elected, elections, crashes, failures,
          raced>>

group == <<up, primary_sockaddr, elected, elections, crashes>>
exchange == <<batch, selected, raced>>
database == <<store, exported, failures>>
messages == <<forwards, duplicates, issued>>

Steps == {"check_primary", "to_wait_primary", "wait_primary",
          "check_idle", "to_wait_idle", "wait_idle",
          "copy", "export", "clear", "import", "mark", "add"}

\* A WORKER_REQUEST_TASK on its way from socket peer "from" to master "to".
\* path is response_sock_addr, results the TASK_COMPLETE pairs, success the
\* response_result, fwd the socket forwarding_sock_fd names: a descriptor
\* of master "owner", connected to "peer".
Sockets == [owner : Masters, peer : Masters \cup {Worker}]
Requests == [from : Masters \cup {Worker}, to : Masters, path : SUBSET Masters,
             fwd : Sockets \cup {None}, results : SUBSET Tasks,
             success : BOOLEAN]

\* A REQUEST_TASK_DUPLICATE: the request has no task, the answer has some.
Duplicates == [from : Masters, to : Masters, tasks : SUBSET Tasks]

\* Every variable stays in its range: messages name masters of the group,
\* tables and counts hold tasks of the database (RequestTaskDuplicate is the
\* one sender that has to check whom it addresses).
TypeOK ==
  /\ up \subseteq Masters
  /\ primary_sockaddr \in [Masters -> Masters \cup {None}]
  /\ env \in [Masters -> Enviroments]
  /\ pc \in [Masters -> Steps]
  /\ batch \in [Masters -> [Tasks -> Nat]]
  /\ selected \in [Masters -> SUBSET Tasks]
  /\ store \subseteq Tasks
  /\ exported \in [Tasks -> Nat]
  /\ issued \subseteq Tasks
  /\ forwards \subseteq Requests
  /\ duplicates \subseteq Duplicates
  /\ elected \in Masters \cup {None}
  /\ elections \in Nat
  /\ crashes \in Nat
  /\ failures \in Nat
  /\ raced \in BOOLEAN

Init ==
  /\ up = Masters
  /\ primary_sockaddr = [m \in Masters |-> None]
  /\ env = [m \in Masters |-> EmptyEnviroment]
  /\ pc = [m \in Masters |-> "check_primary"]
  /\ batch = [m \in Masters |-> NoResult]
  /\ selected = [m \in Masters |-> {}]
  /\ store = Tasks
  /\ exported = NoResult
  /\ issued = {}
  /\ forwards = {} /\ duplicates = {}
  /\ elected = None /\ elections = 0 /\ crashes = 0 /\ failures = 0
  /\ raced = FALSE

IAmPrimaryMaster(m) == primary_sockaddr[m] = m
IKnowPrimaryMaster(m) == primary_sockaddr[m] # None

\* Mutant of TaskExchangeSignal: nobody is woken.
SignalNobody(m) == UNCHANGED pc

\* cond_task_exchange_.Signal and cond_master_tracker_.Signal: neither takes
\* the mutex the waiting thread checked its condition under
TaskExchangeSignal(m) ==
  pc' = [pc EXCEPT ![m] = IF @ = "wait_idle" THEN "check_idle" ELSE @]
MasterSignal(m) ==
  pc' = [pc EXCEPT ![m] = IF @ = "wait_primary" THEN "check_primary" ELSE @]

-----------------------------------------------------------------------------
(* TaskExchangeThread: one action per access to state it shares *)

Goto(m, from, to) ==
  /\ m \in up
  /\ pc[m] = from
  /\ pc' = [pc EXCEPT ![m] = to]

\* while (!IAmPrimaryMaster()) cond_master_tracker_.Wait(&mutex_)
CheckPrimary(m) ==
  /\ Goto(m, "check_primary",
          IF IAmPrimaryMaster(m) THEN "check_idle" ELSE "to_wait_primary")
  /\ UNCHANGED <<group, env, exchange, database, messages>>

WaitPrimary(m) ==
  /\ Goto(m, "to_wait_primary", "wait_primary")
  /\ UNCHANGED <<group, env, exchange, database, messages>>

\* while (IdleTasksSize() >= PreloadTasks()) cond_task_exchange_.Wait(&mutex_)
CheckIdle(m) ==
  /\ Goto(m, "check_idle",
          IF IdleTasksSize(env[m]) >= PreloadTasks THEN "to_wait_idle"
          ELSE "copy")
  /\ UNCHANGED <<group, env, exchange, database, messages>>

WaitIdle(m) ==
  /\ Goto(m, "to_wait_idle", "wait_idle")
  /\ UNCHANGED <<group, env, exchange, database, messages>>

\* The loop reads the size again before every copy, so it ends with all the
\* results that are there when it finds no further one.
CopyCompleted(m) ==
  /\ Goto(m, "copy", "export")
  /\ batch' = [batch EXCEPT ![m] = env[m].completed]
  /\ UNCHANGED <<group, env, selected, raced, database, messages>>

\* A database statement of this step fails, or none does.
DbFails(some) ==
  IF some THEN failures < MaxDbFailures /\ failures' = failures + 1
  ELSE UNCHANGED failures

\* Results are added to the counts in dict_word; a failed statement skips
\* its word and the return value is not looked at.  The SELECT and the
\* UPDATE of a word are one step: the properties about exported speak of
\* behaviours with one elected master, where nobody else writes dict_word.
ExportTaskUDF(m) ==
  /\ Goto(m, "export", "clear")
  /\ \E skipped \in SUBSET Tasks :
       /\ DbFails(skipped # {})
       /\ exported' = [t \in Tasks |-> IF t \in skipped THEN exported[t]
                                       ELSE exported[t] + batch[m][t]]
  /\ UNCHANGED <<group, env, exchange, store, messages>>

ClearCompleted(m) ==
  /\ Goto(m, "clear", "import")
  /\ env' = [env EXCEPT ![m] = ClearCompletedTasks(@)]
  /\ UNCHANGED <<group, exchange, database, messages>>

\* SELECT ... WHERE task_status = 1 LIMIT PreloadTasks
Selected(S) ==
  /\ S \subseteq store
  /\ \/ Cardinality(S) = PreloadTasks
     \/ S = store /\ Cardinality(S) < PreloadTasks

\* The first statement of ImportTaskUDF.  Nothing locks the rows: until they
\* are marked another master may select them too.  A failed statement and an
\* empty result end the import.
SelectTasks(m) ==
  /\ \/ /\ IdleTasksSize(env[m]) < PreloadTasks
        /\ Goto(m, "import", "mark")
        /\ \E S \in (SUBSET Tasks) \ {{}} :
             /\ Selected(S)
             /\ selected' = [selected EXCEPT ![m] = S]
             /\ raced' = (raced \/ \E n \in Masters \ {m} :
                                     pc[n] = "mark" /\ S \cap selected[n] # {})
        /\ DbFails(FALSE)
     \/ /\ Goto(m, "import", "check_primary")
        /\ \/ IdleTasksSize(env[m]) >= PreloadTasks /\ DbFails(FALSE)
           \/ IdleTasksSize(env[m]) < PreloadTasks /\ Selected({}) /\ DbFails(FALSE)
           \/ IdleTasksSize(env[m]) < PreloadTasks /\ DbFails(TRUE)
        /\ UNCHANGED <<selected, raced>>
  /\ UNCHANGED <<group, env, batch, store, exported, messages>>

\* Mutant of MarkTasks: the tasks keep task_status 1.
MarkNothing(m) ==
  /\ Goto(m, "mark", "add")
  /\ DbFails(FALSE)
  /\ UNCHANGED <<group, env, exchange, store, exported, messages>>

\* The second statement: UPDATE to task_status 2, without a look at what the
\* status is now.  When it fails the tasks are still handed to the caller.
MarkTasks(m) ==
  /\ Goto(m, "mark", "add")
  /\ \/ store' = store \ selected[m] /\ DbFails(FALSE)
     \/ UNCHANGED store /\ DbFails(TRUE)
  /\ UNCHANGED <<group, env, exchange, exported, messages>>

\* One AddTask of the loop over the selected tasks, or its end.
AddSelected(m) ==
  /\ \/ \E t \in selected[m] :
          /\ Goto(m, "add", "add")
          /\ env' = [env EXCEPT ![m] = AddTasks(@, {t})]
          /\ selected' = [selected EXCEPT ![m] = @ \ {t}]
     \/ /\ selected[m] = {}
        /\ Goto(m, "add", "check_primary")
        /\ UNCHANGED <<env, selected>>
  /\ UNCHANGED <<group, batch, raced, database, messages>>

TaskExchangeThread(m) ==
  \/ CheckPrimary(m) \/ WaitPrimary(m) \/ CheckIdle(m) \/ WaitIdle(m)
  \/ CopyCompleted(m) \/ ExportTaskUDF(m) \/ ClearCompleted(m)
  \/ SelectTasks(m) \/ MarkTasks(m) \/ AddSelected(m)

-----------------------------------------------------------------------------
(* SocketThread: WORKER_REQUEST_TASK *)

\* A result is taken for a task that is in the table under a live lease.
Accepted(e, results) == {t \in results \cap e.tasks : e.lease[t] = "live"}

TaskCompleted(e, results) == TasksCompleted(e, Accepted(e, results))

\* GetIdleTask leases request_args tasks, and one when that is not positive
LeasedTasks(e) == FirstIdle(e, IF RequestArgs > 0 THEN RequestArgs ELSE 1)

\* "true" only when the requested number was found
FoundAll(e) == LeasedTasks(e) # {} /\ Cardinality(LeasedTasks(e)) >= RequestArgs

\* SendProtocol from m: a message to a master that is down is lost.
Sent(q) == IF q.to \in up THEN {q} ELSE {}

\* The primary saves the results; a request that came straight from a
\* worker is answered with tasks.
ServeByPrimary(m, q) ==
  LET saved == TaskCompleted(env[m], q.results)
  IN  /\ IAmPrimaryMaster(m)
      /\ q.fwd = None
      /\ env' = [env EXCEPT ![m] = SetLease(saved, LeasedTasks(saved))]
      /\ issued' = issued \cup LeasedTasks(saved)
      /\ forwards' = forwards \ {q}

\* A forwarded request goes back the way it came, results included.
AnswerForwarded(m, q) ==
  /\ IAmPrimaryMaster(m)
  /\ q.fwd # None
  /\ env' = [env EXCEPT ![m] = TaskCompleted(@, q.results)]
  /\ forwards' = (forwards \ {q}) \cup
       Sent([q EXCEPT !.from = m, !.to = q.from, !.path = @ \cup {m},
                      !.success = TRUE])
  /\ UNCHANGED issued

\* A secondary asks the primary first; without one the request is dropped.
ForwardToPrimary(m, q) ==
  /\ ~IAmPrimaryMaster(m)
  /\ m \notin q.path
  /\ forwards' = (forwards \ {q}) \cup
       IF IKnowPrimaryMaster(m)
       THEN Sent([q EXCEPT !.from = m, !.to = primary_sockaddr[m],
                           !.path = @ \cup {m},
                           !.fwd = [owner |-> m, peer |-> q.from]])
       ELSE {}
  /\ UNCHANGED <<env, issued>>

\* The request is back from the primary: the secondary now saves the results
\* in its own table and answers the worker.  A descriptor that another
\* master put into forwarding_sock_fd may name any socket of m, or none.
ServeBySecondary(m, q) ==
  LET saved == IF q.success THEN TaskCompleted(env[m], q.results) ELSE env[m]
      answer(to) == [q EXCEPT !.from = m, !.to = to, !.path = @ \cup {m},
                              !.results = {}, !.success = FoundAll(saved)]
  IN  /\ ~IAmPrimaryMaster(m)
      /\ m \in q.path
      /\ env' = [env EXCEPT ![m] = SetLease(saved, LeasedTasks(saved))]
      /\ \E peer \in IF q.fwd # None /\ q.fwd.owner = m THEN {q.fwd.peer}
                     ELSE (Masters \ {m}) \cup {Worker, None} :
           /\ issued' = IF peer = Worker THEN issued \cup LeasedTasks(saved)
                        ELSE issued
           /\ forwards' = (forwards \ {q}) \cup
                (IF peer \in Masters THEN Sent(answer(peer)) ELSE {})

WorkerRequestTask(m, q) ==
  /\ m \in up
  /\ \/ ServeByPrimary(m, q)
     \/ AnswerForwarded(m, q)
     \/ ForwardToPrimary(m, q)
     \/ ServeBySecondary(m, q)
  /\ TaskExchangeSignal(m)
  /\ UNCHANGED <<group, exchange, database, duplicates>>

\* A worker (Worker::RequestTask) reports results of tasks it was given.
\* It may have computed them long ago, and other workers may do the same.
RequestOf(m, R) ==
  [from |-> Worker, to |-> m, path |-> {}, fwd |-> None,
   results |-> R, success |-> FALSE]

ReceiveFromWorker(m, R) ==
  /\ R \subseteq issued
  /\ Cardinality(forwards) + Cardinality(duplicates) < MaxMessages
  /\ WorkerRequestTask(m, RequestOf(m, R))

ReceiveForward(q) == q \in forwards /\ WorkerRequestTask(q.to, q)

-----------------------------------------------------------------------------
(* Task duplicates *)

\* Mutant of RequestTaskDuplicate: no look whether the primary is known.
RequestWithoutPrimary(m) ==
  /\ m \in up
  /\ ~IAmPrimaryMaster(m)
  /\ IdleTasksSize(env[m]) = 0
  /\ Cardinality(forwards) + Cardinality(duplicates) < MaxMessages
  /\ duplicates' = duplicates \cup
       {[from |-> m, to |-> primary_sockaddr[m], tasks |-> {}]}
  /\ UNCHANGED <<group, env, pc, exchange, database, forwards, issued>>

\* HeartBeat of a secondary that has nothing to hand out
RequestTaskDuplicate(m) ==
  /\ m \in up
  /\ IKnowPrimaryMaster(m) /\ ~IAmPrimaryMaster(m)
  /\ IdleTasksSize(env[m]) = 0
  /\ primary_sockaddr[m] \in up
  /\ Cardinality(forwards) + Cardinality(duplicates) < MaxMessages
  /\ duplicates' = duplicates \cup
       {[from |-> m, to |-> primary_sockaddr[m], tasks |-> {}]}
  /\ UNCHANGED <<group, env, pc, exchange, database, forwards, issued>>

\* The primary leases tasks to the sender of any REQUEST_TASK_DUPLICATE.
SendTaskDuplicate(d) ==
  LET lent == FirstIdle(env[d.to], TaskDuplicate)
      answer == [from |-> d.to, to |-> d.from, tasks |-> lent]
  IN  /\ d \in duplicates
      /\ d.to \in up
      /\ IAmPrimaryMaster(d.to)
      /\ env' = [env EXCEPT ![d.to] = SetLease(@, lent)]
      /\ duplicates' = (duplicates \ {d}) \cup
           IF lent # {} THEN Sent(answer) ELSE {}
      /\ UNCHANGED <<group, pc, exchange, database, forwards, issued>>

\* Mutant of SaveTaskDuplicate: a primary takes them as well.
SaveByAnyone(d) ==
  /\ d \in duplicates
  /\ d.to \in up
  /\ env' = IF d.tasks = {} THEN env
            ELSE [env EXCEPT ![d.to] = UpdateTasks(@, d.tasks)]
  /\ duplicates' = duplicates \ {d}
  /\ UNCHANGED <<group, pc, exchange, database, forwards, issued>>

\* Another master takes the tasks it carries as its new table.
SaveTaskDuplicate(d) ==
  /\ d \in duplicates
  /\ d.to \in up
  /\ ~IAmPrimaryMaster(d.to)
  /\ env' = IF d.tasks = {} THEN env
            ELSE [env EXCEPT ![d.to] = UpdateTasks(@, d.tasks)]
  /\ duplicates' = duplicates \ {d}
  /\ UNCHANGED <<group, pc, exchange, database, forwards, issued>>

-----------------------------------------------------------------------------
(* Leases, elections, failures *)

Expire(m, t) ==
  /\ m \in up
  /\ env[m].lease[t] = "live"
  /\ env' = [env EXCEPT ![m] = ExpireLease(@, t)]
  /\ UNCHANGED <<group, pc, exchange, database, messages>>

\* The outcome of the ring election: Coordinator(p) announces p.
Elect(p) ==
  /\ p \in up
  /\ elections < MaxElections
  /\ elections' = elections + 1
  /\ elected' = p
  /\ UNCHANGED <<up, primary_sockaddr, crashes, env, pc, exchange, database,
                 messages>>

\* COORDINATOR or MASTER_ASK_TRACKER names another master, JoinMasterGroup
\* takes over its clock.
LearnPrimary(m) ==
  /\ m \in up
  /\ elected \notin {m, None}
  /\ primary_sockaddr' = [primary_sockaddr EXCEPT ![m] = elected]
  /\ \E L \in SUBSET EverLeased(env[m]) :
       env' = [env EXCEPT ![m] = MoveClock(@, L)]
  /\ UNCHANGED <<up, elected, elections, crashes, pc, exchange, database, messages>>

\* UpgradeTracker: m announced itself, or is alone.  Its own clock counts
\* again and TaskExchangeThread is signalled.  A master that is alone and
\* knows it is primary does not come here again.
UpgradeTracker(m) ==
  /\ m \in up
  /\ elected = m
  /\ primary_sockaddr[m] # m \/ up # {m}
  /\ primary_sockaddr' = [primary_sockaddr EXCEPT ![m] = m]
  /\ \E L \in SUBSET EverLeased(env[m]) :
       env' = [env EXCEPT ![m] = MoveClock(@, L)]
  /\ MasterSignal(m)
  /\ UNCHANGED <<up, elected, elections, crashes, exchange, database, messages>>

\* m learns from a message another master started that m itself is primary
LearnOwnElection(m) ==
  /\ m \in up
  /\ elected = m
  /\ up # {m}
  /\ primary_sockaddr' = [primary_sockaddr EXCEPT ![m] = m]
  /\ UNCHANGED <<up, elected, elections, crashes, env, pc, exchange, database,
                 messages>>

\* SocketClose on the connection to the primary; what was under way on it
\* is gone with its buffers.
PrimaryOffline(m) ==
  LET ends == {m, primary_sockaddr[m]}
  IN  /\ m \in up
      /\ IKnowPrimaryMaster(m) /\ ~IAmPrimaryMaster(m)
      /\ primary_sockaddr' = [primary_sockaddr EXCEPT ![m] = None]
      /\ forwards' = {q \in forwards : {q.from, q.to} # ends}
      /\ duplicates' = {d \in duplicates : {d.from, d.to} # ends}
      /\ UNCHANGED <<up, elected, elections, crashes, env, pc, exchange,
                     database, issued>>

\* The process dies with everything it kept, its connections included; the
\* database stays.
Crash(m) ==
  /\ m \in up
  /\ crashes < MaxCrashes
  /\ crashes' = crashes + 1
  /\ up' = up \ {m}
  /\ primary_sockaddr' = [primary_sockaddr EXCEPT ![m] = None]
  /\ env' = [env EXCEPT ![m] = EmptyEnviroment]
  /\ pc' = [pc EXCEPT ![m] = "check_primary"]
  /\ batch' = [batch EXCEPT ![m] = NoResult]
  /\ selected' = [selected EXCEPT ![m] = {}]
  /\ forwards' = {q \in forwards : m \notin {q.from, q.to}}
  /\ duplicates' = {d \in duplicates : m \notin {d.from, d.to}}
  /\ UNCHANGED <<elected, elections, raced, database, issued>>

Restart(m) ==
  /\ m \in Masters \ up
  /\ up' = up \cup {m}
  /\ UNCHANGED <<primary_sockaddr, elected, elections, crashes, env, pc, exchange,
                 database, messages>>

-----------------------------------------------------------------------------
Next ==
  \/ \E m \in Masters :
       \/ TaskExchangeThread(m)
       \/ \E R \in SUBSET issued : ReceiveFromWorker(m, R)
       \/ RequestTaskDuplicate(m)
       \/ \E t \in Tasks : Expire(m, t)
       \/ Elect(m) \/ LearnPrimary(m) \/ UpgradeTracker(m)
       \/ LearnOwnElection(m) \/ PrimaryOffline(m)
       \/ Crash(m) \/ Restart(m)
  \/ \E q \in forwards : ReceiveForward(q)
  \/ \E d \in duplicates : SendTaskDuplicate(d) \/ SaveTaskDuplicate(d)

Spec == Init /\ [][Next]_vars

-----------------------------------------------------------------------------
(* Safety *)

\* While at most one election result was announced and the database works,
\* the result of a task reaches dict_word at most once: lease expiry, several
\* workers computing one task, copies on secondaries and restarts included
\* (TaskExchangeThread, TaskCompleted).
ExportedAtMostOnce ==
  elections <= 1 /\ failures = 0 => \A t \in Tasks : exported[t] <= 1

\* While the database works and no two masters imported the same rows, a
\* master never holds a task as waiting and as completed at once nor two
\* results of it, although AddTask looks for the task in tasks_ only and
\* never in completed_tasks_.
TaskHeldOnce ==
  failures = 0 /\ ~raced =>
    \A m \in Masters, t \in Tasks :
      /\ t \in env[m].tasks => env[m].completed[t] = 0
      /\ env[m].completed[t] <= 1

\* Nobody but an import under way knows the task.
Untouched(t) ==
  /\ exported[t] = 0
  /\ \A m \in Masters : /\ t \notin env[m].tasks
                        /\ env[m].completed[t] = 0
                        /\ batch[m][t] = 0
  /\ \A d \in duplicates : t \notin d.tasks

\* A task that the database still offers is in no table, message or export
\* of the group and on no list that AddTask is working through: an import
\* that begins after another one marked its rows finds none of them, also
\* when imports overlap, crash or follow on elections (ImportTaskUDF).
StoredTaskIsUntouched ==
  failures = 0 =>
    \A t \in store :
      /\ Untouched(t)
      /\ \A m \in Masters : pc[m] = "add" => t \notin selected[m]

\* What imports under way have to themselves: two masters work on one row
\* only after a second election, and otherwise what a master selected is
\* stored until it is marked, and nowhere else until it is added.
ImportsApart ==
  /\ raced => elections > 1
  /\ \A m \in Masters : pc[m] \notin {"mark", "add"} => selected[m] = {}
  /\ failures = 0 /\ ~raced =>
       \A m \in Masters :
         /\ pc[m] = "mark" => selected[m] \subseteq store
         /\ pc[m] = "add" => \A t \in selected[m] : Untouched(t)
         /\ \A n \in Masters \ {m} : selected[m] \cap selected[n] = {}

\* Part of the inductive argument for ExportedAtMostOnce: with one announced
\* result only that master takes itself for primary or runs an exchange, and
\* no task duplicate is on its way to it.
SinglePrimary ==
  elections <= 1 =>
    /\ elections = 0 => elected = None /\ duplicates = {}
    /\ \A m \in Masters :
         /\ primary_sockaddr[m] \in {None, elected}
         /\ m # elected =>
              pc[m] \in {"check_primary", "to_wait_primary", "wait_primary"}
    /\ \A d \in duplicates :
         elected # IF d.tasks = {} THEN d.from ELSE d.to

\* The other part: a task or a result that the elected master still holds is
\* not exported yet, except between the export and the clearing of the table.
ExportPending ==
  elections <= 1 /\ failures = 0 =>
    \A t \in Tasks :
      /\ exported[t] <= 1
      /\ elections = 0 => exported[t] = 0
      /\ \A m \in Masters :
           m = elected =>
             /\ t \in env[m].tasks => exported[t] = 0
             /\ pc[m] = "export" => batch[m][t] <= env[m].completed[t]
             /\ env[m].completed[t] > 0 /\ pc[m] # "clear" => exported[t] = 0

\* The inductive invariant behind the theorems: the table of a task, its copy
\* in the exchange under way and the database never count one result twice
\* while one master was elected (TaskExchangeThread against SocketThread).
IInv ==
  /\ TypeOK
  /\ TaskHeldOnce
  /\ StoredTaskIsUntouched
  /\ ImportsApart
  /\ SinglePrimary
  /\ ExportPending

\* A task leaves the table of the primary only with a result that goes into
\* completed_tasks_, and a result leaves completed_tasks_ only when the
\* exchange clears it, or with the process: a late task duplicate, which
\* replaces a whole table (SaveTaskDuplicate), never reaches a primary.
PrimaryKeepsTask ==
  [][\A m \in up', t \in Tasks :
       IAmPrimaryMaster(m) =>
         /\ t \in env[m].tasks \ env'[m].tasks
              => env'[m].completed[t] > env[m].completed[t]
         /\ env'[m].completed[t] < env[m].completed[t] => pc[m] = "clear"]_vars

-----------------------------------------------------------------------------
(* The life of a task, as TaskLife describes it.  Only the table of the    *)
(* elected master counts: what the others hold are copies.  A task is      *)
(* imported when its row is marked.                                        *)

Waiting(t) ==
  \E m \in Masters :
    m = elected /\ (t \in env[m].tasks \/ (pc[m] = "add" /\ t \in selected[m]))
Completed(t) == \E m \in Masters : m = elected /\ env[m].completed[t] > 0

StateOf(t) ==
  IF elections > 1 \/ failures > 0 THEN "unknown"
  ELSE IF Waiting(t) THEN "waiting"
  ELSE IF exported[t] > 0 THEN "exported"
  ELSE IF Completed(t) THEN "completed"
  ELSE IF t \in store THEN "stored"
  ELSE "lost"

Life == INSTANCE TaskLife WITH life <- [t \in Tasks |-> StateOf(t)]

\* TaskExchangeThread, SocketThread and the failures of one group implement
\* TaskLife: no race of import, lease, export and crash gives a task a second
\* life, and each export adds one result that a worker brought.
LifeSpec == Life!Spec

-----------------------------------------------------------------------------
(* What the documentation says and the code does not do *)

\* README: the results of completed tasks are exported.  A result leaves
\* completed_tasks_ of a running primary only after it was exported.
ClearedOnlyIfExported ==
  [][\A m \in up', t \in Tasks :
       IAmPrimaryMaster(m) /\ env'[m].completed[t] < env[m].completed[t]
         => exported[t] > 0]_vars

-----------------------------------------------------------------------------
(* Liveness *)

\* A worker brings a result for a task whose lease is live.
ResultInTime(m, t) ==
  \E R \in SUBSET issued :
    t \in Accepted(env[m], R) /\ ReceiveFromWorker(m, R)

\* Threads keep running; a master without a primary looks for one; workers
\* keep asking, and some computation of each task ends within a lease.
Fairness ==
  /\ \A m \in Masters :
       /\ WF_vars(TaskExchangeThread(m))
       /\ WF_vars(Elect(m))
       /\ WF_vars(UpgradeTracker(m))
       /\ WF_vars(\E R \in SUBSET issued : ReceiveFromWorker(m, R))
       /\ \A t \in Tasks : SF_vars(ResultInTime(m, t))

LiveSpec == Spec /\ Fairness

\* Once TaskExchangeThread of a lone primary got past its first wait, every
\* task of the database is imported, whatever wakeups of cond_task_exchange_
\* are lost: the next request signals again.
StoreDrains == \A m \in Masters : pc[m] = "check_idle" ~> store = {}

\* A task in the table of a lone primary gets a result although its lease
\* runs out any number of times and lower ids are leased first.
TaskGetsResult ==
  \A m \in Masters, t \in Tasks :
    t \in env[m].tasks ~> t \notin env[m].tasks
=============================================================================
