# TLA+ models of FastDCS

FastDCS is a distributed computing system in C++: *masters* hold a table of
tasks, *workers* compute them.  This directory holds TLA+ models of its server
code (`src/src/server`) and of the libraries under it, the TLC configurations
that check them on small instances, and TLAPS proofs for every size.  Paths below
are relative to the repository (`src/` here); file names without a path are in
`src/server`.

## 1. Inventory

| Part | State | Operations | Talks to | What is hard, what makes it correct |
|---|---|---|---|---|
| Task table (`enviroment.*`) | `tasks_` with lease times, `completed_tasks_`, clock offset | AddTask, UpdateTasks, LeaseTasks, GetIdleTask, TaskCompleted, ClearCompletedTasks | called by every thread of a process under its own mutex | each call is atomic, sequences of calls are not |
| Task exchange (`master.cc` TaskExchangeThread, `demo/dict_master.cc`) | the thread's position, its copy of the results | wait for the role, wait for low stock, export, clear, import | database; woken by SocketThread and UpgradeTracker | interleaving with SocketThread, lost wakeups, crash between steps; each task imported once, its result exported once |
| Request handling (`master.cc` ProtocolProcess) | table, forwarded requests | WORKER_REQUEST_TASK, REQUEST_TASK_DUPLICATE | workers, other masters | late and repeated results, answers to a master whose role changed |
| Election and group (`master.cc`, `tracker.cc`) | `primary_sockaddr_`, `master_sockets_` | HeartBeat, ELECTION, COORDINATOR, MASTER_ASK_TRACKER, MASTER_JOIN_GROUP, MASTER_GROUP_CHANGED, SocketClose | ring of masters over TCP | concurrent rounds, crash and quick restart, merged messages; one primary, known to all, that works |
| Signaling queue (`signaling_queue.*`) | byte ring, message positions, finished producers, two condition variables | Add, Remove, Signal | one per direction of each socket | wrap-around, wakeups of one thread; a FIFO of whole messages, nobody sleeps over work |
| Worker (`worker.cc`, `demo/dict_worker.cc`) | table, computing threads, connections, ring of masters | Computing, HeartBeat, RequestTask, SaveNewTask, AskTracker, FindOwnerMaster, SocketClose | masters | results lost between two calls, one task in two threads, deleted tasks in use, empty ring; each task is computed, the worker keeps asking |
| Socket threads (`tracker.cc`, `connector.*`, `epoller.*`) | buffers and connectors per descriptor, event queues, `mutex_socket_` | SocketThread, SendProtocol, EpollReadCallback, SocketClose, AddSocketResource | kernel, all of the above | blocking on a full buffer with a lock held, partial sends, descriptor reuse; every event handled, every message sent |
| Messages (`tracker_protocol.pb.*`, `protofile.cc`) | fields, has-bits, unknown fields | set, clear, merge, copy, swap, serialize, parse, records | SocketThread, SaveNewTask | merged and cut reads, optional fields; what is read is what was written |
| Consistent hash (`libconhash`) | red-black tree of virtual nodes | add_node, del_node, lookup, fini | Worker::FindOwnerMaster | rebalancing, colliding hashes, dangling pointers; the next virtual node clockwise |
| Skip list (`base/skip_list.cc`) | nodes with forward pointers per level | insert, delete, search, iterate | | levels after deletions, failing allocations; a table |
| Configuration (`base/config_bst.cc`, `base/config_file.cc`) | search tree, traversers, parser state | probe, delete, balance, traverse, config_parse | `tracker_main.cc` | traversers over a changing tree, height limit, token buffer |
| Others | | codecs, logging, database wrapper, process start | | text and I/O |

`PROJECT.json` lists all parts with their status, and under "hazards" each spot
of the code that a test would hardly reach.

## 2. Modules

| Module | Models | Composition |
|---|---|---|
| `Enviroment` | the task table, as operators on one table | extended by MasterTasks and Worker |
| `TaskLife` | what a group of masters promises about a task | |
| `MasterTasks`, `MCMasterTasks` | the masters, their threads and messages, and the database | uses Enviroment, refines TaskLife |
| `EnviromentProofs` | lemmas about the operators of the table | used by MasterTasksProofs and WorkerProofs |
| `MasterTasksProofs`, `TaskLifeProofs` | theorems about MasterTasks; the refinement of TaskLife | the second extends the first |
| `MasterElection`, `MasterElectionProofs`, `SinglePrimaryProofs` | election, group membership, failures; theorems; why there is one primary | |
| `BoundedFifo` | what a signaling queue promises | |
| `SignalingQueue`, `MCSignalingQueue`, `SignalingQueueProofs` | the byte ring and its waiting threads; theorems | refines BoundedFifo |
| `Worker`, `MCWorker`, `WorkerProofs` | one worker, its threads, and masters that come and go; theorems | uses Enviroment |
| `SocketIO`, `SocketIOProofs` | the three threads around sockets and buffers; theorems | takes a queue as what BoundedFifo promises |
| `RedBlackTree`, `Conhash` | the tree, and the ring of servers over it | Conhash extends RedBlackTree |
| `SkipList`, `ConfigBst`, `ConfigFile`, `Messages` | one library each | |
| `MCLibraries` | the libraries for TLC; each behaviour exercises one of them | extends all of them |

### Enviroment, TaskLife, MasterTasks

A lease time is only compared with the clock, so it is `"none"`, `"live"` or
`"expired"`; `Expire` lets the clock pass one lease, and a change of the clock
offset (JoinMasterGroup, UpgradeTracker) may make any lease live or expired.
`completed_tasks_` is a count per task.

TaskExchangeThread is one action per access to shared state: `CheckPrimary` and
`WaitPrimary` are separate because the signals are sent without the mutex, and
so are `CheckIdle` and `WaitIdle`; then `CopyCompleted`, `ExportTaskUDF`,
`ClearCompleted`, and an import in three: `SelectTasks`, `MarkTasks` (two
statements without a transaction) and one `AddSelected` per task.  `raced` records
that two masters selected one row before either marked it.  SocketThread handles one message per action: the
four branches of WORKER_REQUEST_TASK are `ServeByPrimary`, `AnswerForwarded`,
`ForwardToPrimary` and `ServeBySecondary`, always followed by
`TaskExchangeSignal`.  `forwarding_sock_fd` is a descriptor of the master that
wrote it; a master that finds another one's number in a message may answer on any
of its sockets or on none.  The database is `store` (rows with task_status 1)
and `exported` (how often a result was added); a statement may fail
(`MaxDbFailures`), in which case the code goes on as it does in the source.

The election appears by its outcome: `Elect` announces a master, others learn it
one by one, the elected one with (`UpgradeTracker`) or without
(`LearnOwnElection`) a signal to its exchange thread.  A worker may report any
task that was ever handed out, at any time and any number of times.

`TaskLife` says what this is for: a task goes from stored to waiting, completed
and exported, one way, its count in `dict_word` grows by one with the last step,
and on the way it can only be lost, never start again.  `StateOf` maps the masters
to it.  Only the table of the elected master counts, because what the others hold
are copies; a task that is neither there nor exported nor stored is lost.
After a second announced result or a failed statement every task is "unknown" and
nothing is promised: the code may then import or export a task twice.

### MasterElection

Masters are numbered by their place in `tracker_group`.  `chan[m][x]` is what m
sent over the socket it opened to x; order is kept per socket only.  A socket is
`"open"`, `"broken"` from the end of the peer until `SocketClose` runs, or
`"stale"` when SocketClose ran and did not find its entry: the entry is searched
under the address getpeername returns, which fails after a reset and is not
checked, so the entry may stay and that of another master may go (`MaxResets`).
ConnectMaster takes a broken or stale socket for good, and what is written to it
is lost.  `EpollReadMerges` joins two messages that one read returned, as a
protobuf parser does with concatenated messages: later fields win, unset ones
keep the earlier value.

A handler and a close callback run under `mutex_socket_` and are one step each.
The heartbeat holds no lock and is modelled in steps: `HeartBeatAsks` (no primary
is known: AskTracker begins), `HeartBeatConnects` (FindNextMaster tries one
master), `HeartBeatFindsNobody` (on to Election, and after a second search in vain
the master leads) and `HeartBeatSends`, which uses the socket FindNextMaster found
and ends the process when it was closed meanwhile.  `late` records that a
heartbeat acted on what did not hold any more: it sent although SocketThread had
learnt of a primary, or led although another master was running by then.
`HeartBeatRequests` is the use of `master_sockets_[primary]` without a check in
RequestTaskDuplicate; with no such socket the process ends, but the function
returns before as long as there are idle tasks, so no fairness obliges it to.

A process restarts only after what its predecessor had sent is handled or lost.
Requests for task duplicates are not in the channels.

### SignalingQueue, BoundedFifo

A call holds the mutex except while it waits, so a call is one step up to its
wait and one step from each wakeup.  `SignalOne` picks any waiting thread.  The
refinement mapping reads each message's bytes out of the ring at its position,
and takes the bytes that are not free for the size of what the FIFO holds.
`Remove(char*, max_size)` drops a message that is too long.  Spurious wakeups
are left out; the loops make them harmless.

### Worker

Each access of a thread to shared state is a step: a computing thread looks at the
table, waits (with a timeout), takes a task, computes, completes it; the heartbeat
looks at the table, tries a master, takes its socket, copies the results one by
one, clears them, sends.  The signals to waiting threads are sent without their mutexes, so a
check and the wait that follows are two steps here as well.  `task[h]` is the
pointer a thread holds and `dangling` the threads whose object ClearCompletedTasks
or UpdateTasks deleted: a use of it may crash, or complete any task.  An answer
that replaces the results while RequestTask copies them does the same to its
`pointer`.  `sockets` are the entries of `master_sockets_`, `dead` those a reset
left there without buffers; `cut` records that a request lost its socket before
it was sent.  `is_master_`
is never assigned in a worker, so `Init` leaves it open.  The ring of masters is a
set with the order in which this worker's address meets its members, as
`OnlyOwnObjectsMove` of Conhash justifies.  Masters are the environment: they
crash, come back, answer with any tasks, name any master as primary, or do not
answer WORKER_ASK_TRACKER while they know none.

### SocketIO

SocketThread holds `mutex_socket_` from the moment it finds an event until its
next wait, so its steps interleave only with a HeartBeatThread that is between
two accesses and with the kernel.  A buffer is the number of its messages, an
event queue the number of events per descriptor.  A connector holds no message,
the rest of one, or a byte count that wrapped below zero: the result of `send` is
kept unsigned, so a failure counts as -1 bytes.  Descriptors are closed by the
deleted TCPSocket and again by the epoll loop, after a failed read even by two
calls of SocketClose, and the kernel may hand the number out in between.  A
message longer than a buffer is refused by Add, and its event is pushed all the
same.  History variables (`reused`, `misread`, `oversized`, `full`, `shorts`) let
the properties say in which cases the code does not keep its promise.

### Libraries

Functions are operators from the state of the structure to its next state,
recursive where the code loops or recurses, with the source's names.

- `RedBlackTree` keeps parent pointers, the sentinel that stands for every leaf
  (its parent is written by deletions), and `Freed` for a pointer to a node that
  its caller has freed; following one sets `undefined`.
- `Conhash` fixes the hash of each virtual node (`HashOf`); two servers of the
  instance share one.
- `SkipList` lets a new node have any level and any allocation fail.
- `ConfigBst` takes the address of the root pointer as a node, as the code does.
  A generation number is only compared with the tree's, so it is a flag; the
  height limit is 3 instead of 32, and the balancing it triggers in the middle of
  a traversal is part of each operation.
- `ConfigFile` runs `config_parse` over one line per step, character by
  character, with the capacity of the token buffer and how far behind it a write
  went.
- `Messages` takes each list of fields from the generated function it stands in
  (tags, writers, sizes, merging, clearing) and has one operator per function over
  these lists; bytes are numbers, a varint is one byte or the ten of -1.  The
  protobuf library's own readers and writers are modelled from their use and
  marked external.

Definitions marked "Mutant of" are faulty variants of the definition that
follows them.  No specification uses them; each is there to show that a property
fails when the code has that fault.

## 3. Runs

| Run | Bounds | Checks | Result |
|---|---|---|---|
| tasks_failover | 2 masters, 1 task, 2 elections, 1 crash, 1 message between masters | `TypeOK`, `ExportedAtMostOnce`, `LifeSpec`, `TaskHeldOnce`, `StoredTaskIsUntouched`, `PrimaryKeepsTask` | hold |
| tasks_lone | 1 master, 2 tasks, 1 failing statement, fair | `StoreDrains`, `TaskGetsResult` | hold |
| tasks_clear | 1 master, 2 tasks | `ClearedOnlyIfExported` | violated |
| election_pair | 2 masters, one starts later, 2 starts, 2 crashes, 1 merged read, 1 reset, 2 messages per channel, fair | `TypeOK`, `SinglePrimary`, `EventuallyAgreed` | hold |
| election_trio | 3 masters started together, 1 crash, no restart, 1 reset, a heartbeat that asks finds 1 message per channel at most to be under way, fair | `SinglePrimary`, `EventuallyAgreed` | hold |
| election_upgrade | 3 masters, nothing fails, fair | `ElectedIsUpgraded` | violated |
| queue | 2 producers, 2 consumers, ring of 3 bytes, messages of 1, 2 and 3 bytes, fair | `TypeOK`, `NoSleepOverMessages`, `NoSleepAtEmptyQueue`, `NoWaitAfterFinish`, `FifoSpec`, `FinishDrains` | hold |
| worker_threads | 2 computing threads, 1 master, 2 tasks, 2 requests under way, 1 lease that runs out, 1 crash, 1 reset | `NoDanglingTask`, `ComputedOnce`, `DroppedByOverlapOrCut` | hold |
| worker_masters | 1 thread, 2 masters (the second first on the ring), 1 task, 1 request under way, 2 crashes, no reset, fair | `TypeOK`, `TaskIsComputed`, `AsksAgain` | hold |
| worker_owner | as worker_masters | `ServedAgain` | violated |
| socketio | 2 descriptors, buffers of 1 message, 2 reads, 1 send of the heartbeat, 1 short, failed or too long send, 1 connection after the first, fair | `TypeOK`, `NoBlockedRemove`, `CrashOnlyByLeftovers`, `UnsentOnlyAfterShortSend`, `OpenDescriptor`, `EventsHandled` | hold |
| libraries | ring: 4 servers of 3 virtual nodes, two of which collide; skip list: 3 keys, 3 levels; tree: 5 items, 2 traversers, height 3; file: 2 lines, of every 3 characters and some longer; messages: all classes, 2 and 1 fields set | `RingIsRedBlack`, `LookupFindsSuccessor`, `OnlyOwnObjectsMove`, `ListIsTable`, `TreeIsSorted`, `TraverserFindsNeighbours`, `FirstDefinitionHolds`, `RoundTrip`, `ReadsMayMergeOrCut` | hold |

Why the bounds are enough.  Two masters have every pair of roles, two elections
give a primary that is replaced while it runs, one crash is a failover, and
symmetry of the masters is sound because nothing orders them.  In `tasks_lone`
two tasks make the table larger than `PreloadTasks`, so that the exchange thread
waits with work left.  `MaxMessages` limits requests that start, never answers:
in MasterElection a heartbeat begins to ask only while every channel has room, and
the masters that began together may all send, so that in `election_trio` three
rounds meet on the ring.
The election needs a third master for a message to pass somebody who is neither
initiator nor elected.  The ring of three bytes has messages that end at its end,
wrap, and fill it.  Two requests under way give the overlapping answers of a
worker, two computing threads the shared task, two masters the primary and one
that is not.  A reset belongs to `worker_threads`, where it cuts a request off;
`AsksAgain` speaks of behaviours without one.  Buffers of one message are met empty
and full; one new connection is enough for a descriptor to be used again.  Five items below a
height limit of three make the tree balance itself during a move; twelve virtual
nodes take the red-black tree through every case of both fixups.  Two fields at a
time meet every pair of cases of the generated parsers.

Deadlock is checked in MasterTasks, SignalingQueue and Worker.  In MasterElection
a group that agrees has nothing left to do (the heartbeat of a primary does
nothing), SocketIO stops when a thread blocks with the mutex, which its
properties describe, and a configuration file ends; their configurations switch
the check off.

Fairness.  Threads are scheduled by the system, so steps that need nobody else
are weakly fair: TaskExchangeThread, the heartbeat, SocketThread on what has
arrived, close callbacks, resumed queue calls, consumers, computing threads, timed
waits.  A message under way to a running process arrives or is lost.  `tasks_lone`
also assumes that workers keep asking (the worker's heartbeat), and that some
computation of each task ends within a lease whenever there is one again and
again: without that no lease scheme gets a result.  Nothing obliges a process to
start, to crash or to end by a use of a missing socket, a master to know a
primary, or a read to merge messages.  `AsksAgain` and `ServedAgain` assume masters
that answer WORKER_ASK_TRACKER, which `master.cc:288` does when a primary is
known; they say so as a premise (`AllAnswer`).

What the passing runs show beyond the absence of errors.  A worker can drop a
result only when a request began while an earlier one had no answer, or when the
socket was closed under a request that had cleared the results already
(`worker.cc:180`); it uses a deleted task only when a lease ran out.
SocketThread blocks for ever only when a thread that holds `mutex_socket_` meets a
full buffer, when a read was longer than the buffer (`tracker.cc:344`), or when a
descriptor was used again before the events of its last connection were gone; and
a message stays unsent only after a short or failed send, or when it was longer
than the buffer.  A master holds a task twice, with a working database, only after
two masters selected its row before either marked it.  Two masters lead at once
only when one was started after the others.  The dangling parent pointer that
`util_rbtree_delete` leaves in a new root is never followed with two or more
virtual nodes per server.  The token buffer of `config_parse` is overrun by at
most two bytes.

What the violated properties show, each against a sentence of the repository's
README (quoted in `PROJECT.json`, "findings"):

- *tasks_clear*: a result taken between the copy and the clearing of
  `completed_tasks_` is deleted without being exported.
- *election_upgrade*: a master elected by a message somebody else started is
  never told to exchange tasks.
- *worker_owner*: when the primary leaves and then another master, the worker's
  ring of masters ends empty and is never filled again.

Known without a run of their own: a secondary that becomes primary exports again
what it had forwarded (`master.cc:360`); rows a crashed primary had marked as
taken are known to nobody (`dict_master.cc:115`); with three masters the initiator
of an election has no socket to the elected one and its next heartbeat without
idle tasks uses it (`master.cc:488`), while one with idle tasks keeps a primary
that may be gone (`Stranded`); a master that found nobody to connect leads
although another one started and was elected meanwhile (`master.cc:537`,
`LateStart`); after a reset the entry of a dead socket stays in `master_sockets_`
and everything sent to that master is lost (`tracker.cc:198`), which is why
`EventuallyAgreed` and `AsksAgain` promise nothing then; a master that starts during an election can leave everybody
with a primary that does not take itself for one (`master.cc:221`), which is why
election_trio starts its masters together.

## 4. Proofs

Every theorem holds for all values of the constants that satisfy the named
assumptions of its component, which TLC evaluates on every run.

| Module | Theorem | States |
|---|---|---|
| `MasterTasksProofs` | `TypeCorrect` | `Spec => []TypeOK` |
| | `TasksAreHeldOnce` | `Spec => []TaskHeldOnce` |
| | `StoredTasksAreUntouched` | `Spec => []StoredTaskIsUntouched` |
| | `ExchangeInvariant` | `Spec => []IInv` |
| | `ResultsAreExportedAtMostOnce` | `Spec => []ExportedAtMostOnce` |
| | `PrimaryKeepsItsTasks` | `Spec => PrimaryKeepsTask` |
| `TaskLifeProofs` | `NothingBeforeElection` | `Spec => []NothingImported` |
| | `GroupImplementsTaskLife` | `Spec => LifeSpec` |
| `SignalingQueueProofs` | `TypeCorrect` | `Spec => []TypeOK` |
| | `NobodySleepsOverMessages` | `Spec => []NoSleepOverMessages` |
| | `NobodySleepsAtEmptyQueue` | `Spec => []NoSleepAtEmptyQueue` |
| | `NobodyWaitsAfterFinish` | `Spec => []NoWaitAfterFinish` |
| | `RingImplementsFifo` | `Spec => FifoSpec` |
| `WorkerProofs` | `WorkerInvariant` | `Spec => []IInv` |
| | `TypeCorrect` | `Spec => []TypeOK` |
| | `NoTaskDangles` | `Spec => []NoDanglingTask` |
| | `WordsCountedOnce` | `Spec => []ComputedOnce` |
| | `NothingDroppedAlone` | `Spec => []DroppedByOverlapOrCut` |
| | `WorkerKeepsItsTasks` | `Spec => WorkerKeepsTask` |
| `SocketIOProofs` | `SocketInvariant` | `Spec => []IInv` |
| | `TypeCorrect` | `Spec => []TypeOK` |
| | `RemoveNeverBlocks` | `Spec => []NoBlockedRemove` |
| | `CrashNeedsLeftovers` | `Spec => []CrashOnlyByLeftovers` |
| | `UnsentNeedsShortSend` | `Spec => []UnsentOnlyAfterShortSend` |
| | `DescriptorStaysOpen` | `Spec => []OpenDescriptor` |
| `MasterElectionProofs` | `ElectionInvariant` | `Spec => []IInv` |
| | `TypeCorrect` | `Spec => []TypeOK` |
| | `PrimaryKeptWhileConnected` | `Spec => PrimaryGivenUpWhenBroken` |
| `SinglePrimaryProofs` | `NobodyIsPassedOver` | `Spec => []NobodyPassedOver` |
| | `OnePrimary` | `Spec => [](starts = 0 => SinglePrimary)` |
| | `LastMasterIsPrimary` | `Spec => [](starts = 0 => LastMasterLeads)` |

Each component has an inductive invariant `IInv`, in its module or beside its
proofs, and one lemma per action or group of actions that shows it is kept.

*MasterTasks* (`TasksAssumption`: tasks are a finite set of numbers;
`ParameterAssumption`: worker, "none" and masters differ, settings are natural
numbers).  `TaskHeldOnce` is not inductive: an import could bring back a task
that is completed.  It needs to know where a task can be between the SELECT of an
import and its AddTask.  `StoredTaskIsUntouched`: what the database offers is in no
table, batch, message or export, and on no list AddTask is working through.
`ImportsApart`: what a master selected is stored until it is marked and known to
nobody else until it is added, and no other master selected it, unless two
imports raced; and they race only after a second election.  Hence `TaskHeldOnce`
excludes races, and `StoredTaskIsUntouched` does not: the first of two racing
masters marks the rows before it adds them.
`ExportedAtMostOnce` needs two facts more.
`SinglePrimary`: with one announced result only that master runs an exchange, and
no task duplicate is on its way to it, so its table is never replaced.
`ExportPending`: what that master still holds is not exported yet, except between
export and clear, and what it is about to export is no more than what it holds.
`PrimaryKeepsTask` is an action property that follows from the type invariant,
action by action.  What the proofs here and those about Worker need to know of
the table is in `EnviromentProofs`, one lemma per operator.

*TaskLife*.  While one result at most was announced and no statement failed
(`Calm`), the invariant above keeps the places of a task apart
(`WaitingIsApart`), so that each step moves the tasks of one set from one place
to the next: what a request brings to the elected master is completed
(`CollectIsLife`), what is exported was completed and not exported
(`ExportIsLife`), what is cleared and not exported is lost, as is what a crashed
master held, and a task is imported when its row is marked (`MarkIsLife`), which takes stored
tasks only; selecting it before and adding it after are stutters.  The first election needs one
fact more: it makes the table of its winner count, which until then was nobody's.
`NothingImported` says that before it the database still offers every task, so
that this table is empty.  A step that ends the calm is `GiveUp`.

*SignalingQueue* (`QueueAssumption`: a ring of at least one byte, messages are
not empty, finitely many threads).  The free bytes and the positions modulo the
ring do not say that messages follow each other without a gap.  `Ring` does: there
are offsets on a line twice as long as the ring on which each message starts where
the last one ends, the first lies in the ring and the write pointer is the end of
the last one, wrapped.  From it a new message overwrites no byte of an old one
(`RingImplementsFifo`), and the pointers stay in the ring.  That nobody sleeps over
work follows by counting: an Add wakes one waiting consumer, a Remove that takes a
message was itself one of the woken ones; for the producers it needs that whoever
waits has a message that fits into an empty ring (`WaitersHaveMessages`).

*Worker* (`WorkerAssumption`: masters are numbered, the ring orders them, bounds
are natural numbers).  `Exclusive`: while no lease ran out, the task a thread
computes is in the table, leased, and held by no other thread, so no answer
replaces it (SaveNewTask refuses while the table holds tasks) and no report deletes it.
`OneRequest`: while requests did not overlap, the table is empty from the
beginning of a request to its answer, so no result can come between copying and
clearing the results, and an answer finds none to clear.  What has been copied is
lost when the request's socket is closed before it is sent, which is `cut`.
`WorkerKeepsTask` is the same for single steps: a task leaves the table with a result by the thread
that computed it, a result only into the request under way.

*SocketIO* (`SocketAssumption`: finitely many descriptors, buffers of at least one
message, the marks for "no buffer" are neither descriptors nor counts).
`OneEventEach`: until a descriptor is used again too early or a read is longer than
the buffer, a receive buffer holds as many messages as there are receive events of
its descriptor in the two event queues; it is what lets SocketThread call the
blocking Remove with `mutex_socket_` held.  It also says that a descriptor
SocketClose is about to close has no buffers.  `BuffersTogether`: the two buffers
of a connection go in one step.  `AtDescriptor`: the iterator SendProtocol keeps
over an unlock points to a buffer until the socket is closed.

*MasterElection* (`GroupAssumption`: at least one master, those that start are
among them).  The type invariant alone is not inductive: `HandleCoordinator`
stores what a message names, and a message is the result of earlier ones, merged
or forwarded.  `IInv` adds that each COORDINATOR under way names a master, which
holds because an election that comes round names the last of those it passed, and
that a heartbeat on its search is at a master.  From it follows that no message makes
a running master give up its primary: only a broken socket does, its own or, after
a reset, one that SocketClose took for it.

Why there is one primary (`SinglePrimaryProofs`).  The ballot of an election is
the set of masters it passed, and the elected one is the last of them in
`tracker_group`.  `NobodyPassedOver` says that while no master was started after
the others (`starts = 0`) a message under way has passed every running master
between the one that started the round and the one it is sent to (`OnTheWay`;
`Distance` is how far one master is behind another on the ring), because
FindNextMaster skips only masters that do not run.  The same is said of a heartbeat
in the middle of its search (`FitBeats`): it has tried every running master between
its own and the one it is at, so one that leads because it found nobody is alone.
When the message comes round
it has passed every running master (`Round`), so no running master is behind the
one it elects (`Leads`), and a crash only makes that easier.  Hence the primary
any master knows has no running master behind it, and two masters that both take
themselves for the primary are the same.  Merged reads keep this: the merged
message is the second one, with the result of the first when it has none, and
neither names a master with a running one behind it.

With later starts `SinglePrimary` is only model-checked, for two masters
(election_pair) and heartbeats that are not overtaken: it has the disjunct
`LateStart`, which needs a start, so the theorem is about uniqueness itself.
The property fails for three: master 1 leads alone after 2 and 3 crashed,
3 starts, and a MASTER_ASK_TRACKER that 2 had sent before it crashed comes back to
1 without an answer, which starts an election that 3 wins while 1 still takes
itself for the primary, until the COORDINATOR has been around.  So a group whose
masters start at different times has a moment with two primaries.

Only model-checked: liveness (fairness is out of the prover's reach);
`SinglePrimary` with later starts, as said; and the libraries, whose functions are
recursive operators, which the prover does not accept.

## 5. Not modelled

Status reports (logging only); two threads that connect the same master at once
(`tracker.cc:180` keeps the second socket); start and end of a process; `bst_copy`,
`bst_replace` and `bst_t_replace`, which nothing calls; `skiplist_inspect`;
descriptors and reflection of the generated messages, and varints of two to nine
bytes; the codecs; md5; logging; the MySQL wrapper, which appears as statements
that succeed or fail.  A key of `tracker_group` that is part of another one
(addresses are searched as substrings) is excluded by numbering the masters.
`Enviroment::TaskCompleted` reads a map entry it has erased; the model takes the
value it had.  When an unterminated quoted string overwrites the terminator of an
earlier token, `ConfigFile` takes the next byte of the buffer for one.

## 6. Plan

Done: all modules of section 2, and the theorems of section 4.  What could
follow:

1. An election with a bound on starts: what can be said of three masters between
   a later start and the end of the round that follows it.
2. The libraries with recursive functions in place of recursive operators, to
   prove at least that single operations keep the order of a tree.
3. Two threads in ConnectMaster at once (section 5).
