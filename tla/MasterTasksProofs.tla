------------------------- MODULE MasterTasksProofs -------------------------
(***************************************************************************)
(* Proofs about MasterTasks, for any set of masters and tasks and any      *)
(* bounds.  The argument: every step of a SocketThread, of the clocks or   *)
(* of the election changes a task table only by moving tasks into the      *)
(* results (Collects).  What remains are the steps of TaskExchangeThread,  *)
(* SaveTaskDuplicate and Crash.                                            *)
(***************************************************************************)
EXTENDS MasterTasks, EnviromentProofs

\* Only the table of m changes, by moving the tasks of A to the results.
Collects(m, A) ==
  /\ env' \in [Masters -> Enviroments]
  /\ A \subseteq env[m].tasks
  /\ env'[m].tasks = env[m].tasks \ A
  /\ \A t \in Tasks :
       env'[m].completed[t] = IF t \in A THEN env[m].completed[t] + 1
                              ELSE env[m].completed[t]
  /\ \A n \in Masters : n # m => env'[n] = env[n]

-----------------------------------------------------------------------------
(* The results of a request *)

\* Master::TaskCompleted moves tasks of the table to the results.
LEMMA TaskCompletedEffect ==
  ASSUME NEW e \in Enviroments, NEW R
  PROVE  /\ TaskCompleted(e, R) \in Enviroments
         /\ Accepted(e, R) \subseteq e.tasks
         /\ TaskCompleted(e, R).tasks = e.tasks \ Accepted(e, R)
         /\ \A t \in Tasks :
              TaskCompleted(e, R).completed[t] =
                IF t \in Accepted(e, R) THEN e.completed[t] + 1
                ELSE e.completed[t]
  <1>1. Accepted(e, R) \subseteq e.tasks
    BY DEF Accepted
  <1> QED
    BY <1>1, TasksCompletedEffect DEF TaskCompleted

-----------------------------------------------------------------------------
(* Steps that only collect results *)

\* SendProtocol adds a request or nothing.
LEMMA SentType ==
  ASSUME NEW q \in Requests
  PROVE  Sent(q) \subseteq Requests
  BY DEF Sent

\* ForwardToPrimary: what a secondary forwards is a request.
LEMMA ForwardType ==
  ASSUME TypeOK, NEW m \in Masters, NEW q \in Requests, IKnowPrimaryMaster(m)
  PROVE  [q EXCEPT !.from = m, !.to = primary_sockaddr[m],
                   !.path = @ \cup {m},
                   !.fwd = [owner |-> m, peer |-> q.from]] \in Requests
  BY DEF TypeOK, IKnowPrimaryMaster, Requests, Sockets

\* ServeByPrimary, AnswerForwarded, ForwardToPrimary and ServeBySecondary:
\* handling a worker's request moves tasks to the results at this master.
LEMMA WorkerRequestCollects ==
  ASSUME TypeOK, NEW m \in Masters, NEW q \in Requests, q.to = m,
         WorkerRequestTask(m, q)
  PROVE  /\ \E A \in SUBSET Tasks : Collects(m, A)
         /\ forwards' \subseteq Requests
         /\ issued' \subseteq Tasks
  <1> USE ParameterAssumption
  <1>0. env[m] \in Enviroments /\ env \in [Masters -> Enviroments]
    BY DEF TypeOK
  <1> DEFINE saved == TaskCompleted(env[m], q.results)
             A == Accepted(env[m], q.results)
             Leased(e) == SetLease(e, LeasedTasks(e))
  <1>1. /\ saved \in Enviroments
        /\ A \subseteq env[m].tasks
        /\ saved.tasks = env[m].tasks \ A
        /\ \A t \in Tasks :
             saved.completed[t] = IF t \in A THEN env[m].completed[t] + 1
                                  ELSE env[m].completed[t]
    BY <1>0, TaskCompletedEffect
  <1>2. A \in SUBSET Tasks /\ {} \in SUBSET Tasks
    BY <1>0, <1>1 DEF Enviroments
  <1>3. \A e \in Enviroments :
          /\ LeasedTasks(e) \subseteq Tasks
          /\ Leased(e) \in Enviroments
          /\ Leased(e).tasks = e.tasks
          /\ Leased(e).completed = e.completed
    <2> SUFFICES ASSUME NEW e \in Enviroments
                 PROVE  /\ LeasedTasks(e) \subseteq Tasks
                        /\ Leased(e) \in Enviroments
                        /\ Leased(e).tasks = e.tasks
                        /\ Leased(e).completed = e.completed
      OBVIOUS
    <2>1. LeasedTasks(e) \subseteq e.tasks
      BY FirstIdleType DEF LeasedTasks
    <2> QED
      BY <2>1, SetLeaseEffect DEF Enviroments
  <1>4. CASE ServeByPrimary(m, q)
    <2>1. env' = [env EXCEPT ![m] = Leased(saved)]
      BY <1>4 DEF ServeByPrimary
    <2>2. Collects(m, A)
      BY <2>1, <1>0, <1>1, <1>3 DEF Collects
    <2> QED
      BY <2>2, <1>1, <1>2, <1>3, <1>4 DEF ServeByPrimary, TypeOK
  <1>5. CASE AnswerForwarded(m, q)
    <2>1. Collects(m, A)
      BY <1>0, <1>1, <1>5 DEF Collects, AnswerForwarded
    <2> DEFINE back == [q EXCEPT !.from = m, !.to = q.from,
                                 !.path = @ \cup {m}, !.success = TRUE]
    <2>2. CASE q.from \in up
      <3>1. back \in Requests
        BY <2>2 DEF Requests, TypeOK
      <3> QED
        BY <2>1, <3>1, <1>2, <1>5, SentType DEF AnswerForwarded, TypeOK
    <2>3. CASE q.from \notin up
      <3>1. Sent(back) = {}
        BY <2>3 DEF Sent, Requests
      <3> QED
        BY <2>1, <3>1, <1>2, <1>5 DEF AnswerForwarded, TypeOK
    <2> QED
      BY <2>2, <2>3
  <1>6. CASE ForwardToPrimary(m, q)
    <2>1. Collects(m, {})
      BY <1>0, <1>6 DEF Collects, ForwardToPrimary, Enviroments
    <2>2. forwards' \subseteq Requests
      <3>1. CASE IKnowPrimaryMaster(m)
        BY <3>1, <1>6, ForwardType, SentType DEF ForwardToPrimary, TypeOK
      <3>2. CASE ~IKnowPrimaryMaster(m)
        BY <3>2, <1>6 DEF ForwardToPrimary, TypeOK
      <3> QED
        BY <3>1, <3>2
    <2> QED
      BY <2>1, <2>2, <1>2, <1>6 DEF ForwardToPrimary, TypeOK
  <1>7. CASE ServeBySecondary(m, q)
    <2> DEFINE mine == IF q.success THEN saved ELSE env[m]
               B == IF q.success THEN A ELSE {}
               answer(to) == [q EXCEPT !.from = m, !.to = to,
                                       !.path = @ \cup {m}, !.results = {},
                                       !.success = FoundAll(mine)]
    <2>1. mine \in Enviroments /\ B \in SUBSET Tasks
      BY <1>0, <1>1, <1>2
    <2>2. env' = [env EXCEPT ![m] = Leased(mine)]
      BY <1>7 DEF ServeBySecondary
    <2>3. /\ B \subseteq env[m].tasks
          /\ mine.tasks = env[m].tasks \ B
          /\ \A t \in Tasks :
               mine.completed[t] = IF t \in B THEN env[m].completed[t] + 1
                                   ELSE env[m].completed[t]
      BY <1>0, <1>1 DEF Enviroments
    <2>4. Collects(m, B)
      BY <2>1, <2>2, <2>3, <1>0, <1>3 DEF Collects
    <2>5. PICK peer :
            /\ issued' = IF peer = Worker THEN issued \cup LeasedTasks(mine)
                         ELSE issued
            /\ forwards' = (forwards \ {q}) \cup
                 (IF peer \in Masters THEN Sent(answer(peer)) ELSE {})
      BY <1>7 DEF ServeBySecondary
    <2>6. issued' \subseteq Tasks
      BY <2>1, <2>5, <1>3 DEF TypeOK
    <2>7. FoundAll(mine) \in BOOLEAN
      BY DEF FoundAll
    <2>8. peer \in Masters => answer(peer) \in Requests
      BY <2>7 DEF Requests
    <2>9. forwards' \subseteq Requests
      <3> HIDE DEF answer
      <3> QED BY <2>5, <2>8, SentType DEF TypeOK
    <2> QED
      BY <2>1, <2>4, <2>6, <2>9
  <1> QED
    BY <1>4, <1>5, <1>6, <1>7 DEF WorkerRequestTask

\* ReceiveFromWorker: what a worker sends is a request.
LEMMA RequestOfType ==
  ASSUME TypeOK, NEW m \in Masters, NEW R \in SUBSET issued
  PROVE  RequestOf(m, R) \in Requests /\ RequestOf(m, R).to = m
  BY DEF TypeOK, RequestOf, Requests

\* SendTaskDuplicate: the primary leases, no result moves.
LEMMA SendDuplicateCollects ==
  ASSUME TypeOK, NEW d \in duplicates, SendTaskDuplicate(d)
  PROVE  Collects(d.to, {})
  <1> DEFINE m == d.to
             lent == FirstIdle(env[m], TaskDuplicate)
  <1>1. m \in Masters /\ env[m] \in Enviroments
        /\ env \in [Masters -> Enviroments]
    BY DEF TypeOK, Duplicates
  <1>2. env' = [env EXCEPT ![m] = SetLease(env[m], lent)]
    BY DEF SendTaskDuplicate
  <1> HIDE DEF m, lent
  <1>3. Collects(m, {})
    BY <1>1, <1>2, SetLeaseEffect DEF Collects
  <1> QED
    BY <1>3 DEF m

\* Expire: a lease that runs out moves no result.
LEMMA ExpireCollects ==
  ASSUME TypeOK, NEW m \in Masters, NEW t \in Tasks, Expire(m, t)
  PROVE  Collects(m, {})
  <1>1. env[m] \in Enviroments /\ env \in [Masters -> Enviroments]
    BY DEF TypeOK
  <1> QED
    BY <1>1, ExpireLeaseEffect DEF Collects, Expire

\* LearnPrimary and UpgradeTracker move the clock, no result.
LEMMA ClockCollects ==
  ASSUME TypeOK, NEW m \in Masters, LearnPrimary(m) \/ UpgradeTracker(m)
  PROVE  Collects(m, {})
  <1>1. env[m] \in Enviroments /\ env \in [Masters -> Enviroments]
    BY DEF TypeOK
  <1>2. PICK L : env' = [env EXCEPT ![m] = MoveClock(env[m], L)]
    BY DEF LearnPrimary, UpgradeTracker
  <1> QED
    BY <1>1, <1>2, MoveClockEffect DEF Collects

-----------------------------------------------------------------------------
(* Type correctness *)

\* Every step of the masters keeps the variables in their types.
LEMMA TypeStep ==
  ASSUME TypeOK, [Next]_vars
  PROVE  TypeOK'
  <1> USE ParameterAssumption
  <1> USE DEF group, exchange, database, messages
  <1>1. ASSUME NEW m \in Masters, TaskExchangeThread(m)
        PROVE  TypeOK'
    <2>0. env[m] \in Enviroments
      BY DEF TypeOK
    <2>1. CASE CheckPrimary(m)
      BY <2>1 DEF CheckPrimary, Goto, TypeOK, Steps
    <2>2. CASE WaitPrimary(m)
      BY <2>2 DEF WaitPrimary, Goto, TypeOK, Steps
    <2>3. CASE CheckIdle(m)
      BY <2>3 DEF CheckIdle, Goto, TypeOK, Steps
    <2>4. CASE WaitIdle(m)
      BY <2>4 DEF WaitIdle, Goto, TypeOK, Steps
    <2>5. CASE CopyCompleted(m)
      <3>1. env[m].completed \in [Tasks -> Nat]
        BY <2>0 DEF Enviroments
      <3> QED
        BY <3>1, <2>5 DEF CopyCompleted, Goto, TypeOK, Steps
    <2>6. CASE ExportTaskUDF(m)
      <3>1. PICK skipped \in SUBSET Tasks :
              /\ DbFails(skipped # {})
              /\ exported' = [t \in Tasks |->
                                IF t \in skipped THEN exported[t]
                                ELSE exported[t] + batch[m][t]]
        BY <2>6 DEF ExportTaskUDF
      <3>2. exported' \in [Tasks -> Nat]
        BY <3>1 DEF TypeOK
      <3>3. failures' \in Nat
        BY <3>1 DEF DbFails, TypeOK
      <3> QED
        BY <3>2, <3>3, <2>6 DEF ExportTaskUDF, Goto, TypeOK, Steps
    <2>7. CASE ClearCompleted(m)
      BY <2>0, <2>7, ClearCompletedEffect DEF ClearCompleted, Goto, TypeOK, Steps
    <2>8. CASE SelectTasks(m)
      <3>0. selected \in [Masters -> SUBSET Tasks]
        BY DEF TypeOK
      <3>1. selected' \in [Masters -> SUBSET Tasks]
        <4>1. \/ UNCHANGED selected
              \/ \E S \in SUBSET Tasks : selected' = [selected EXCEPT ![m] = S]
          BY <2>8 DEF SelectTasks
        <4> QED
          BY <4>1, <3>0
      <3>4. raced' \in BOOLEAN
        <4>1. \/ UNCHANGED raced
              \/ \E S : raced' = (raced \/ \E n \in Masters \ {m} :
                                     pc[n] = "mark" /\ S \cap selected[n] # {})
          BY <2>8 DEF SelectTasks
        <4> QED
          BY <4>1 DEF TypeOK
      <3>2. failures' \in Nat
        BY <2>8 DEF SelectTasks, DbFails, TypeOK
      <3>3. pc' \in [Masters -> Steps]
        BY <2>8 DEF SelectTasks, Goto, TypeOK, Steps
      <3> QED
        BY <3>1, <3>2, <3>3, <3>4, <2>8 DEF SelectTasks, TypeOK
    <2>9. CASE MarkTasks(m)
      <3>1. store' \subseteq Tasks /\ failures' \in Nat
        BY <2>9 DEF MarkTasks, DbFails, TypeOK
      <3> QED
        BY <3>1, <2>9 DEF MarkTasks, Goto, TypeOK, Steps
    <2>10. CASE AddSelected(m)
      <3>1. env' \in [Masters -> Enviroments]
        <4>1. CASE UNCHANGED env
          BY <4>1 DEF TypeOK
        <4>2. CASE ~UNCHANGED env
          <5>1. PICK t \in selected[m] : env' = [env EXCEPT ![m] = AddTasks(@, {t})]
            BY <4>2, <2>10 DEF AddSelected
          <5>2. AddTasks(env[m], {t}) \in Enviroments
            BY <2>0, AddTasksEffect DEF TypeOK
          <5> QED
            BY <5>1, <5>2 DEF TypeOK
        <4> QED
          BY <4>1, <4>2
      <3>2. selected' \in [Masters -> SUBSET Tasks]
        <4>1. CASE UNCHANGED selected
          BY <4>1 DEF TypeOK
        <4>2. CASE ~UNCHANGED selected
          <5>1. PICK t : selected' = [selected EXCEPT ![m] = @ \ {t}]
            BY <4>2, <2>10 DEF AddSelected
          <5> QED
            BY <5>1 DEF TypeOK
        <4> QED
          BY <4>1, <4>2
      <3>3. pc' \in [Masters -> Steps]
        BY <2>10 DEF AddSelected, Goto, TypeOK, Steps
      <3> QED
        BY <3>1, <3>2, <3>3, <2>10 DEF AddSelected, TypeOK
    <2> QED
      BY <1>1, <2>1, <2>2, <2>3, <2>4, <2>5, <2>6, <2>7, <2>8, <2>9, <2>10
         DEF TaskExchangeThread
  <1>2. ASSUME NEW m \in Masters, NEW q \in Requests, q.to = m,
               WorkerRequestTask(m, q)
        PROVE  TypeOK'
    <2>1. /\ env' \in [Masters -> Enviroments]
          /\ forwards' \subseteq Requests
          /\ issued' \subseteq Tasks
      BY <1>2, WorkerRequestCollects DEF Collects
    <2> QED
      BY <2>1, <1>2 DEF WorkerRequestTask, TaskExchangeSignal, TypeOK, Steps
  <1>3. ASSUME NEW m \in Masters, NEW R \in SUBSET issued,
               ReceiveFromWorker(m, R)
        PROVE  TypeOK'
    BY <1>2, <1>3, RequestOfType DEF ReceiveFromWorker
  <1>4. ASSUME NEW q \in forwards, ReceiveForward(q)
        PROVE  TypeOK'
    <2>1. q \in Requests /\ q.to \in Masters
      BY DEF TypeOK, Requests
    <2> QED
      BY <2>1, <1>2, <1>4 DEF ReceiveForward
  <1>5. ASSUME NEW m \in Masters, RequestTaskDuplicate(m)
        PROVE  TypeOK'
    <2>1. [from |-> m, to |-> primary_sockaddr[m], tasks |-> {}] \in Duplicates
      BY <1>5 DEF RequestTaskDuplicate, Duplicates, TypeOK
    <2> QED
      BY <2>1, <1>5 DEF RequestTaskDuplicate, TypeOK
  <1>6. ASSUME NEW d \in duplicates, SendTaskDuplicate(d)
        PROVE  TypeOK'
    <2>1. env' \in [Masters -> Enviroments]
      BY <1>6, SendDuplicateCollects DEF Collects
    <2>2. d \in Duplicates /\ d.to \in Masters /\ env[d.to] \in Enviroments
      BY DEF TypeOK, Duplicates
    <2> DEFINE lent == FirstIdle(env[d.to], TaskDuplicate)
               answer == [from |-> d.to, to |-> d.from, tasks |-> lent]
    <2>3. lent \subseteq Tasks
      BY <2>2, FirstIdleType DEF Enviroments
    <2>4. answer \in Duplicates
      BY <2>2, <2>3 DEF Duplicates
    <2>5. duplicates' \subseteq Duplicates
      BY <2>4, <1>6 DEF SendTaskDuplicate, Sent, TypeOK
    <2> QED
      BY <2>1, <2>5, <1>6 DEF SendTaskDuplicate, TypeOK
  <1>7. ASSUME NEW d \in duplicates, SaveTaskDuplicate(d)
        PROVE  TypeOK'
    <2>1. d.to \in Masters /\ d.tasks \in SUBSET Tasks
      BY DEF TypeOK, Duplicates
    <2>2. env' \in [Masters -> Enviroments]
      BY <2>1, <1>7, UpdateTasksEffect DEF SaveTaskDuplicate, TypeOK
    <2> QED
      BY <2>2, <1>7 DEF SaveTaskDuplicate, TypeOK
  <1>8. ASSUME NEW m \in Masters, NEW t \in Tasks, Expire(m, t)
        PROVE  TypeOK'
    BY <1>8, ExpireCollects DEF Expire, Collects, TypeOK
  <1>9. ASSUME NEW m \in Masters, Elect(m)
        PROVE  TypeOK'
    BY <1>9 DEF Elect, TypeOK
  <1>10. ASSUME NEW m \in Masters, LearnPrimary(m)
         PROVE  TypeOK'
    <2>1. env' \in [Masters -> Enviroments]
      BY <1>10, ClockCollects DEF Collects
    <2> QED
      BY <2>1, <1>10 DEF LearnPrimary, TypeOK
  <1>11. ASSUME NEW m \in Masters, UpgradeTracker(m)
         PROVE  TypeOK'
    <2>1. env' \in [Masters -> Enviroments]
      BY <1>11, ClockCollects DEF Collects
    <2> QED
      BY <2>1, <1>11 DEF UpgradeTracker, MasterSignal, TypeOK, Steps
  <1>12. ASSUME NEW m \in Masters, LearnOwnElection(m)
         PROVE  TypeOK'
    BY <1>12 DEF LearnOwnElection, TypeOK
  <1>13. ASSUME NEW m \in Masters, PrimaryOffline(m)
         PROVE  TypeOK'
    BY <1>13 DEF PrimaryOffline, TypeOK
  <1>14. ASSUME NEW m \in Masters, Crash(m)
         PROVE  TypeOK'
    BY <1>14, EmptyType DEF Crash, TypeOK, Steps, NoResult
  <1>15. ASSUME NEW m \in Masters, Restart(m)
         PROVE  TypeOK'
    BY <1>15 DEF Restart, TypeOK
  <1>16. CASE UNCHANGED vars
    BY <1>16 DEF vars, TypeOK
  <1> QED
    BY <1>1, <1>3, <1>4, <1>5, <1>6, <1>7, <1>8, <1>9, <1>10, <1>11, <1>12,
       <1>13, <1>14, <1>15, <1>16 DEF Next

\* The masters start with well-typed variables.
LEMMA TypeInit == Init => TypeOK
  <1>1. Init => /\ selected \in [Masters -> SUBSET Tasks] /\ raced \in BOOLEAN
                /\ pc \in [Masters -> Steps]
    BY DEF Init, Steps
  <1> QED
    BY <1>1, EmptyType DEF Init, TypeOK, NoResult

\* Every reachable state is well typed.
THEOREM TypeCorrect == Spec => []TypeOK
  BY TypeInit, TypeStep, PTL DEF Spec

-----------------------------------------------------------------------------
(* A master holds a task once, a stored task is held by nobody, imports    *)
(* keep apart                                                              *)

Held == TaskHeldOnce /\ StoredTaskIsUntouched /\ ImportsApart

\* A step leaves the import of n where it is, or ends it.
SameImport(n) ==
  \/ /\ selected'[n] = selected[n]
     /\ (pc[n] \in {"mark", "add"} \/ pc'[n] \in {"mark", "add"})
          => pc'[n] = pc[n]
  \/ selected'[n] = {} /\ pc'[n] \notin {"mark", "add"}

\* A step that touches no task nobody knows, and no import.
LEMMA ImportsKept ==
  ASSUME TypeOK, Held, UNCHANGED <<store, raced>>,
         failures' = 0 => failures = 0, elections > 1 => elections' > 1,
         failures' = 0 => \A t \in Tasks : Untouched(t) => Untouched(t)',
         \A n \in Masters : SameImport(n)
  PROVE  StoredTaskIsUntouched' /\ ImportsApart'
  <1> USE DEF Held
  <1>0. store \subseteq Tasks /\ \A n \in Masters : selected[n] \subseteq Tasks
    BY DEF TypeOK
  <1>1. StoredTaskIsUntouched'
    <2> SUFFICES ASSUME failures' = 0, NEW t \in store
                 PROVE  /\ Untouched(t)'
                        /\ \A m \in Masters : pc'[m] = "add" => t \notin selected'[m]
      BY DEF StoredTaskIsUntouched
    <2>1. /\ Untouched(t)
          /\ \A m \in Masters : pc[m] = "add" => t \notin selected[m]
      BY DEF StoredTaskIsUntouched
    <2> QED
      BY <1>0, <2>1 DEF SameImport
  <1>2. raced' => elections' > 1
    BY DEF ImportsApart
  <1>3. \A m \in Masters : pc'[m] \notin {"mark", "add"} => selected'[m] = {}
    BY DEF ImportsApart, SameImport
  <1>4. ASSUME failures' = 0, ~raced', NEW m \in Masters
        PROVE  /\ pc'[m] = "mark" => selected'[m] \subseteq store'
               /\ pc'[m] = "add" => \A t \in selected'[m] : Untouched(t)'
               /\ \A n \in Masters \ {m} : selected'[m] \cap selected'[n] = {}
    <2>1. /\ pc[m] = "mark" => selected[m] \subseteq store
          /\ pc[m] = "add" => \A t \in selected[m] : Untouched(t)
          /\ \A n \in Masters \ {m} : selected[m] \cap selected[n] = {}
      BY <1>4 DEF ImportsApart
    <2>2. pc'[m] = "mark" => selected'[m] \subseteq store'
      BY <2>1 DEF SameImport
    <2>3. pc'[m] = "add" => \A t \in selected'[m] : Untouched(t)'
      BY <2>1, <1>0, <1>4 DEF SameImport
    <2>4. \A n \in Masters : selected'[n] \subseteq selected[n]
      BY DEF SameImport
    <2> QED
      BY <2>1, <2>2, <2>3, <2>4
  <1> QED
    BY <1>1, <1>2, <1>3, <1>4 DEF ImportsApart

\* Steps that only collect results, of any thread, keep a task held once.
LEMMA CollectKeepsHeld ==
  ASSUME TypeOK, Held, NEW m \in Masters, NEW A, Collects(m, A),
         UNCHANGED <<store, exported, failures, batch, raced, elections>>,
         \A d \in duplicates' : d \in duplicates \/ d.tasks \subseteq env[m].tasks,
         \A n \in Masters : SameImport(n)
  PROVE  Held'
  <1>1. \A t \in Tasks : env[m].completed[t] \in Nat
    BY DEF TypeOK, Enviroments
  <1>2. TaskHeldOnce'
    BY <1>1 DEF Held, TaskHeldOnce, Collects
  <1>3. ASSUME NEW t \in Tasks, Untouched(t)
        PROVE  Untouched(t)'
    <2>1. \A n \in Masters : t \notin env[n].tasks /\ env[n].completed[t] = 0
      BY <1>3 DEF Untouched
    <2>2. \A n \in Masters : t \notin env'[n].tasks /\ env'[n].completed[t] = 0
      BY <2>1 DEF Collects
    <2>3. \A d \in duplicates' : t \notin d.tasks
      BY <2>1, <1>3 DEF Untouched
    <2> QED
      BY <2>2, <2>3, <1>3 DEF Untouched
  <1>4. StoredTaskIsUntouched' /\ ImportsApart'
    BY <1>3, ImportsKept
  <1> QED
    BY <1>2, <1>4 DEF Held

\* SELECT: only a second elected master can select what another one has not
\* marked yet.
LEMMA SelectKeepsHeld ==
  ASSUME TypeOK, Held, SinglePrimary, NEW m \in Masters, SelectTasks(m)
  PROVE  Held'
  <1> USE DEF group, exchange, database, messages
  <1>0. /\ failures \in Nat /\ elections \in Nat
        /\ selected \in [Masters -> SUBSET Tasks]
        /\ pc \in [Masters -> Steps]
    BY DEF TypeOK
  <1>1. UNCHANGED <<env, batch, store, exported, duplicates, elections>>
        /\ pc[m] = "import"
    BY DEF SelectTasks, Goto
  <1>2. failures' = 0 => failures = 0
    BY <1>0 DEF SelectTasks, DbFails
  <1>3. \A t \in Tasks : Untouched(t)' <=> Untouched(t)
    BY <1>1 DEF Untouched
  <1>4. CASE pc' = [pc EXCEPT ![m] = "check_primary"]
    <2>1. UNCHANGED <<selected, raced>>
      BY <1>0, <1>4 DEF SelectTasks, Goto
    <2>2. \A n \in Masters : SameImport(n)
      BY <2>1, <1>0, <1>1, <1>4 DEF SameImport
    <2>3. TaskHeldOnce'
      BY <2>1, <1>1, <1>2 DEF Held, TaskHeldOnce
    <2> QED
      BY <2>1, <2>2, <2>3, <1>1, <1>2, <1>3, ImportsKept DEF Held
  <1>5. CASE pc' # [pc EXCEPT ![m] = "check_primary"]
    <2>1. pc' = [pc EXCEPT ![m] = "mark"]
      BY <1>5 DEF SelectTasks, Goto
    <2>2. PICK S \in SUBSET Tasks :
            /\ S \subseteq store
            /\ selected' = [selected EXCEPT ![m] = S]
            /\ raced' = (raced \/ \E n \in Masters \ {m} :
                            pc[n] = "mark" /\ S \cap selected[n] # {})
      BY <1>5 DEF SelectTasks, Goto, Selected
    <2>3. /\ pc'[m] = "mark" /\ selected'[m] = S
          /\ \A n \in Masters : n # m => pc'[n] = pc[n] /\ selected'[n] = selected[n]
      BY <2>1, <2>2, <1>0
    <2>4. ~raced' => ~raced
      BY <2>2 DEF TypeOK
    <2>5. TaskHeldOnce'
      BY <2>4, <1>1, <1>2 DEF Held, TaskHeldOnce
    <2>6. StoredTaskIsUntouched'
      BY <2>3, <1>1, <1>2, <1>3 DEF Held, StoredTaskIsUntouched, TypeOK
    <2>7. raced' => elections' > 1
      <3>1. CASE raced
        BY <3>1, <1>1 DEF Held, ImportsApart
      <3>2. CASE \E n \in Masters \ {m} : pc[n] = "mark"
        <4>1. PICK n \in Masters \ {m} : pc[n] = "mark"
          BY <3>2
        <4>2. ~(elections <= 1)
          BY <4>1, <1>1 DEF SinglePrimary
        <4> QED
          BY <4>2, <1>0, <1>1
      <3> QED
        BY <3>1, <3>2, <2>2
    <2>8. \A n \in Masters : pc'[n] \notin {"mark", "add"} => selected'[n] = {}
      BY <2>3 DEF Held, ImportsApart
    <2>9. ASSUME failures' = 0, ~raced', NEW n \in Masters
          PROVE  /\ pc'[n] = "mark" => selected'[n] \subseteq store'
                 /\ pc'[n] = "add" => \A t \in selected'[n] : Untouched(t)'
                 /\ \A k \in Masters \ {n} : selected'[n] \cap selected'[k] = {}
      <3>0. failures = 0 /\ ~raced
        BY <2>4, <2>9, <1>2
      <3>1. \A k \in Masters \ {m} : S \cap selected[k] = {}
        <4> SUFFICES ASSUME NEW k \in Masters \ {m}
                     PROVE  S \cap selected[k] = {}
          OBVIOUS
        <4>1. CASE pc[k] = "mark"
          BY <4>1, <2>2, <2>9
        <4>2. CASE pc[k] = "add"
          BY <4>2, <3>0, <2>2 DEF Held, StoredTaskIsUntouched
        <4>3. CASE pc[k] \notin {"mark", "add"}
          BY <4>3 DEF Held, ImportsApart
        <4> QED
          BY <4>1, <4>2, <4>3
      <3>2. CASE n = m
        BY <3>1, <3>2, <2>2, <2>3, <1>1
      <3>3. CASE n # m
        <4>1. /\ pc[n] = "mark" => selected[n] \subseteq store
              /\ pc[n] = "add" => \A t \in selected[n] : Untouched(t)
              /\ \A k \in Masters \ {n} : selected[n] \cap selected[k] = {}
          BY <3>0 DEF Held, ImportsApart
        <4>2. \A t \in selected[n] : t \in Tasks
          BY <1>0
        <4> QED
          BY <4>1, <4>2, <3>1, <3>3, <2>3, <1>1, <1>3
      <3> QED
        BY <3>2, <3>3
    <2> QED
      BY <2>5, <2>6, <2>7, <2>8, <2>9 DEF Held, ImportsApart
  <1> QED
    BY <1>4, <1>5

\* UPDATE: what is marked is from now on on the list of one AddTask loop.
LEMMA MarkKeepsHeld ==
  ASSUME TypeOK, Held, NEW m \in Masters, MarkTasks(m)
  PROVE  Held'
  <1> USE DEF group, exchange, database, messages
  <1>0. /\ failures \in Nat /\ pc \in [Masters -> Steps]
        /\ selected \in [Masters -> SUBSET Tasks]
    BY DEF TypeOK
  <1>1. UNCHANGED <<env, batch, exported, duplicates, elections, selected, raced>>
        /\ pc[m] = "mark" /\ pc' = [pc EXCEPT ![m] = "add"]
    BY DEF MarkTasks, Goto
  <1>2. failures' = 0 => failures = 0 /\ store' = store \ selected[m]
    BY <1>0 DEF MarkTasks, DbFails
  <1>3. \A t \in Tasks : Untouched(t)' <=> Untouched(t)
    BY <1>1 DEF Untouched
  <1>4. pc'[m] = "add" /\ \A n \in Masters : n # m => pc'[n] = pc[n]
    BY <1>0, <1>1
  <1>5. TaskHeldOnce'
    BY <1>1, <1>2 DEF Held, TaskHeldOnce
  <1>6. StoredTaskIsUntouched'
    <2> SUFFICES ASSUME failures' = 0, NEW t \in store'
                 PROVE  /\ Untouched(t)'
                        /\ \A n \in Masters : pc'[n] = "add" => t \notin selected'[n]
      BY DEF StoredTaskIsUntouched
    <2>1. t \in store /\ t \notin selected[m] /\ t \in Tasks /\ failures = 0
      BY <1>2 DEF TypeOK
    <2>2. Untouched(t) /\ \A n \in Masters : pc[n] = "add" => t \notin selected[n]
      BY <2>1 DEF Held, StoredTaskIsUntouched
    <2> QED
      BY <2>1, <2>2, <1>1, <1>3, <1>4
  <1>7. /\ raced' => elections' > 1
        /\ \A n \in Masters : pc'[n] \notin {"mark", "add"} => selected'[n] = {}
    BY <1>1, <1>4 DEF Held, ImportsApart
  <1>8. ASSUME failures' = 0, ~raced', NEW n \in Masters
        PROVE  /\ pc'[n] = "mark" => selected'[n] \subseteq store'
               /\ pc'[n] = "add" => \A t \in selected'[n] : Untouched(t)'
               /\ \A k \in Masters \ {n} : selected'[n] \cap selected'[k] = {}
    <2>1. failures = 0 /\ ~raced /\ store' = store \ selected[m]
      BY <1>1, <1>2, <1>8
    <2>2. /\ pc[n] = "mark" => selected[n] \subseteq store
          /\ pc[n] = "add" => \A t \in selected[n] : Untouched(t)
          /\ \A k \in Masters \ {n} : selected[n] \cap selected[k] = {}
      BY <2>1 DEF Held, ImportsApart
    <2>3. n = m => \A t \in selected[n] : Untouched(t)
      BY <2>1, <2>2, <1>1 DEF Held, StoredTaskIsUntouched
    <2>4. \A t \in selected[n] : t \in Tasks
      BY <1>0
    <2>5. pc'[n] = "mark" => selected'[n] \subseteq store'
      BY <2>1, <2>2, <1>1, <1>4
    <2>6. pc'[n] = "add" => \A t \in selected'[n] : Untouched(t)'
      BY <2>2, <2>3, <2>4, <1>1, <1>3, <1>4
    <2> QED
      BY <2>2, <2>5, <2>6, <1>1
  <1> QED
    BY <1>5, <1>6, <1>7, <1>8 DEF Held, ImportsApart

\* AddTask: a task leaves the list and is in one table.
LEMMA AddKeepsHeld ==
  ASSUME TypeOK, Held, NEW m \in Masters, AddSelected(m)
  PROVE  Held'
  <1> USE DEF group, exchange, database, messages
  <1>0. /\ pc \in [Masters -> Steps] /\ env[m] \in Enviroments
        /\ selected \in [Masters -> SUBSET Tasks]
        /\ env \in [Masters -> Enviroments]
    BY DEF TypeOK
  <1>1. UNCHANGED <<batch, store, exported, failures, duplicates, elections, raced>>
        /\ pc[m] = "add"
    BY DEF AddSelected, Goto
  <1>2. CASE UNCHANGED <<env, selected>> /\ pc' = [pc EXCEPT ![m] = "check_primary"]
             /\ selected[m] = {}
    <2>1. \A t \in Tasks : Untouched(t) => Untouched(t)'
      BY <1>1, <1>2 DEF Untouched
    <2>2. \A n \in Masters : SameImport(n)
      BY <1>0, <1>2 DEF SameImport
    <2>3. TaskHeldOnce'
      BY <1>1, <1>2 DEF Held, TaskHeldOnce
    <2> QED
      BY <2>1, <2>2, <2>3, <1>1, ImportsKept DEF Held
  <1>3. ASSUME NEW t \in selected[m], env' = [env EXCEPT ![m] = AddTasks(@, {t})],
               selected' = [selected EXCEPT ![m] = @ \ {t}], pc' = pc
        PROVE  Held'
    <2>0. t \in Tasks
      BY <1>0
    <2>1. \A n \in Masters :
            /\ env'[n].tasks = IF n = m THEN env[m].tasks \cup {t} ELSE env[n].tasks
            /\ env'[n].completed = env[n].completed
            /\ selected'[n] = IF n = m THEN selected[m] \ {t} ELSE selected[n]
      <3>1. /\ AddTasks(env[m], {t}).tasks = env[m].tasks \cup {t}
            /\ AddTasks(env[m], {t}).completed = env[m].completed
        BY <1>0, <2>0, AddTasksEffect
      <3>2. env'[m] = AddTasks(env[m], {t}) /\ selected'[m] = selected[m] \ {t}
        BY <1>0, <1>3
      <3>3. \A n \in Masters : n # m => env'[n] = env[n] /\ selected'[n] = selected[n]
        BY <1>0, <1>3
      <3> QED
        BY <3>1, <3>2, <3>3
    <2>2. \A u \in Tasks : u # t /\ Untouched(u) => Untouched(u)'
      BY <2>1, <1>1 DEF Untouched
    <2>3. TaskHeldOnce'
      <3> SUFFICES ASSUME failures = 0, ~raced
                   PROVE  TaskHeldOnce'
        BY <1>1 DEF TaskHeldOnce
      <3>1. Untouched(t)
        BY <1>1 DEF Held, ImportsApart
      <3> QED
        BY <3>1, <2>1 DEF Untouched, Held, TaskHeldOnce
    <2>4. StoredTaskIsUntouched'
      <3> SUFFICES ASSUME failures = 0, NEW u \in store
                   PROVE  /\ Untouched(u)'
                          /\ \A n \in Masters : pc'[n] = "add" => u \notin selected'[n]
        BY <1>1 DEF StoredTaskIsUntouched
      <3>1. Untouched(u) /\ \A n \in Masters : pc[n] = "add" => u \notin selected[n]
        BY DEF Held, StoredTaskIsUntouched
      <3>2. u # t /\ u \in Tasks
        BY <3>1, <1>1, <1>3 DEF TypeOK
      <3> QED
        BY <3>1, <3>2, <2>1, <2>2, <1>3
    <2>5. /\ raced' => elections' > 1
          /\ \A n \in Masters : pc'[n] \notin {"mark", "add"} => selected'[n] = {}
      BY <2>1, <1>1, <1>3 DEF Held, ImportsApart
    <2>6. ASSUME failures' = 0, ~raced', NEW n \in Masters
          PROVE  /\ pc'[n] = "mark" => selected'[n] \subseteq store'
                 /\ pc'[n] = "add" => \A u \in selected'[n] : Untouched(u)'
                 /\ \A k \in Masters \ {n} : selected'[n] \cap selected'[k] = {}
      <3>1. /\ pc[n] = "mark" => selected[n] \subseteq store
            /\ pc[n] = "add" => \A u \in selected[n] : Untouched(u)
            /\ \A k \in Masters \ {n} : selected[n] \cap selected[k] = {}
        BY <2>6, <1>1 DEF Held, ImportsApart
      <3>2. t \notin selected'[n]
        BY <3>1, <2>1, <1>3
      <3>3. \A k \in Masters : selected'[k] \subseteq selected[k]
        BY <2>1
      <3>4. \A u \in selected[n] : u \in Tasks
        BY <1>0
      <3>5. pc'[n] = "add" => \A u \in selected'[n] : Untouched(u)'
        BY <3>1, <3>2, <3>3, <3>4, <2>2, <1>3
      <3> QED
        BY <3>1, <3>3, <3>5, <1>1, <1>3
    <2> QED
      BY <2>3, <2>4, <2>5, <2>6 DEF Held, ImportsApart
  <1>4. pc[m] = "add" => [pc EXCEPT ![m] = "add"] = pc
    BY <1>0
  <1> QED
    BY <1>1, <1>2, <1>3, <1>4 DEF AddSelected, Goto

\* Every step keeps a task held once, a stored task untouched and the imports
\* apart.
LEMMA HeldStep ==
  ASSUME TypeOK, Held, SinglePrimary, [Next]_vars
  PROVE  Held'
  <1> USE ParameterAssumption
  <1> USE DEF group, exchange, database, messages
  <1>0. /\ failures \in Nat /\ store \subseteq Tasks /\ elections \in Nat
        /\ pc \in [Masters -> Steps] /\ selected \in [Masters -> SUBSET Tasks]
    BY DEF TypeOK
  <1>1. ASSUME NEW m \in Masters, TaskExchangeThread(m)
        PROVE  Held'
    <2>0. env[m] \in Enviroments /\ env \in [Masters -> Enviroments]
          /\ batch \in [Masters -> [Tasks -> Nat]] /\ exported \in [Tasks -> Nat]
      BY DEF TypeOK
    <2>1. ASSUME \/ CheckPrimary(m) \/ WaitPrimary(m) \/ CheckIdle(m)
                 \/ WaitIdle(m) \/ CopyCompleted(m) \/ ExportTaskUDF(m)
                 \/ ClearCompleted(m)
          PROVE  /\ UNCHANGED <<store, selected, raced, elections, duplicates>>
                 /\ \A n \in Masters : SameImport(n)
      <3>1. UNCHANGED <<store, selected, raced, elections, duplicates>>
        BY <2>1 DEF CheckPrimary, WaitPrimary, CheckIdle, WaitIdle,
                    CopyCompleted, ExportTaskUDF, ClearCompleted
      <3>2. \A n \in Masters : pc'[n] = pc[n] \/ (/\ pc[n] \notin {"mark", "add"}
                                                  /\ pc'[n] \notin {"mark", "add"})
        BY <2>1, <1>0 DEF CheckPrimary, WaitPrimary, CheckIdle, WaitIdle,
                    CopyCompleted, ExportTaskUDF, ClearCompleted, Goto
      <3> QED
        BY <3>1, <3>2 DEF SameImport
    <2>2. CASE CheckPrimary(m) \/ WaitPrimary(m) \/ CheckIdle(m) \/ WaitIdle(m)
      <3>1. UNCHANGED <<env, batch, exported, failures, duplicates, raced>>
        BY <2>2 DEF CheckPrimary, WaitPrimary, CheckIdle, WaitIdle
      <3>2. \A t \in Tasks : Untouched(t) => Untouched(t)'
        BY <3>1 DEF Untouched
      <3>3. TaskHeldOnce'
        BY <3>1 DEF Held, TaskHeldOnce
      <3> QED
        BY <2>1, <2>2, <3>1, <3>2, <3>3, ImportsKept DEF Held
    <2>3. CASE CopyCompleted(m)
      <3>1. UNCHANGED <<env, exported, failures, duplicates, raced>>
        BY <2>3 DEF CopyCompleted
      <3>2. \A t \in Tasks, n \in Masters :
              batch'[n][t] = IF n = m THEN env[m].completed[t] ELSE batch[n][t]
        BY <2>0, <2>3 DEF CopyCompleted
      <3>3. \A t \in Tasks : Untouched(t) => Untouched(t)'
        BY <3>1, <3>2 DEF Untouched
      <3>4. TaskHeldOnce'
        BY <3>1 DEF Held, TaskHeldOnce
      <3> QED
        BY <2>1, <2>3, <3>1, <3>3, <3>4, ImportsKept DEF Held
    <2>4. CASE ExportTaskUDF(m)
      <3>1. UNCHANGED <<env, batch, duplicates, raced>>
        BY <2>4 DEF ExportTaskUDF
      <3>2. \A t \in Tasks : exported'[t] \in {exported[t],
                                               exported[t] + batch[m][t]}
        BY <2>4 DEF ExportTaskUDF
      <3>3. failures' = 0 => failures = 0
        BY <1>0, <2>4 DEF ExportTaskUDF, DbFails
      <3>4. \A t \in Tasks : Untouched(t) => Untouched(t)'
        BY <3>1, <3>2 DEF Untouched
      <3>5. TaskHeldOnce'
        BY <3>1, <3>3 DEF Held, TaskHeldOnce
      <3> QED
        BY <2>1, <2>4, <3>1, <3>3, <3>4, <3>5, ImportsKept DEF Held
    <2>5. CASE ClearCompleted(m)
      <3>1. UNCHANGED <<batch, exported, failures, duplicates, raced>>
        BY <2>5 DEF ClearCompleted
      <3>2. \A n \in Masters, t \in Tasks :
              /\ env'[n].tasks = env[n].tasks
              /\ env'[n].completed[t] \in {0, env[n].completed[t]}
        BY <2>0, <2>5, ClearCompletedEffect DEF ClearCompleted
      <3>3. \A t \in Tasks : Untouched(t) => Untouched(t)'
        BY <3>1, <3>2 DEF Untouched
      <3>4. TaskHeldOnce'
        BY <3>1, <3>2 DEF Held, TaskHeldOnce
      <3> QED
        BY <2>1, <2>5, <3>1, <3>3, <3>4, ImportsKept DEF Held
    <2> QED
      BY <1>1, <2>2, <2>3, <2>4, <2>5, SelectKeepsHeld, MarkKeepsHeld,
         AddKeepsHeld DEF TaskExchangeThread
  <1>2. ASSUME NEW m \in Masters, NEW q \in Requests, q.to = m,
               WorkerRequestTask(m, q)
        PROVE  Held'
    <2>1. PICK A \in SUBSET Tasks : Collects(m, A)
      BY <1>2, WorkerRequestCollects
    <2>2. UNCHANGED <<store, exported, failures, batch, raced, selected,
                      elections, duplicates>>
      BY <1>2 DEF WorkerRequestTask
    <2>3. \A n \in Masters : SameImport(n)
      BY <2>2, <1>0, <1>2 DEF WorkerRequestTask, TaskExchangeSignal, SameImport
    <2> QED
      BY <2>1, <2>2, <2>3, CollectKeepsHeld
  <1>3. ASSUME NEW m \in Masters, NEW R \in SUBSET issued,
               ReceiveFromWorker(m, R)
        PROVE  Held'
    BY <1>2, <1>3, RequestOfType DEF ReceiveFromWorker
  <1>4. ASSUME NEW q \in forwards, ReceiveForward(q)
        PROVE  Held'
    <2>1. q \in Requests /\ q.to \in Masters
      BY DEF TypeOK, Requests
    <2> QED
      BY <2>1, <1>2, <1>4 DEF ReceiveForward
  <1>5. ASSUME NEW m \in Masters, RequestTaskDuplicate(m)
        PROVE  Held'
    <2> DEFINE request == [from |-> m, to |-> primary_sockaddr[m], tasks |-> {}]
    <2>1. /\ UNCHANGED <<env, pc, batch, selected, raced, store, exported,
                         failures, elections>>
          /\ duplicates' = duplicates \cup {request}
      BY <1>5 DEF RequestTaskDuplicate
    <2>2. request.tasks = {}
      OBVIOUS
    <2> HIDE DEF request
    <2>3. \A t \in Tasks : Untouched(t) => Untouched(t)'
      BY <2>1, <2>2 DEF Untouched
    <2>4. \A n \in Masters : SameImport(n)
      BY <2>1 DEF SameImport
    <2>5. TaskHeldOnce'
      BY <2>1 DEF Held, TaskHeldOnce
    <2> QED
      BY <2>1, <2>3, <2>4, <2>5, ImportsKept DEF Held
  <1>6. ASSUME NEW d \in duplicates, SendTaskDuplicate(d)
        PROVE  Held'
    <2>1. d.to \in Masters /\ env[d.to] \in Enviroments
      BY DEF TypeOK, Duplicates
    <2> DEFINE lent == FirstIdle(env[d.to], TaskDuplicate)
               answer == [from |-> d.to, to |-> d.from, tasks |-> lent]
    <2>2. Collects(d.to, {})
      BY <1>6, SendDuplicateCollects
    <2>3. UNCHANGED <<store, exported, failures, batch, raced, selected, pc,
                      elections>>
      BY <1>6 DEF SendTaskDuplicate
    <2>4. lent \subseteq env[d.to].tasks
      BY <2>1, FirstIdleType
    <2>5. duplicates' \subseteq duplicates \cup {answer}
      BY <1>6 DEF SendTaskDuplicate, Sent
    <2>6. answer.tasks = lent
      OBVIOUS
    <2> HIDE DEF lent, answer
    <2>7. \A e \in duplicates' : e \in duplicates \/ e.tasks \subseteq env[d.to].tasks
      BY <2>4, <2>5, <2>6
    <2>8. \A n \in Masters : SameImport(n)
      BY <2>3 DEF SameImport
    <2> QED
      BY <2>1, <2>2, <2>3, <2>7, <2>8, CollectKeepsHeld
  <1>7. ASSUME NEW d \in duplicates, SaveTaskDuplicate(d)
        PROVE  Held'
    <2>1. d.to \in Masters /\ d.tasks \in SUBSET Tasks
          /\ env \in [Masters -> Enviroments]
      BY DEF TypeOK, Duplicates
    <2>2. UNCHANGED <<store, exported, failures, batch, raced, selected, pc,
                      elections>> /\ duplicates' = duplicates \ {d}
      BY <1>7 DEF SaveTaskDuplicate
    <2>3. \A n \in Masters : SameImport(n)
      BY <2>2 DEF SameImport
    <2>4. CASE d.tasks = {}
      <3>1. UNCHANGED env
        BY <2>4, <1>7 DEF SaveTaskDuplicate
      <3>2. \A t \in Tasks : Untouched(t) => Untouched(t)'
        BY <2>2, <3>1 DEF Untouched
      <3>3. TaskHeldOnce'
        BY <2>2, <3>1 DEF Held, TaskHeldOnce
      <3> QED
        BY <2>2, <2>3, <3>2, <3>3, ImportsKept DEF Held
    <2>5. CASE d.tasks # {}
      <3>1. /\ env'[d.to].tasks = d.tasks
            /\ \A t \in Tasks : env'[d.to].completed[t] = 0
            /\ \A n \in Masters : n # d.to => env'[n] = env[n]
        BY <2>1, <2>5, <1>7, UpdateTasksEffect DEF SaveTaskDuplicate
      <3>2. TaskHeldOnce'
        BY <3>1, <2>2 DEF Held, TaskHeldOnce
      <3>3. ASSUME NEW t \in Tasks, Untouched(t)
            PROVE  Untouched(t)'
        <4>1. t \notin d.tasks
          BY <3>3 DEF Untouched
        <4>2. \A n \in Masters : t \notin env'[n].tasks /\ env'[n].completed[t] = 0
          BY <4>1, <3>1, <3>3 DEF Untouched
        <4> QED
          BY <4>2, <2>2, <3>3 DEF Untouched
      <3> QED
        BY <2>2, <2>3, <3>2, <3>3, ImportsKept DEF Held
    <2> QED
      BY <2>4, <2>5
  <1>8. ASSUME NEW m \in Masters, NEW t \in Tasks, Expire(m, t)
        PROVE  Held'
    <2>1. UNCHANGED <<store, exported, failures, batch, duplicates, raced,
                      selected, pc, elections>>
      BY <1>8 DEF Expire
    <2>2. \A n \in Masters : SameImport(n)
      BY <2>1 DEF SameImport
    <2> QED
      BY <2>1, <2>2, <1>8, ExpireCollects, CollectKeepsHeld
  <1>9. ASSUME NEW m \in Masters, LearnPrimary(m) \/ UpgradeTracker(m)
        PROVE  Held'
    <2>1. UNCHANGED <<store, exported, failures, batch, duplicates, raced,
                      selected, elections>>
      BY <1>9 DEF LearnPrimary, UpgradeTracker
    <2>2. \A n \in Masters : SameImport(n)
      BY <2>1, <1>0, <1>9 DEF LearnPrimary, UpgradeTracker, MasterSignal,
                              SameImport
    <2> QED
      BY <2>1, <2>2, <1>9, ClockCollects, CollectKeepsHeld
  <1>10. ASSUME NEW m \in Masters,
                \/ Elect(m) \/ LearnOwnElection(m) \/ PrimaryOffline(m)
                \/ Restart(m)
         PROVE  Held'
    <2>1. /\ UNCHANGED <<env, pc, batch, selected, raced, store, exported, failures>>
          /\ duplicates' \subseteq duplicates
      BY <1>10 DEF Elect, LearnOwnElection, PrimaryOffline, Restart
    <2>2. elections' \in {elections, elections + 1}
      BY <1>10 DEF Elect, LearnOwnElection, PrimaryOffline, Restart
    <2>3. elections > 1 => elections' > 1
      BY <2>2, <1>0
    <2>4. \A t \in Tasks : Untouched(t) => Untouched(t)'
      BY <2>1 DEF Untouched
    <2>5. \A n \in Masters : SameImport(n)
      BY <2>1 DEF SameImport
    <2>6. TaskHeldOnce'
      BY <2>1 DEF Held, TaskHeldOnce
    <2> QED
      BY <2>1, <2>3, <2>4, <2>5, <2>6, ImportsKept DEF Held
  <1>11. ASSUME NEW m \in Masters, Crash(m)
         PROVE  Held'
    <2>0. env \in [Masters -> Enviroments] /\ batch \in [Masters -> [Tasks -> Nat]]
      BY DEF TypeOK
    <2>1. \A n \in Masters, t \in Tasks :
            /\ env'[n].tasks \subseteq env[n].tasks
            /\ env'[n].completed[t] \in {0, env[n].completed[t]}
            /\ batch'[n][t] \in {0, batch[n][t]}
      BY <2>0, <1>11 DEF Crash, EmptyEnviroment, NoResult
    <2>2. /\ UNCHANGED <<store, exported, failures, raced, elections>>
          /\ duplicates' \subseteq duplicates
      BY <1>11 DEF Crash
    <2>3. \A t \in Tasks : Untouched(t) => Untouched(t)'
      BY <2>1, <2>2 DEF Untouched
    <2>4. \A n \in Masters : SameImport(n)
      BY <1>0, <1>11 DEF Crash, SameImport
    <2>5. TaskHeldOnce'
      BY <2>1, <2>2 DEF Held, TaskHeldOnce
    <2> QED
      BY <2>2, <2>3, <2>4, <2>5, ImportsKept DEF Held
  <1>12. CASE UNCHANGED vars
    BY <1>12 DEF vars, Held, TaskHeldOnce, StoredTaskIsUntouched, ImportsApart,
                 Untouched
  <1> QED
    BY <1>1, <1>3, <1>4, <1>5, <1>6, <1>7, <1>8, <1>9, <1>10, <1>11, <1>12
       DEF Next

\* Initially the tables are empty and nobody imports.
LEMMA HeldInit == Init => Held
  BY DEF Init, Held, TaskHeldOnce, StoredTaskIsUntouched, ImportsApart,
         Untouched, EmptyEnviroment, NoResult

-----------------------------------------------------------------------------
(* With one election result there is one primary *)

\* Every step keeps SinglePrimary.
LEMMA SinglePrimaryStep ==
  ASSUME TypeOK, SinglePrimary, [Next]_vars
  PROVE  SinglePrimary'
  <1> USE ParameterAssumption
  <1> USE DEF group, exchange, database, messages
  <1>0. elections \in Nat /\ pc \in [Masters -> Steps]
        /\ primary_sockaddr \in [Masters -> Masters \cup {None}]
        /\ duplicates \subseteq Duplicates
    BY DEF TypeOK
  <1>1. ASSUME NEW m \in Masters, TaskExchangeThread(m)
        PROVE  SinglePrimary'
    <2>1. UNCHANGED <<group, duplicates>>
      BY <1>1 DEF TaskExchangeThread, CheckPrimary, WaitPrimary, CheckIdle,
                  WaitIdle, CopyCompleted, ExportTaskUDF, ClearCompleted, SelectTasks,
                  MarkTasks, AddSelected
    <2>2. \A n \in Masters : n # m => pc'[n] = pc[n]
      BY <1>0, <1>1 DEF TaskExchangeThread, CheckPrimary, WaitPrimary, CheckIdle,
            WaitIdle, CopyCompleted, ExportTaskUDF, ClearCompleted, SelectTasks, MarkTasks,
                  AddSelected, Goto
    <2>3. CASE CheckPrimary(m) \/ WaitPrimary(m)
      <3>1. pc'[m] \in {"check_primary", "to_wait_primary", "wait_primary"}
            \/ primary_sockaddr[m] = m
        BY <1>0, <2>3 DEF CheckPrimary, WaitPrimary, Goto, IAmPrimaryMaster
      <3> QED
        BY <2>1, <2>2, <3>1 DEF SinglePrimary
    <2>4. CASE ~(CheckPrimary(m) \/ WaitPrimary(m))
      <3>1. pc[m] \notin {"check_primary", "to_wait_primary", "wait_primary"}
        BY <2>4, <1>1 DEF TaskExchangeThread, CheckIdle, WaitIdle,
             CopyCompleted, ExportTaskUDF, ClearCompleted, SelectTasks, MarkTasks,
                  AddSelected, Goto
      <3> QED
        BY <2>1, <2>2, <3>1 DEF SinglePrimary
    <2> QED
      BY <2>3, <2>4
  <1>2. ASSUME NEW m \in Masters, NEW q, WorkerRequestTask(m, q)
        PROVE  SinglePrimary'
    <2>1. \A n \in Masters : pc'[n] = pc[n] \/ pc[n] = "wait_idle"
      BY <1>0, <1>2 DEF WorkerRequestTask, TaskExchangeSignal
    <2> QED
      BY <2>1, <1>2 DEF WorkerRequestTask, SinglePrimary
  <1>3. ASSUME NEW m \in Masters, NEW R \in SUBSET issued,
               ReceiveFromWorker(m, R)
        PROVE  SinglePrimary'
    BY <1>2, <1>3 DEF ReceiveFromWorker
  <1>4. ASSUME NEW q \in forwards, ReceiveForward(q)
        PROVE  SinglePrimary'
    <2>1. q.to \in Masters
      BY DEF TypeOK, Requests
    <2> QED
      BY <2>1, <1>2, <1>4 DEF ReceiveForward
  <1>5. ASSUME NEW m \in Masters, RequestTaskDuplicate(m)
        PROVE  SinglePrimary'
    <2> DEFINE request == [from |-> m, to |-> primary_sockaddr[m], tasks |-> {}]
    <2>1. /\ primary_sockaddr[m] \notin {None, m}
          /\ duplicates' = duplicates \cup {request}
          /\ UNCHANGED <<pc, primary_sockaddr, elections, elected>>
      BY <1>5 DEF RequestTaskDuplicate, IKnowPrimaryMaster, IAmPrimaryMaster
    <2>2. request.from = m /\ request.tasks = {}
      OBVIOUS
    <2> HIDE DEF request
    <2> QED
      BY <2>1, <2>2 DEF SinglePrimary
  <1>6. ASSUME NEW d \in duplicates, SendTaskDuplicate(d)
        PROVE  SinglePrimary'
    <2> DEFINE lent == FirstIdle(env[d.to], TaskDuplicate)
               answer == [from |-> d.to, to |-> d.from, tasks |-> lent]
    <2>1. /\ primary_sockaddr[d.to] = d.to /\ d.to \in Masters
          /\ UNCHANGED <<pc, primary_sockaddr, elections, elected>>
          /\ \/ duplicates' \subseteq duplicates
             \/ lent # {} /\ duplicates' \subseteq duplicates \cup {answer}
      BY <1>0, <1>6 DEF SendTaskDuplicate, Sent, IAmPrimaryMaster, Duplicates
    <2>2. answer.to = d.from /\ answer.tasks = lent
      OBVIOUS
    <2> HIDE DEF lent, answer
    <2> QED
      BY <2>1, <2>2 DEF SinglePrimary
  <1>7. ASSUME NEW d \in duplicates, SaveTaskDuplicate(d)
        PROVE  SinglePrimary'
    BY <1>7 DEF SaveTaskDuplicate, SinglePrimary
  <1>8. ASSUME NEW m \in Masters, NEW t \in Tasks, Expire(m, t)
        PROVE  SinglePrimary'
    BY <1>8 DEF Expire, SinglePrimary
  <1>9. ASSUME NEW m \in Masters, Elect(m)
        PROVE  SinglePrimary'
    <2> SUFFICES ASSUME elections' <= 1
                 PROVE  SinglePrimary'
      BY DEF SinglePrimary
    <2>1. elections = 0 /\ elections' = 1
      BY <1>0, <1>9 DEF Elect
    <2>2. elected = None /\ duplicates = {}
      BY <2>1 DEF SinglePrimary
    <2>3. \A n \in Masters :
            /\ primary_sockaddr[n] = None
            /\ pc[n] \in {"check_primary", "to_wait_primary", "wait_primary"}
      BY <2>1, <2>2 DEF SinglePrimary
    <2> QED
      BY <2>1, <2>2, <2>3, <1>9 DEF Elect, SinglePrimary
  <1>10. ASSUME NEW m \in Masters,
                \/ LearnPrimary(m) \/ LearnOwnElection(m) \/ PrimaryOffline(m)
         PROVE  SinglePrimary'
    <2>1. \A n \in Masters :
            primary_sockaddr'[n] \in {primary_sockaddr[n], None, elected}
      BY <1>0, <1>10 DEF LearnPrimary, LearnOwnElection, PrimaryOffline
    <2> QED
      BY <2>1, <1>10 DEF LearnPrimary, LearnOwnElection, PrimaryOffline,
                         SinglePrimary
  <1>11. ASSUME NEW m \in Masters, UpgradeTracker(m)
         PROVE  SinglePrimary'
    <2>1. \A n \in Masters :
            /\ primary_sockaddr'[n] \in {primary_sockaddr[n], elected}
            /\ pc'[n] = pc[n] \/ pc'[n] = "check_primary"
      BY <1>0, <1>11 DEF UpgradeTracker, MasterSignal
    <2> QED
      BY <2>1, <1>11 DEF UpgradeTracker, SinglePrimary
  <1>12. ASSUME NEW m \in Masters, Crash(m)
         PROVE  SinglePrimary'
    <2>1. \A n \in Masters :
            /\ primary_sockaddr'[n] \in {primary_sockaddr[n], None}
            /\ pc'[n] = pc[n] \/ pc'[n] = "check_primary"
      BY <1>0, <1>12 DEF Crash
    <2> QED
      BY <2>1, <1>12 DEF Crash, SinglePrimary
  <1>13. ASSUME NEW m \in Masters, Restart(m)
         PROVE  SinglePrimary'
    BY <1>13 DEF Restart, SinglePrimary
  <1>14. CASE UNCHANGED vars
    BY <1>14 DEF vars, SinglePrimary
  <1> QED
    BY <1>1, <1>3, <1>4, <1>5, <1>6, <1>7, <1>8, <1>9, <1>10, <1>11, <1>12,
       <1>13, <1>14 DEF Next

-----------------------------------------------------------------------------
(* With one election result, at most one export *)

\* Steps that only collect results keep ExportPending.
LEMMA CollectKeepsPending ==
  ASSUME TypeOK, ExportPending, NEW m \in Masters, NEW A, Collects(m, A),
         UNCHANGED <<exported, failures, batch, elections, elected>>,
         \A n \in Masters :
           \/ pc'[n] = pc[n]
           \/ pc[n] \in {"wait_primary", "wait_idle"}
              /\ pc'[n] \in {"check_primary", "check_idle"}
  PROVE  ExportPending'
  <1>0. env[m] \in Enviroments /\ batch \in [Masters -> [Tasks -> Nat]]
    BY DEF TypeOK
  <1>1. \A t \in Tasks : env[m].completed[t] \in Nat /\ batch[m][t] \in Nat
    BY <1>0 DEF Enviroments
  <1> SUFFICES ASSUME elections <= 1, failures = 0, NEW t \in Tasks,
                      NEW n \in Masters, n = elected
               PROVE  /\ t \in env'[n].tasks => exported[t] = 0
                      /\ pc'[n] = "export" => batch[n][t] <= env'[n].completed[t]
                      /\ env'[n].completed[t] > 0 /\ pc'[n] # "clear"
                           => exported[t] = 0
    BY DEF ExportPending
  <1>2. /\ t \in env[n].tasks => exported[t] = 0
        /\ pc[n] = "export" => batch[n][t] <= env[n].completed[t]
        /\ env[n].completed[t] > 0 /\ pc[n] # "clear" => exported[t] = 0
    BY DEF ExportPending
  <1>3. CASE n # m
    BY <1>2, <1>3 DEF Collects
  <1>4. CASE n = m
    BY <1>1, <1>2, <1>4 DEF Collects
  <1> QED
    BY <1>3, <1>4

\* Every step keeps ExportPending.
LEMMA ExportPendingStep ==
  ASSUME TypeOK, Held, SinglePrimary, ExportPending, [Next]_vars
  PROVE  ExportPending'
  <1> USE ParameterAssumption
  <1> USE DEF group, exchange, database, messages
  <1>0. /\ elections \in Nat /\ failures \in Nat /\ pc \in [Masters -> Steps]
        /\ env \in [Masters -> Enviroments]
        /\ batch \in [Masters -> [Tasks -> Nat]] /\ exported \in [Tasks -> Nat]
    BY DEF TypeOK
  <1>c. \A n \in Masters, t \in Tasks : env[n].completed[t] \in Nat
    BY <1>0 DEF Enviroments
  <1>1. ASSUME NEW m \in Masters, TaskExchangeThread(m)
        PROVE  ExportPending'
    <2>0. UNCHANGED <<elections, elected>>
      BY <1>1 DEF TaskExchangeThread, CheckPrimary, WaitPrimary, CheckIdle,
                  WaitIdle, CopyCompleted, ExportTaskUDF, ClearCompleted, SelectTasks,
                  MarkTasks, AddSelected
    <2>1. CASE CheckPrimary(m) \/ WaitPrimary(m) \/ CheckIdle(m) \/ WaitIdle(m)
      <3>1. \A n \in Masters :
              \/ pc'[n] = pc[n]
              \/ pc[n] # "clear" /\ pc'[n] \notin {"export", "clear"}
        BY <2>1, <1>0 DEF CheckPrimary, WaitPrimary, CheckIdle, WaitIdle, Goto
      <3> QED
        BY <3>1, <2>0, <2>1 DEF CheckPrimary, WaitPrimary, CheckIdle, WaitIdle,
                                ExportPending
    <2>2. CASE CopyCompleted(m)
      <3>1. \A n \in Masters :
              \/ pc'[n] = pc[n] /\ batch'[n] = batch[n]
              \/ /\ pc[n] = "copy" /\ pc'[n] = "export"
                 /\ batch'[n] = env[n].completed
        BY <2>2, <1>0 DEF CopyCompleted, Goto
      <3> QED
        BY <3>1, <1>c, <2>0, <2>2 DEF CopyCompleted, ExportPending
    <2>3. CASE ExportTaskUDF(m)
      <3> SUFFICES ASSUME elections <= 1, failures' = 0
                   PROVE  ExportPending'
        BY <2>0 DEF ExportPending
      <3>1. failures = 0
        BY <2>3, <1>0 DEF ExportTaskUDF, DbFails
      <3>2. pc[m] = "export" /\ pc' = [pc EXCEPT ![m] = "clear"]
            /\ UNCHANGED <<env, batch>>
        BY <2>3 DEF ExportTaskUDF, Goto
      <3>3. m = elected /\ elections # 0
        BY <3>2 DEF SinglePrimary
      <3>4. \A t \in Tasks : exported'[t] \in {exported[t],
                                               exported[t] + batch[m][t]}
        BY <2>3 DEF ExportTaskUDF
      <3>5. ASSUME NEW t \in Tasks
            PROVE  /\ exported'[t] <= 1
                   /\ t \in env[m].tasks => exported'[t] = 0
        <4>1. /\ exported[t] \in Nat /\ exported[t] <= 1
              /\ batch[m][t] \in Nat /\ batch[m][t] <= env[m].completed[t]
              /\ env[m].completed[t] > 0 => exported[t] = 0
              /\ t \in env[m].tasks => exported[t] = 0
          BY <3>1, <3>2, <3>3, <1>0 DEF ExportPending
        <4>2. /\ env[m].completed[t] <= 1
              /\ t \in env[m].tasks => env[m].completed[t] = 0
          <5>1. ~raced
            BY <1>0 DEF Held, ImportsApart
          <5> QED
            BY <5>1, <3>1 DEF Held, TaskHeldOnce
        <4> QED
          BY <4>1, <4>2, <3>4, <1>c
      <3>6. pc'[m] = "clear"
        BY <3>2, <1>0
      <3> QED
        BY <2>0, <3>2, <3>3, <3>5, <3>6 DEF ExportPending
    <2>4. CASE ClearCompleted(m)
      <3>1. \A n \in Masters :
              \/ pc'[n] = pc[n] /\ env'[n] = env[n]
              \/ /\ pc'[n] = "import"
                 /\ env'[n].tasks = env[n].tasks
                 /\ \A t \in Tasks : env'[n].completed[t] = 0
        BY <2>4, <1>0, ClearCompletedEffect DEF ClearCompleted, Goto
      <3> QED
        BY <3>1, <2>0, <2>4 DEF ClearCompleted, ExportPending
    <2>5. CASE SelectTasks(m) \/ MarkTasks(m)
      <3>1. \A n \in Masters :
              \/ pc'[n] = pc[n]
              \/ pc[n] # "clear" /\ pc'[n] \notin {"export", "clear"}
        BY <2>5, <1>0 DEF SelectTasks, MarkTasks, Goto
      <3>2. UNCHANGED <<env, batch, exported>> /\ (failures' = 0 => failures = 0)
        BY <2>5, <1>0 DEF SelectTasks, MarkTasks, DbFails
      <3> QED
        BY <3>1, <3>2, <2>0 DEF ExportPending
    <2>6. CASE AddSelected(m)
      <3>1. pc[m] = "add" /\ UNCHANGED <<batch, exported, failures>>
            /\ \A n \in Masters :
                 \/ pc'[n] = pc[n]
                 \/ pc[n] # "clear" /\ pc'[n] \notin {"export", "clear"}
        BY <2>6, <1>0 DEF AddSelected, Goto
      <3>2. CASE UNCHANGED env
        BY <3>1, <3>2, <2>0 DEF ExportPending
      <3>3. CASE ~UNCHANGED env
        <4>1. PICK t \in selected[m] : env' = [env EXCEPT ![m] = AddTasks(@, {t})]
          BY <3>3, <2>6 DEF AddSelected
        <4>2. t \in Tasks
          BY DEF TypeOK
        <4>3. \A n \in Masters :
                /\ env'[n].tasks \subseteq env[n].tasks \cup {t}
                /\ env'[n].completed = env[n].completed
          BY <4>1, <4>2, <1>0, AddTasksEffect
        <4>4. elections <= 1 /\ failures = 0 => exported[t] = 0
          BY <3>1, <1>0 DEF Held, ImportsApart, Untouched
        <4> QED
          BY <4>3, <4>4, <3>1, <2>0 DEF ExportPending
      <3> QED
        BY <3>2, <3>3
    <2> QED
      BY <1>1, <2>1, <2>2, <2>3, <2>4, <2>5, <2>6 DEF TaskExchangeThread
  <1>2. ASSUME NEW m \in Masters, NEW q \in Requests, q.to = m,
               WorkerRequestTask(m, q)
        PROVE  ExportPending'
    <2>1. PICK A \in SUBSET Tasks : Collects(m, A)
      BY <1>2, WorkerRequestCollects
    <2>2. UNCHANGED <<exported, failures, batch, elections, elected>>
      BY <1>2 DEF WorkerRequestTask
    <2>3. \A n \in Masters : \/ pc'[n] = pc[n]
                             \/ pc[n] = "wait_idle" /\ pc'[n] = "check_idle"
      BY <1>0, <1>2 DEF WorkerRequestTask, TaskExchangeSignal
    <2> QED
      BY <2>1, <2>2, <2>3, CollectKeepsPending
  <1>3. ASSUME NEW m \in Masters, NEW R \in SUBSET issued,
               ReceiveFromWorker(m, R)
        PROVE  ExportPending'
    BY <1>2, <1>3, RequestOfType DEF ReceiveFromWorker
  <1>4. ASSUME NEW q \in forwards, ReceiveForward(q)
        PROVE  ExportPending'
    <2>1. q \in Requests /\ q.to \in Masters
      BY DEF TypeOK, Requests
    <2> QED
      BY <2>1, <1>2, <1>4 DEF ReceiveForward
  <1>5. ASSUME NEW m \in Masters,
               \/ RequestTaskDuplicate(m) \/ LearnOwnElection(m)
               \/ PrimaryOffline(m) \/ Restart(m)
        PROVE  ExportPending'
    BY <1>5 DEF RequestTaskDuplicate, LearnOwnElection, PrimaryOffline, Restart,
                ExportPending
  <1>6. ASSUME NEW d \in duplicates, SendTaskDuplicate(d)
        PROVE  ExportPending'
    <2>1. d.to \in Masters
      BY DEF TypeOK, Duplicates
    <2>2. UNCHANGED <<exported, failures, batch, elections, elected, pc>>
      BY <1>6 DEF SendTaskDuplicate
    <2> QED
      BY <2>1, <2>2, <1>6, SendDuplicateCollects, CollectKeepsPending
  <1>7. ASSUME NEW d \in duplicates, SaveTaskDuplicate(d)
        PROVE  ExportPending'
    <2>1. elections <= 1 => d.tasks = {} \/ d.to # elected
      BY DEF SinglePrimary
    <2>2. CASE d.tasks = {}
      BY <2>2, <1>7 DEF SaveTaskDuplicate, ExportPending
    <2>3. CASE d.tasks # {}
      <3>1. \A n \in Masters : n # d.to => env'[n] = env[n]
        BY <2>3, <1>0, <1>7 DEF SaveTaskDuplicate
      <3> QED
        BY <2>1, <2>3, <3>1, <1>7 DEF SaveTaskDuplicate, ExportPending
    <2> QED
      BY <2>2, <2>3
  <1>8. ASSUME NEW m \in Masters, NEW t \in Tasks, Expire(m, t)
        PROVE  ExportPending'
    <2>1. UNCHANGED <<exported, failures, batch, elections, elected, pc>>
      BY <1>8 DEF Expire
    <2> QED
      BY <2>1, <1>8, ExpireCollects, CollectKeepsPending
  <1>9. ASSUME NEW m \in Masters, LearnPrimary(m) \/ UpgradeTracker(m)
        PROVE  ExportPending'
    <2>1. UNCHANGED <<exported, failures, batch, elections, elected>>
      BY <1>9 DEF LearnPrimary, UpgradeTracker
    <2>2. \A n \in Masters : \/ pc'[n] = pc[n]
                             \/ pc[n] = "wait_primary" /\ pc'[n] = "check_primary"
      BY <1>0, <1>9 DEF LearnPrimary, UpgradeTracker, MasterSignal
    <2> QED
      BY <2>1, <2>2, <1>9, ClockCollects, CollectKeepsPending
  <1>10. ASSUME NEW m \in Masters, Elect(m)
         PROVE  ExportPending'
    <2> SUFFICES ASSUME elections' <= 1, failures = 0
                 PROVE  ExportPending'
      BY <1>10 DEF Elect, ExportPending
    <2>1. elections = 0 /\ elections' = 1
      BY <1>0, <1>10 DEF Elect
    <2>2. \A n \in Masters : pc[n] # "export"
      BY <2>1 DEF SinglePrimary
    <2>3. \A t \in Tasks : exported[t] = 0
      BY <2>1 DEF ExportPending
    <2> QED
      BY <2>1, <2>2, <2>3, <1>10 DEF Elect, ExportPending
  <1>11. ASSUME NEW m \in Masters, Crash(m)
         PROVE  ExportPending'
    <2>1. \A n \in Masters :
            \/ pc'[n] = pc[n] /\ env'[n] = env[n] /\ batch'[n] = batch[n]
            \/ /\ pc'[n] = "check_primary"
               /\ env'[n].tasks = {}
               /\ \A t \in Tasks : env'[n].completed[t] = 0
      BY <1>0, <1>11 DEF Crash, EmptyEnviroment, NoResult
    <2> QED
      BY <2>1, <1>11 DEF Crash, ExportPending
  <1>12. CASE UNCHANGED vars
    BY <1>12 DEF vars, ExportPending
  <1> QED
    BY <1>1, <1>3, <1>4, <1>5, <1>6, <1>7, <1>8, <1>9, <1>10, <1>11, <1>12
       DEF Next

\* The inductive invariant holds initially.
LEMMA IInvInit == Init => IInv
  <1> SUFFICES ASSUME Init
               PROVE  IInv
    OBVIOUS
  <1>1. SinglePrimary /\ ExportPending
    BY ParameterAssumption DEF Init, SinglePrimary, ExportPending, NoResult,
                               EmptyEnviroment
  <1> QED
    BY <1>1, TypeInit, HeldInit DEF IInv, Held

\* The inductive invariant is kept by every step.
LEMMA IInvStep == IInv /\ [Next]_vars => IInv'
  <1> SUFFICES ASSUME IInv, [Next]_vars
               PROVE  IInv'
    OBVIOUS
  <1>1. TypeOK /\ Held /\ SinglePrimary /\ ExportPending
    BY DEF IInv, Held
  <1>2. TypeOK' /\ Held' /\ SinglePrimary' /\ ExportPending'
    BY <1>1, TypeStep, HeldStep, SinglePrimaryStep, ExportPendingStep
  <1> QED
    BY <1>2 DEF IInv, Held

\* Task table, database, messages and exchange thread of every master stay in
\* the relation that makes each export the first one (TaskExchangeThread).
THEOREM ExchangeInvariant == Spec => []IInv
  BY IInvInit, IInvStep, PTL DEF Spec

\* While no database statement failed and no two masters selected one row
\* before either marked it, a master holds a task once, through any number of
\* elections, crashes and late messages.
THEOREM TasksAreHeldOnce == Spec => []TaskHeldOnce
  <1>1. IInv => TaskHeldOnce
    BY DEF IInv
  <1> QED
    BY ExchangeInvariant, <1>1, PTL

\* While no database statement failed, a task that can still be imported is
\* nowhere in the group, overlapping imports included.
THEOREM StoredTasksAreUntouched == Spec => []StoredTaskIsUntouched
  <1>1. IInv => StoredTaskIsUntouched
    BY DEF IInv
  <1> QED
    BY ExchangeInvariant, <1>1, PTL

\* After at most one announced election and without database failures, no
\* result is exported twice: for any number of masters, tasks, workers,
\* expiring leases, restarts and messages in any order.
THEOREM ResultsAreExportedAtMostOnce == Spec => []ExportedAtMostOnce
  <1>1. IInv => ExportedAtMostOnce
    BY DEF IInv, ExportPending, ExportedAtMostOnce
  <1> QED
    BY ExchangeInvariant, <1>1, PTL

-----------------------------------------------------------------------------
(* The primary loses no task but to a result, no result but to the clearing *)

KeepsTask ==
  \A m \in up', t \in Tasks :
    IAmPrimaryMaster(m) =>
      /\ t \in env[m].tasks \ env'[m].tasks
           => env'[m].completed[t] > env[m].completed[t]
      /\ env'[m].completed[t] < env[m].completed[t] => pc[m] = "clear"

\* Steps that only collect results: what leaves the table is a result.
LEMMA CollectKeepsTask ==
  ASSUME TypeOK, NEW m \in Masters, NEW A, Collects(m, A), up' \subseteq Masters
  PROVE  KeepsTask
  <1>1. \A n \in Masters, t \in Tasks : env[n].completed[t] \in Nat
    BY DEF TypeOK, Enviroments
  <1>2. \A n \in Masters, t \in Tasks :
          /\ t \in env[n].tasks \ env'[n].tasks
               => env'[n].completed[t] > env[n].completed[t]
          /\ ~(env'[n].completed[t] < env[n].completed[t])
    BY <1>1 DEF Collects
  <1> QED
    BY <1>2 DEF KeepsTask

\* No step takes a task from a running primary without a result, and only
\* the clearing in TaskExchangeThread takes a result from it.
LEMMA KeepsTaskStep ==
  ASSUME TypeOK, TypeOK', Next
  PROVE  KeepsTask
  <1> USE ParameterAssumption
  <1> USE DEF group, exchange, database, messages
  <1>0. up' \subseteq Masters /\ env \in [Masters -> Enviroments]
    BY DEF TypeOK
  <1>c. \A m \in Masters, t \in Tasks : env[m].completed[t] \in Nat
    BY DEF TypeOK, Enviroments
  <1>1. ASSUME \A m \in Masters :
                 /\ env[m].tasks \subseteq env'[m].tasks
                 /\ \A t \in Tasks :
                      env'[m].completed[t] = env[m].completed[t]
        PROVE  KeepsTask
    BY <1>0, <1>c, <1>1 DEF KeepsTask
  <1>2. ASSUME NEW m \in Masters, TaskExchangeThread(m)
        PROVE  KeepsTask
    <2>1. CASE \/ CheckPrimary(m) \/ WaitPrimary(m) \/ CheckIdle(m)
               \/ WaitIdle(m) \/ CopyCompleted(m) \/ ExportTaskUDF(m)
      BY <2>1, <1>1 DEF CheckPrimary, WaitPrimary, CheckIdle, WaitIdle,
                        CopyCompleted, ExportTaskUDF
    <2>2. CASE ClearCompleted(m)
      <3>1. /\ pc[m] = "clear"
            /\ env'[m].tasks = env[m].tasks
            /\ \A n \in Masters : n # m => env'[n] = env[n]
        BY <2>2, <1>0, ClearCompletedEffect DEF ClearCompleted, Goto
      <3> QED
        BY <3>1, <1>0, <1>c DEF KeepsTask
    <2>3. CASE SelectTasks(m) \/ MarkTasks(m)
      BY <2>3, <1>1 DEF SelectTasks, MarkTasks
    <2>4. CASE AddSelected(m)
      <3>1. CASE UNCHANGED env
        BY <3>1, <1>1
      <3>2. CASE ~UNCHANGED env
        <4>1. PICK t \in selected[m] : env' = [env EXCEPT ![m] = AddTasks(@, {t})]
          BY <3>2, <2>4 DEF AddSelected
        <4>2. t \in Tasks
          BY DEF TypeOK
        <4> QED
          BY <4>1, <4>2, <1>0, <1>1, AddTasksEffect
      <3> QED
        BY <3>1, <3>2
    <2> QED
      BY <1>2, <2>1, <2>2, <2>3, <2>4 DEF TaskExchangeThread
  <1>3. ASSUME NEW m \in Masters, NEW q \in Requests, q.to = m,
               WorkerRequestTask(m, q)
        PROVE  KeepsTask
    BY <1>0, <1>3, WorkerRequestCollects, CollectKeepsTask
  <1>4. ASSUME NEW m \in Masters, NEW R \in SUBSET issued,
               ReceiveFromWorker(m, R)
        PROVE  KeepsTask
    BY <1>3, <1>4, RequestOfType DEF ReceiveFromWorker
  <1>5. ASSUME NEW q \in forwards, ReceiveForward(q)
        PROVE  KeepsTask
    <2>1. q \in Requests /\ q.to \in Masters
      BY DEF TypeOK, Requests
    <2> QED
      BY <2>1, <1>3, <1>5 DEF ReceiveForward
  <1>6. ASSUME NEW m \in Masters,
               \/ RequestTaskDuplicate(m) \/ Elect(m) \/ LearnOwnElection(m)
               \/ PrimaryOffline(m) \/ Restart(m)
        PROVE  KeepsTask
    BY <1>1, <1>6 DEF RequestTaskDuplicate, Elect, LearnOwnElection,
                      PrimaryOffline, Restart
  <1>7. ASSUME NEW d \in duplicates, SendTaskDuplicate(d)
        PROVE  KeepsTask
    <2>1. d.to \in Masters
      BY DEF TypeOK, Duplicates
    <2> QED
      BY <2>1, <1>0, <1>7, SendDuplicateCollects, CollectKeepsTask
  <1>8. ASSUME NEW d \in duplicates, SaveTaskDuplicate(d)
        PROVE  KeepsTask
    <2>1. CASE d.tasks = {}
      BY <2>1, <1>1, <1>8 DEF SaveTaskDuplicate
    <2>2. CASE d.tasks # {}
      <3>1. \A m \in Masters : m # d.to => env'[m] = env[m]
        BY <2>2, <1>0, <1>8 DEF SaveTaskDuplicate
      <3> QED
        BY <3>1, <1>0, <1>c, <1>8 DEF SaveTaskDuplicate, KeepsTask
    <2> QED
      BY <2>1, <2>2
  <1>9. ASSUME NEW m \in Masters, NEW t \in Tasks, Expire(m, t)
        PROVE  KeepsTask
    BY <1>0, <1>9, ExpireCollects, CollectKeepsTask
  <1>10. ASSUME NEW m \in Masters, LearnPrimary(m) \/ UpgradeTracker(m)
         PROVE  KeepsTask
    BY <1>0, <1>10, ClockCollects, CollectKeepsTask
  <1>11. ASSUME NEW m \in Masters, Crash(m)
         PROVE  KeepsTask
    <2>1. m \notin up' /\ \A n \in Masters : n # m => env'[n] = env[n]
      BY <1>0, <1>11 DEF Crash
    <2> QED
      BY <2>1, <1>0, <1>c DEF KeepsTask
  <1> QED
    BY <1>2, <1>4, <1>5, <1>6, <1>7, <1>8, <1>9, <1>10, <1>11 DEF Next

\* Whatever is elected, crashes or arrives late, a task leaves the table of a
\* running primary only with a result, and a result only when it is cleared
\* after the export.
THEOREM PrimaryKeepsItsTasks == Spec => PrimaryKeepsTask
  <1>1. TypeOK /\ TypeOK' /\ [Next]_vars => [KeepsTask]_vars
    BY KeepsTaskStep
  <1>2. TypeOK /\ [Next]_vars => TypeOK'
    BY TypeStep
  <1>3. Spec => [][KeepsTask]_vars
    BY <1>1, <1>2, TypeInit, PTL DEF Spec
  <1> QED
    BY <1>3 DEF PrimaryKeepsTask, KeepsTask
=============================================================================
