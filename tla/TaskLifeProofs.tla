--------------------------- MODULE TaskLifeProofs ---------------------------
(***************************************************************************)
(* A group of masters implements TaskLife, for any set of masters and      *)
(* tasks and any bounds.  While at most one result was announced and no    *)
(* statement failed, the inductive invariant of MasterTasksProofs keeps    *)
(* the places a task can be in apart: a task that waits at the elected     *)
(* master is neither completed nor exported nor stored, a stored one is    *)
(* nowhere else.  Each step of a thread then moves the tasks of one set    *)
(* from one place to the next.  What has to be added is that nothing is    *)
(* imported before the first election.                                     *)
(***************************************************************************)
EXTENDS MasterTasksProofs

\* One result at most was announced and no statement failed.
Calm == elections <= 1 /\ failures = 0

\* Before the first election nobody imports.
NothingImported == elections = 0 /\ failures = 0 => store = Tasks

\* The task is marked, and AddTask has yet to be called for it.
Adding(m, t) == pc[m] = "add" /\ t \in selected[m]

\* Where a task is while the group is calm.
Place(t) ==
  IF Waiting(t) THEN "waiting"
  ELSE IF exported[t] > 0 THEN "exported"
  ELSE IF Completed(t) THEN "completed"
  ELSE IF t \in store THEN "stored"
  ELSE "lost"

\* A step moves the tasks of S from one of the places "from" to "to".
Moves(S, from, to) ==
  \A t \in Tasks : IF t \in S THEN Place(t) \in from /\ Place(t)' = to
                   ELSE Place(t)' = Place(t)

-----------------------------------------------------------------------------
(* Nothing is imported before the first election *)

\* No step but an exchange of an elected master takes tasks from the database.
LEMMA NothingImportedStep ==
  ASSUME IInv, NothingImported, [Next]_vars
  PROVE  NothingImported'
  <1> USE ParameterAssumption
  <1> USE DEF group, exchange, database, messages
  <1>0. elections \in Nat /\ failures \in Nat
    BY DEF IInv, TypeOK
  <1> SUFFICES ASSUME elections' = 0, failures' = 0
               PROVE  store' = Tasks
    BY DEF NothingImported
  <1>1. ASSUME UNCHANGED <<store, elections, failures>>
        PROVE  store' = Tasks
    BY <1>1 DEF NothingImported
  <1>2. ASSUME NEW m \in Masters, TaskExchangeThread(m)
        PROVE  store' = Tasks
    <2>0. UNCHANGED elections
      BY <1>2 DEF TaskExchangeThread, CheckPrimary, WaitPrimary, CheckIdle,
                  WaitIdle, CopyCompleted, ExportTaskUDF, ClearCompleted,
                  SelectTasks, MarkTasks, AddSelected
    <2>1. pc[m] \in {"check_primary", "to_wait_primary", "wait_primary"}
      BY <2>0 DEF IInv, SinglePrimary
    <2>2. CheckPrimary(m) \/ WaitPrimary(m)
      BY <1>2, <2>1 DEF TaskExchangeThread, Goto, CheckIdle, WaitIdle,
                        CopyCompleted, ExportTaskUDF, ClearCompleted,
                  SelectTasks, MarkTasks, AddSelected
    <2> QED
      BY <1>1, <2>2 DEF CheckPrimary, WaitPrimary
  <1>3. ASSUME NEW m \in Masters, NEW q, WorkerRequestTask(m, q)
        PROVE  store' = Tasks
    BY <1>1, <1>3 DEF WorkerRequestTask
  <1>4. ASSUME NEW m \in Masters,
               \/ \E R \in SUBSET issued : ReceiveFromWorker(m, R)
               \/ \E q \in forwards : q.to = m /\ ReceiveForward(q)
        PROVE  store' = Tasks
    BY <1>3, <1>4 DEF ReceiveFromWorker, ReceiveForward
  <1>5. \A q \in forwards : q.to \in Masters
    BY DEF IInv, TypeOK, Requests
  <1>6. ASSUME NEW m \in Masters, Elect(m)
        PROVE  FALSE
    BY <1>0, <1>6 DEF Elect
  <1>7. ASSUME NEW m \in Masters,
               \/ RequestTaskDuplicate(m)
               \/ \E t \in Tasks : Expire(m, t)
               \/ LearnPrimary(m) \/ UpgradeTracker(m) \/ LearnOwnElection(m)
               \/ PrimaryOffline(m) \/ Crash(m) \/ Restart(m)
        PROVE  store' = Tasks
    BY <1>1, <1>7 DEF RequestTaskDuplicate, Expire, LearnPrimary,
                      UpgradeTracker, LearnOwnElection, PrimaryOffline, Crash,
                      Restart
  <1>8. ASSUME NEW d \in duplicates, SendTaskDuplicate(d) \/ SaveTaskDuplicate(d)
        PROVE  store' = Tasks
    BY <1>1, <1>8 DEF SendTaskDuplicate, SaveTaskDuplicate
  <1>9. CASE UNCHANGED vars
    BY <1>1, <1>9 DEF vars
  <1> QED
    BY <1>2, <1>4, <1>5, <1>6, <1>7, <1>8, <1>9 DEF Next

\* Before the first election the database still offers every task: no
\* TaskExchangeThread gets past its wait for a primary.
THEOREM NothingBeforeElection == Spec => []NothingImported
  <1>1. Init => NothingImported
    BY DEF Init, NothingImported
  <1>2. IInv /\ NothingImported /\ [Next]_vars => NothingImported'
    BY NothingImportedStep
  <1> QED
    BY <1>1, <1>2, ExchangeInvariant, PTL DEF Spec

-----------------------------------------------------------------------------
(* From places to the life of a task *)

\* While the group is calm a task is where its life says it is,
LEMMA CalmPlace ==
  ASSUME TypeOK, Calm, NEW t \in Tasks
  PROVE  StateOf(t) = Place(t)
  BY DEF TypeOK, Calm, StateOf, Place

\* also after a step,
LEMMA CalmPlaceNext ==
  ASSUME TypeOK', Calm', NEW t \in Tasks
  PROVE  StateOf(t)' = Place(t)'
  BY DEF TypeOK, Calm, StateOf, Place

\* and a step that moves tasks is a step of TaskLife.
LEMMA MovesAreLife ==
  ASSUME TypeOK, TypeOK', Calm, Calm', NEW S \in SUBSET Tasks, NEW from,
         NEW to, Moves(S, from, to)
  PROVE  Life!Move(S, from, to)
  <1>1. \A t \in Tasks : StateOf(t) = Place(t) /\ StateOf(t)' = Place(t)'
    BY CalmPlace, CalmPlaceNext
  <1> QED
    BY <1>1 DEF Moves, Life!Move

\* A step that leaves every task where it is is a stuttering step.
LEMMA PlacesKept ==
  ASSUME TypeOK, TypeOK', Calm, Calm', UNCHANGED exported,
         \A t \in Tasks : Place(t)' = Place(t)
  PROVE  UNCHANGED Life!vars
  <1>1. \A t \in Tasks : StateOf(t)' = StateOf(t)
    BY CalmPlace, CalmPlaceNext
  <1> QED
    BY <1>1 DEF Life!vars

\* A step that implements TaskLife.
LifeStep == Life!Next \/ UNCHANGED Life!vars

-----------------------------------------------------------------------------
(* What the steps do to the places *)

\* Steps that do not touch what a place is made of.
LEMMA SamePlaces ==
  ASSUME TypeOK, TypeOK', Calm,
         UNCHANGED <<store, exported, elections, elected, failures>>,
         \A m \in Masters : m = elected =>
           /\ env'[m].tasks = env[m].tasks
           /\ \A t \in Tasks : env'[m].completed[t] = env[m].completed[t]
           /\ \A t \in Tasks : Adding(m, t)' <=> Adding(m, t)
  PROVE  LifeStep
  <1>1. Calm'
    BY DEF Calm
  <1>2. ASSUME NEW t \in Tasks
        PROVE  Waiting(t)' = Waiting(t) /\ Completed(t)' = Completed(t)
    BY DEF Waiting, Completed, Adding
  <1>3. \A t \in Tasks : Place(t)' = Place(t)
    BY <1>2 DEF Place
  <1> QED
    BY <1>1, <1>3, PlacesKept DEF LifeStep

\* A task the elected master holds is not exported, and not stored.
LEMMA WaitingIsApart ==
  ASSUME IInv, Calm, NEW t \in Tasks, Waiting(t)
  PROVE  exported[t] = 0 /\ ~Completed(t) /\ t \notin store
  <1>0. ~raced
    <2>1. elections \in Nat
      BY DEF IInv, TypeOK
    <2> QED
      BY <2>1 DEF IInv, Calm, ImportsApart
  <1>1. PICK m \in Masters : m = elected /\ (t \in env[m].tasks \/ Adding(m, t))
    BY DEF Waiting, Adding
  <1>2. CASE t \in env[m].tasks
    <2>1. exported[t] = 0
      BY <1>1, <1>2 DEF IInv, Calm, ExportPending
    <2>2. env[m].completed[t] = 0
      BY <1>0, <1>2 DEF IInv, Calm, TaskHeldOnce
    <2>3. t \notin store
      BY <1>2 DEF IInv, Calm, StoredTaskIsUntouched, Untouched
    <2> QED
      BY <1>1, <2>1, <2>2, <2>3 DEF Completed
  <1>3. CASE Adding(m, t)
    <2>1. Untouched(t)
      BY <1>0, <1>3 DEF IInv, Calm, ImportsApart, Adding
    <2>2. t \notin store
      BY <1>3 DEF IInv, Calm, StoredTaskIsUntouched, Adding
    <2>3. ~Completed(t)
      BY <2>1 DEF Untouched, Completed, IInv, TypeOK
    <2> QED
      BY <2>1, <2>2, <2>3 DEF Untouched
  <1> QED
    BY <1>1, <1>2, <1>3

\* A task in a table is not on the list of an import.
LEMMA AddingIsApart ==
  ASSUME IInv, Calm, NEW m \in Masters, NEW t \in Tasks, Adding(m, t)
  PROVE  Untouched(t)
  <1>1. elections \in Nat
    BY DEF IInv, TypeOK
  <1> QED
    BY <1>1 DEF IInv, Calm, ImportsApart, Adding

\* SocketThread, the clocks and the leases: the accepted results of the
\* elected master are completed, those of another master are not counted.
LEMMA CollectIsLife ==
  ASSUME IInv, TypeOK', Calm, NEW m \in Masters, NEW A \in SUBSET Tasks,
         Collects(m, A),
         UNCHANGED <<store, exported, elections, elected, failures>>,
         \A n \in Masters, t \in Tasks : Adding(n, t)' <=> Adding(n, t)
  PROVE  LifeStep
  <1>0. TypeOK
    BY DEF IInv
  <1>1. CASE m # elected
    BY <1>0, <1>1, SamePlaces DEF Collects
  <1>2. CASE m = elected
    <2>1. ASSUME NEW t \in A
          PROVE  Place(t) = "waiting" /\ Place(t)' = "completed"
      <3>1. Waiting(t)
        BY <1>2, <2>1 DEF Waiting, Collects
      <3>2. exported[t] = 0 /\ exported'[t] = 0
        BY <3>1, WaitingIsApart
      <3>3. env[m].completed[t] \in Nat
        BY <1>0 DEF TypeOK, Enviroments
      <3>5. t \in env[m].tasks /\ ~Adding(m, t)
        BY <2>1, AddingIsApart DEF Collects, Untouched
      <3>4. ~Waiting(t)' /\ Completed(t)'
        BY <1>2, <2>1, <3>3, <3>5 DEF Waiting, Completed, Collects, Adding
      <3> QED
        BY <3>1, <3>2, <3>4 DEF Place
    <2>2. ASSUME NEW t \in Tasks, t \notin A
          PROVE  Place(t)' = Place(t)
      <3>1. Waiting(t)' = Waiting(t) /\ Completed(t)' = Completed(t)
        BY <1>2, <2>2 DEF Waiting, Completed, Collects, Adding
      <3> QED
        BY <3>1 DEF Place
    <2>3. Moves(A, {"waiting"}, "completed")
      BY <2>1, <2>2 DEF Moves
    <2>4. Life!Complete(A)
      BY <1>0, <2>3, MovesAreLife DEF Calm, Life!Complete
    <2> QED
      BY <2>4 DEF LifeStep, Life!Next
  <1> QED
    BY <1>1, <1>2

\* ExportTaskUDF: what is added to dict_word are results of the elected
\* master that were not added before.
LEMMA ExportIsLife ==
  ASSUME IInv, TypeOK', Calm, Calm', NEW m \in Masters, ExportTaskUDF(m)
  PROVE  LifeStep
  <1> USE DEF group, exchange, database, messages
  <1>0. TypeOK /\ exported \in [Tasks -> Nat] /\ failures \in Nat
    BY DEF IInv, TypeOK
  <1>1. UNCHANGED <<store, elections, elected, env>> /\ pc[m] = "export"
    BY DEF ExportTaskUDF, Goto
  <1>a. \A t \in Tasks : ~Adding(m, t) /\ ~Adding(m, t)'
    BY <1>0 DEF ExportTaskUDF, Goto, Adding, TypeOK
  <1>2. m = elected
    BY <1>1, ParameterAssumption DEF IInv, SinglePrimary, Calm
  <1>3. exported' = [t \in Tasks |-> exported[t] + batch[m][t]]
    <2>1. PICK skipped \in SUBSET Tasks :
            /\ DbFails(skipped # {})
            /\ exported' = [t \in Tasks |->
                              IF t \in skipped THEN exported[t]
                              ELSE exported[t] + batch[m][t]]
      BY DEF ExportTaskUDF
    <2>2. skipped = {}
      BY <2>1, <1>0 DEF DbFails, Calm
    <2> QED
      BY <2>1, <2>2
  <1> DEFINE S == {t \in Tasks : batch[m][t] > 0}
  <1>4. \A t \in Tasks : batch[m][t] \in Nat /\ env[m].completed[t] \in Nat
    BY <1>0 DEF TypeOK, Enviroments
  <1>5. ASSUME NEW t \in Tasks
        PROVE  Waiting(t)' = Waiting(t) /\ Completed(t)' = Completed(t)
    BY <1>1, <1>2, <1>a DEF Waiting, Completed, Adding
  <1>6. ASSUME NEW t \in S
        PROVE  /\ Place(t) = "completed" /\ Place(t)' = "exported"
               /\ exported'[t] = exported[t] + 1
    <2>1. batch[m][t] <= env[m].completed[t]
      BY <1>1, <1>2 DEF IInv, ExportPending, Calm
    <2>2. env[m].completed[t] <= 1
      BY <1>0 DEF IInv, TaskHeldOnce, ImportsApart, Calm, TypeOK
    <2>3. batch[m][t] = 1 /\ env[m].completed[t] = 1
      BY <2>1, <2>2, <1>4
    <2>4. exported[t] = 0
      BY <2>3, <1>1, <1>2 DEF IInv, ExportPending, Calm
    <2>5. Completed(t)
      BY <2>3, <1>2 DEF Completed
    <2>6. ~Waiting(t)
      BY <2>5, WaitingIsApart
    <2>7. exported'[t] = 1
      BY <1>3, <2>3, <2>4
    <2> QED
      BY <1>5, <2>4, <2>5, <2>6, <2>7 DEF Place
  <1>7. ASSUME NEW t \in Tasks, t \notin S
        PROVE  Place(t)' = Place(t) /\ exported'[t] = exported[t]
    <2>1. batch[m][t] = 0
      BY <1>4, <1>7
    <2>2. exported'[t] = exported[t]
      BY <2>1, <1>0, <1>3
    <2> QED
      BY <2>2, <1>1, <1>5 DEF Place
  <1> HIDE DEF S
  <1>8. S \in SUBSET Tasks
    BY DEF S
  <1>9. Moves(S, {"completed"}, "exported")
    BY <1>6, <1>7 DEF Moves
  <1>10. exported' = [t \in Tasks |-> IF t \in S THEN exported[t] + 1
                                      ELSE exported[t]]
    <2>1. exported' \in [Tasks -> Nat]
      BY DEF TypeOK
    <2> QED
      BY <2>1, <1>6, <1>7
  <1>11. Life!Export(S)
    BY <1>0, <1>8, <1>9, <1>10, MovesAreLife DEF Life!Export
  <1> QED
    BY <1>8, <1>11 DEF LifeStep, Life!Next

\* ClearCompletedTasks: results that were not exported are lost.
LEMMA ClearIsLife ==
  ASSUME IInv, TypeOK', Calm, NEW m \in Masters, ClearCompleted(m)
  PROVE  LifeStep
  <1> USE DEF group, exchange, database, messages
  <1>0. TypeOK /\ env \in [Masters -> Enviroments] /\ exported \in [Tasks -> Nat]
    BY DEF IInv, TypeOK
  <1>1. UNCHANGED <<store, exported, elections, elected, failures>>
        /\ pc[m] = "clear"
    BY DEF ClearCompleted, Goto
  <1>a. \A t \in Tasks : ~Adding(m, t) /\ ~Adding(m, t)'
    BY <1>0 DEF ClearCompleted, Goto, Adding, TypeOK
  <1>2. m = elected
    BY <1>1, ParameterAssumption DEF IInv, SinglePrimary, Calm
  <1>3. /\ env'[m].tasks = env[m].tasks
        /\ \A t \in Tasks : env'[m].completed[t] = 0
    BY <1>0, ClearCompletedEffect DEF ClearCompleted
  <1>4. Calm'
    BY <1>1 DEF Calm
  <1> DEFINE S == {t \in Tasks : Place(t) = "completed"}
  <1>5. ASSUME NEW t \in Tasks
        PROVE  Waiting(t)' = Waiting(t) /\ ~Completed(t)'
    BY <1>1, <1>2, <1>3, <1>a DEF Waiting, Completed, Adding
  <1>6. \A t \in Tasks : Completed(t) => t \notin store
    BY <1>0, <1>1 DEF IInv, StoredTaskIsUntouched, Untouched, Calm, Completed
  <1>7. Moves(S, {"waiting", "completed"}, "lost")
    BY <1>1, <1>5, <1>6 DEF Moves, Place
  <1>8. Life!Lose(S)
    <2> HIDE DEF S
    <2>1. S \in SUBSET Tasks
      BY DEF S
    <2> QED
      BY <2>1, <1>0, <1>1, <1>4, <1>7, MovesAreLife DEF Life!Lose
  <1> QED
    BY <1>8 DEF LifeStep, Life!Next

\* SELECT: the tasks stay stored.
LEMMA SelectIsLife ==
  ASSUME IInv, TypeOK', Calm, Calm', NEW m \in Masters, SelectTasks(m)
  PROVE  LifeStep
  <1> USE DEF group, exchange, database, messages
  <1>0. TypeOK /\ selected \in [Masters -> SUBSET Tasks]
        /\ pc \in [Masters -> Steps] /\ failures \in Nat
    BY DEF IInv, TypeOK
  <1>1. /\ UNCHANGED <<env, store, exported, elections, elected>>
        /\ pc[m] = "import" /\ pc'[m] \in {"mark", "check_primary"}
        /\ \A n \in Masters : n # m => pc'[n] = pc[n]
    BY <1>0 DEF SelectTasks, Goto
  <1>2. UNCHANGED failures
    BY <1>0 DEF SelectTasks, DbFails, Calm
  <1>3. \A n \in Masters : n # m => selected'[n] = selected[n]
    BY <1>0 DEF SelectTasks
  <1>4. \A n \in Masters, t \in Tasks : Adding(n, t)' <=> Adding(n, t)
    BY <1>1, <1>3 DEF Adding
  <1> QED
    BY <1>0, <1>1, <1>2, <1>4, SamePlaces

\* UPDATE: the stored tasks that are marked wait at the elected master.
LEMMA MarkIsLife ==
  ASSUME IInv, TypeOK', Calm, Calm', NEW m \in Masters, MarkTasks(m)
  PROVE  LifeStep
  <1> USE DEF group, exchange, database, messages
  <1>0. TypeOK /\ pc \in [Masters -> Steps] /\ failures \in Nat
        /\ selected[m] \in SUBSET Tasks /\ elections \in Nat
    BY DEF IInv, TypeOK
  <1>1. /\ UNCHANGED <<env, exported, elections, elected, selected>>
        /\ pc[m] = "mark" /\ pc'[m] = "add"
    BY <1>0 DEF MarkTasks, Goto
  <1>2. m = elected
    BY <1>1, ParameterAssumption DEF IInv, SinglePrimary, Calm
  <1>3. store' = store \ selected[m]
    BY <1>0 DEF MarkTasks, DbFails, Calm
  <1> DEFINE S == selected[m]
  <1>4. S \subseteq store
    BY <1>0, <1>1 DEF IInv, ImportsApart, Calm
  <1>5. ASSUME NEW t \in Tasks
        PROVE  /\ Waiting(t)' <=> Waiting(t) \/ t \in S
               /\ Completed(t)' <=> Completed(t)
               /\ t \in store' <=> t \in store /\ t \notin S
    BY <1>1, <1>2, <1>3 DEF Waiting, Completed
  <1>6. ASSUME NEW t \in S
        PROVE  ~Waiting(t) /\ exported[t] = 0 /\ ~Completed(t) /\ t \in store
    <2>1. t \in store /\ Untouched(t)
      BY <1>4 DEF IInv, StoredTaskIsUntouched, Calm
    <2>2. ~Waiting(t)
      BY <2>1, <1>1, <1>2 DEF Untouched, Waiting
    <2>3. ~Completed(t)
      BY <2>1 DEF Untouched, Completed
    <2> QED
      BY <2>1, <2>2, <2>3 DEF Untouched
  <1>7. Moves(S, {"stored"}, "waiting")
    BY <1>0, <1>1, <1>5, <1>6 DEF Moves, Place
  <1>8. Life!Import(S)
    BY <1>7, <1>0, <1>1, MovesAreLife DEF Life!Import
  <1> QED
    BY <1>0, <1>8 DEF LifeStep, Life!Next

\* AddTask: the task waits already.
LEMMA AddIsLife ==
  ASSUME IInv, TypeOK', Calm, NEW m \in Masters, AddSelected(m)
  PROVE  LifeStep
  <1> USE DEF group, exchange, database, messages
  <1>0. /\ TypeOK /\ pc \in [Masters -> Steps] /\ env[m] \in Enviroments
        /\ env \in [Masters -> Enviroments]
        /\ selected \in [Masters -> SUBSET Tasks]
    BY DEF IInv, TypeOK
  <1>1. UNCHANGED <<store, exported, failures, elections, elected>>
        /\ pc[m] = "add"
    BY DEF AddSelected, Goto
  <1>2. m = elected /\ Calm'
    BY <1>1, ParameterAssumption DEF IInv, SinglePrimary, Calm
  <1>3. CASE UNCHANGED env
    <2>1. /\ selected[m] = {} /\ UNCHANGED selected
          \/ \E t \in selected[m] : /\ env' = [env EXCEPT ![m] = AddTasks(@, {t})]
                                    /\ pc' = [pc EXCEPT ![m] = "add"]
                                    /\ selected' = [selected EXCEPT ![m] = @ \ {t}]
      BY DEF AddSelected, Goto
    <2>2. ASSUME NEW t \in selected[m], env' = [env EXCEPT ![m] = AddTasks(@, {t})]
          PROVE  FALSE
      <3>1. t \in Tasks
        BY <1>0
      <3>2. Untouched(t)
        BY <3>1, <1>1, AddingIsApart DEF Adding
      <3>3. t \in AddTasks(env[m], {t}).tasks
        BY <3>1, <1>0, AddTasksEffect
      <3> QED
        BY <2>2, <3>2, <3>3, <1>0, <1>3 DEF Untouched
    <2>3. \A t \in Tasks : Adding(m, t)' <=> Adding(m, t)
      BY <2>1, <2>2 DEF Adding
    <2> QED
      BY <2>3, <1>0, <1>1, <1>2, <1>3, SamePlaces
  <1>4. CASE ~UNCHANGED env
    <2>1. PICK u \in selected[m] :
            /\ env' = [env EXCEPT ![m] = AddTasks(@, {u})]
            /\ pc' = [pc EXCEPT ![m] = "add"]
            /\ selected' = [selected EXCEPT ![m] = @ \ {u}]
      BY <1>4 DEF AddSelected, Goto
    <2>2. u \in Tasks
      BY <1>0
    <2>3. /\ AddTasks(env[m], {u}).tasks = env[m].tasks \cup {u}
          /\ AddTasks(env[m], {u}).completed = env[m].completed
      BY <2>2, <1>0, AddTasksEffect
    <2>4. /\ env'[m] = AddTasks(env[m], {u}) /\ selected'[m] = selected[m] \ {u}
          /\ pc'[m] = "add"
      BY <2>1, <1>0
    <2>5. ASSUME NEW t \in Tasks
          PROVE  Waiting(t)' = Waiting(t) /\ Completed(t)' = Completed(t)
      BY <2>1, <2>3, <2>4, <1>1, <1>2 DEF Waiting, Completed
    <2>6. \A t \in Tasks : Place(t)' = Place(t)
      BY <2>5, <1>1 DEF Place
    <2> QED
      BY <2>6, <1>0, <1>1, <1>2, PlacesKept DEF LifeStep
  <1> QED
    BY <1>3, <1>4

\* Crash: what the elected master held is lost with it.
LEMMA CrashIsLife ==
  ASSUME IInv, TypeOK', Calm, NEW m \in Masters, Crash(m)
  PROVE  LifeStep
  <1> USE DEF group, exchange, database, messages
  <1>0. TypeOK /\ env \in [Masters -> Enviroments] /\ exported \in [Tasks -> Nat]
    BY DEF IInv, TypeOK
  <1>1. UNCHANGED <<store, exported, elections, elected, failures>>
    BY DEF Crash
  <1>2. /\ env'[m].tasks = {} /\ \A t \in Tasks : env'[m].completed[t] = 0
        /\ \A n \in Masters : n # m => env'[n] = env[n]
    BY <1>0 DEF Crash, EmptyEnviroment, NoResult
  <1>a. \A n \in Masters, t \in Tasks :
          Adding(n, t)' <=> (n # m /\ Adding(n, t))
    BY <1>0 DEF Crash, Adding, TypeOK
  <1>3. Calm'
    BY <1>1 DEF Calm
  <1>4. CASE m # elected
    BY <1>0, <1>1, <1>2, <1>4, <1>a, SamePlaces
  <1>5. CASE m = elected
    <2> DEFINE S == {t \in Tasks : Place(t) \in {"waiting", "completed"}}
    <2>1. ASSUME NEW t \in Tasks
          PROVE  ~Waiting(t)' /\ ~Completed(t)'
      BY <1>1, <1>2, <1>5, <1>a DEF Waiting, Completed, Adding
    <2>2. ASSUME NEW t \in Tasks, Completed(t)
          PROVE  t \notin store
      BY <2>2, <1>0 DEF IInv, StoredTaskIsUntouched, Untouched, Calm, Completed
    <2>3. ASSUME NEW t \in Tasks, Waiting(t)
          PROVE  exported[t] = 0 /\ t \notin store
      BY <2>3, WaitingIsApart
    <2>4. Moves(S, {"waiting", "completed"}, "lost")
      BY <1>1, <2>1, <2>2, <2>3 DEF Moves, Place
    <2>5. Life!Lose(S)
      <3> HIDE DEF S
      <3>1. S \in SUBSET Tasks
        BY DEF S
      <3> QED
        BY <3>1, <2>4, <1>0, <1>1, <1>3, MovesAreLife DEF Life!Lose
    <2> QED
      BY <2>5 DEF LifeStep, Life!Next
  <1> QED
    BY <1>4, <1>5

\* The first election finds every task stored, whoever wins it.
LEMMA ElectIsLife ==
  ASSUME IInv, IInv', NothingImported, Calm, Calm', NEW m \in Masters, Elect(m)
  PROVE  LifeStep
  <1> USE DEF group, exchange, database, messages
  <1>0. TypeOK /\ TypeOK' /\ elections \in Nat
    BY DEF IInv, TypeOK
  <1>1. elections = 0 /\ UNCHANGED <<store, exported, env, pc, selected, failures>>
    BY <1>0 DEF Elect, Calm
  <1>2. store = Tasks
    BY <1>1 DEF NothingImported, Calm
  <1>3. ASSUME NEW t \in Tasks
        PROVE  Place(t) = "stored" /\ Place(t)' = "stored"
    <2>1. /\ exported[t] = 0
          /\ \A n \in Masters : /\ t \notin env[n].tasks /\ env[n].completed[t] = 0
                               /\ ~Adding(n, t)
      BY <1>2 DEF IInv, StoredTaskIsUntouched, Untouched, Calm, Adding
    <2>2. /\ ~Waiting(t) /\ ~Waiting(t)'
          /\ ~Completed(t) /\ ~Completed(t)'
      BY <2>1, <1>1 DEF Waiting, Completed, Adding
    <2> QED
      BY <1>1, <1>2, <2>1, <2>2 DEF Place
  <1>4. \A t \in Tasks : Place(t)' = Place(t)
    BY <1>3
  <1> QED
    BY <1>0, <1>1, <1>4, PlacesKept DEF LifeStep

-----------------------------------------------------------------------------
(* The refinement *)

\* A second election or a failed statement ends what TaskLife promises.
LEMMA GiveUpIsLife ==
  ASSUME TypeOK', ~Calm'
  PROVE  LifeStep
  <1>1. \A t \in Tasks : StateOf(t)' = "unknown"
    BY DEF TypeOK, Calm, StateOf
  <1>2. exported' \in [Tasks -> Nat]
    BY DEF TypeOK
  <1> QED
    BY <1>1, <1>2 DEF LifeStep, Life!Next, Life!GiveUp

\* Elections and failed statements are never forgotten.
LEMMA CalmBefore ==
  ASSUME TypeOK, Next, Calm'
  PROVE  Calm
  <1> USE DEF group, exchange, database, messages
  <1>0. elections \in Nat /\ failures \in Nat
    BY DEF TypeOK
  <1> SUFFICES /\ elections' \in {elections, elections + 1}
               /\ failures' \in {failures, failures + 1}
    BY <1>0 DEF Calm
  <1>1. ASSUME NEW m \in Masters, TaskExchangeThread(m)
        PROVE  /\ UNCHANGED elections
               /\ failures' \in {failures, failures + 1}
    <2>1. CASE ExportTaskUDF(m)
      BY <2>1 DEF ExportTaskUDF, DbFails
    <2>2. CASE SelectTasks(m) \/ MarkTasks(m)
      BY <2>2 DEF SelectTasks, MarkTasks, DbFails
    <2> QED
      BY <1>1, <2>1, <2>2 DEF TaskExchangeThread, CheckPrimary, WaitPrimary,
           CheckIdle, WaitIdle, CopyCompleted, ClearCompleted, AddSelected
  <1>2. ASSUME NEW m, NEW q, WorkerRequestTask(m, q)
        PROVE  UNCHANGED <<elections, failures>>
    BY <1>2 DEF WorkerRequestTask
  <1>3. ASSUME NEW m \in Masters,
               \/ RequestTaskDuplicate(m)
               \/ \E t \in Tasks : Expire(m, t)
               \/ LearnPrimary(m) \/ UpgradeTracker(m) \/ LearnOwnElection(m)
               \/ PrimaryOffline(m) \/ Crash(m) \/ Restart(m)
        PROVE  UNCHANGED <<elections, failures>>
    BY <1>3 DEF RequestTaskDuplicate, Expire, LearnPrimary, UpgradeTracker,
                LearnOwnElection, PrimaryOffline, Crash, Restart
  <1>4. ASSUME NEW d, SendTaskDuplicate(d) \/ SaveTaskDuplicate(d)
        PROVE  UNCHANGED <<elections, failures>>
    BY <1>4 DEF SendTaskDuplicate, SaveTaskDuplicate
  <1>5. ASSUME NEW m \in Masters, Elect(m)
        PROVE  elections' = elections + 1 /\ UNCHANGED failures
    BY <1>5 DEF Elect
  <1> QED
    BY <1>1, <1>2, <1>3, <1>4, <1>5 DEF Next, ReceiveFromWorker, ReceiveForward

\* Every step of a master implements a step of TaskLife, or none.
LEMMA NextIsLife ==
  ASSUME IInv, IInv', NothingImported, Next
  PROVE  LifeStep
  <1> USE ParameterAssumption
  <1> USE DEF group, exchange, database, messages
  <1>0. TypeOK /\ TypeOK'
    BY DEF IInv
  <1> SUFFICES ASSUME Calm'
               PROVE  LifeStep
    BY <1>0, GiveUpIsLife
  <1>c. Calm
    BY <1>0, CalmBefore
  <1>p. pc \in [Masters -> Steps]
    BY <1>0 DEF TypeOK
  <1>a. ASSUME UNCHANGED selected,
               \A n \in Masters : pc'[n] = pc[n] \/ (pc[n] # "add" /\ pc'[n] # "add")
        PROVE  \A n \in Masters, t \in Tasks : Adding(n, t)' <=> Adding(n, t)
    BY <1>a DEF Adding
  <1>1. ASSUME UNCHANGED <<store, exported, elections, elected, failures, env>>,
               UNCHANGED selected,
               \A n \in Masters : pc'[n] = pc[n] \/ (pc[n] # "add" /\ pc'[n] # "add")
        PROVE  LifeStep
    <2>1. \A n \in Masters, t \in Tasks : Adding(n, t)' <=> Adding(n, t)
      BY <1>1, <1>a
    <2> QED
      BY <2>1, <1>0, <1>c, <1>1, SamePlaces
  <1>2. ASSUME NEW m \in Masters, NEW A \in SUBSET Tasks, Collects(m, A),
               UNCHANGED <<store, exported, elections, elected, failures>>,
               UNCHANGED selected,
               \A n \in Masters : pc'[n] = pc[n] \/ (pc[n] # "add" /\ pc'[n] # "add")
        PROVE  LifeStep
    <2>1. \A n \in Masters, t \in Tasks : Adding(n, t)' <=> Adding(n, t)
      BY <1>2, <1>a
    <2> QED
      BY <2>1, <1>0, <1>c, <1>2, CollectIsLife
  <1>3. ASSUME NEW m \in Masters, TaskExchangeThread(m)
        PROVE  LifeStep
    <2>1. CASE \/ CheckPrimary(m) \/ WaitPrimary(m) \/ CheckIdle(m)
               \/ WaitIdle(m) \/ CopyCompleted(m)
      <3>1. UNCHANGED <<store, exported, elections, elected, failures, env, selected>>
        BY <2>1 DEF CheckPrimary, WaitPrimary, CheckIdle, WaitIdle, CopyCompleted
      <3>2. \A n \in Masters : pc'[n] = pc[n] \/ (pc[n] # "add" /\ pc'[n] # "add")
        BY <2>1, <1>p DEF CheckPrimary, WaitPrimary, CheckIdle, WaitIdle,
                          CopyCompleted, Goto
      <3> QED
        BY <3>1, <3>2, <1>1
    <2> QED
      BY <1>0, <1>c, <1>3, <2>1, ExportIsLife, ClearIsLife, SelectIsLife,
         MarkIsLife, AddIsLife DEF TaskExchangeThread
  <1>4. ASSUME NEW m \in Masters, NEW q \in Requests, q.to = m,
               WorkerRequestTask(m, q)
        PROVE  LifeStep
    <2>1. PICK A \in SUBSET Tasks : Collects(m, A)
      BY <1>0, <1>4, WorkerRequestCollects
    <2>2. /\ UNCHANGED <<store, exported, elections, elected, failures, selected>>
          /\ \A n \in Masters : pc'[n] = pc[n] \/ (pc[n] # "add" /\ pc'[n] # "add")
      BY <1>p, <1>4 DEF WorkerRequestTask, TaskExchangeSignal
    <2> QED
      BY <2>1, <2>2, <1>2
  <1>5. ASSUME NEW m \in Masters, NEW R \in SUBSET issued,
               ReceiveFromWorker(m, R)
        PROVE  LifeStep
    BY <1>0, <1>4, <1>5, RequestOfType DEF ReceiveFromWorker
  <1>6. ASSUME NEW q \in forwards, ReceiveForward(q)
        PROVE  LifeStep
    <2>1. q \in Requests /\ q.to \in Masters
      BY <1>0 DEF TypeOK, Requests
    <2> QED
      BY <2>1, <1>4, <1>6 DEF ReceiveForward
  <1>7. ASSUME NEW m \in Masters,
               \/ RequestTaskDuplicate(m) \/ LearnOwnElection(m)
               \/ PrimaryOffline(m) \/ Restart(m)
        PROVE  LifeStep
    BY <1>1, <1>7 DEF RequestTaskDuplicate, LearnOwnElection, PrimaryOffline,
                      Restart
  <1>8. ASSUME NEW d \in duplicates, SendTaskDuplicate(d)
        PROVE  LifeStep
    <2>1. d.to \in Masters
      BY <1>0 DEF TypeOK, Duplicates
    <2>2. UNCHANGED <<store, exported, elections, elected, failures, selected, pc>>
      BY <1>8 DEF SendTaskDuplicate
    <2>3. Collects(d.to, {})
      BY <1>0, <1>8, SendDuplicateCollects
    <2> QED
      BY <2>1, <2>2, <2>3, <1>2
  <1>9. ASSUME NEW d \in duplicates, SaveTaskDuplicate(d)
        PROVE  LifeStep
    <2>1. CASE d.tasks = {}
      BY <2>1, <1>1, <1>9 DEF SaveTaskDuplicate
    <2>2. CASE d.tasks # {}
      <3>1. d.to # elected
        BY <2>2, <1>c DEF IInv, SinglePrimary, Calm
      <3>2. \A n \in Masters : n = elected => env'[n] = env[n]
        BY <2>2, <3>1, <1>0, <1>9 DEF SaveTaskDuplicate, TypeOK
      <3>3. UNCHANGED <<store, exported, elections, elected, failures, selected, pc>>
        BY <1>9 DEF SaveTaskDuplicate
      <3>4. \A n \in Masters, t \in Tasks : Adding(n, t)' <=> Adding(n, t)
        BY <3>3, <1>a
      <3> QED
        BY <3>2, <3>3, <3>4, <1>0, <1>c, SamePlaces
    <2> QED
      BY <2>1, <2>2
  <1>10. ASSUME NEW m \in Masters, NEW t \in Tasks, Expire(m, t)
         PROVE  LifeStep
    BY <1>0, <1>2, <1>10, ExpireCollects DEF Expire
  <1>11. ASSUME NEW m \in Masters, LearnPrimary(m) \/ UpgradeTracker(m)
         PROVE  LifeStep
    <2>1. /\ UNCHANGED <<store, exported, elections, elected, failures, selected>>
          /\ \A n \in Masters : pc'[n] = pc[n] \/ (pc[n] # "add" /\ pc'[n] # "add")
      BY <1>p, <1>11 DEF LearnPrimary, UpgradeTracker, MasterSignal
    <2> QED
      BY <2>1, <1>0, <1>2, <1>11, ClockCollects
  <1>12. ASSUME NEW m \in Masters, Elect(m)
         PROVE  LifeStep
    BY <1>c, <1>12, ElectIsLife
  <1>13. ASSUME NEW m \in Masters, Crash(m)
         PROVE  LifeStep
    BY <1>0, <1>c, <1>13, CrashIsLife
  <1> QED
    BY <1>3, <1>5, <1>6, <1>7, <1>8, <1>9, <1>10, <1>11, <1>12, <1>13 DEF Next

\* The group implements TaskLife: with one announced election and a working
\* database every task is imported once at most, its result is counted in
\* dict_word once at most and after a worker brought it, and what is lost
\* with a crash or a clearing never comes back; for any number of masters,
\* tasks and crashes, with TaskExchangeThread, SocketThread and the messages
\* between the masters in any order.
THEOREM GroupImplementsTaskLife == Spec => LifeSpec
  <1>1. Init => Life!Init
    <2> SUFFICES ASSUME Init PROVE Life!Init
      OBVIOUS
    <2>1. elections = 0 /\ failures = 0 /\ store = Tasks /\ exported = NoResult
          /\ elected = None
      BY DEF Init
    <2>2. \A t \in Tasks : ~Waiting(t) /\ ~Completed(t)
      BY <2>1, ParameterAssumption DEF Waiting, Completed
    <2>3. \A t \in Tasks : exported[t] = 0
      BY <2>1 DEF NoResult
    <2>4. \A t \in Tasks : StateOf(t) = "stored"
      BY <2>1, <2>2, <2>3 DEF StateOf
    <2> QED
      BY <2>1, <2>4 DEF Life!Init, NoResult
  <1>2. IInv /\ IInv' /\ NothingImported /\ [Next]_vars
          => [Life!Next]_Life!vars
    <2> SUFFICES ASSUME IInv, IInv', NothingImported, [Next]_vars
                 PROVE  LifeStep
      BY DEF LifeStep
    <2>1. CASE UNCHANGED vars
      <3>1. \A t \in Tasks : StateOf(t)' = StateOf(t)
        BY <2>1 DEF vars, StateOf, Waiting, Completed
      <3> QED
        BY <2>1, <3>1 DEF vars, LifeStep, Life!vars
    <2> QED
      BY <2>1, NextIsLife
  <1> QED
    BY <1>1, <1>2, ExchangeInvariant, NothingBeforeElection, PTL
       DEF Spec, LifeSpec, Life!Spec
=============================================================================
