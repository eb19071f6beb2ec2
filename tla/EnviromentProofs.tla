-------------------------- MODULE EnviromentProofs --------------------------
(***************************************************************************)
(* What each operation of the task table (server/enviroment.cc) does to    *)
(* the tasks, the leases and the results, for any table.  The proofs about *)
(* masters and workers rest on these facts.                                *)
(***************************************************************************)
EXTENDS Enviroment, TLAPS

\* The empty table of InitialTracker is a table.
LEMMA EmptyType == EmptyEnviroment \in Enviroments
  BY DEF EmptyEnviroment, Enviroments, NoLease, NoResult, Lease

\* Tasks are leased out of the table (LeaseTasks, GetIdleTask).
LEMMA FirstIdleType ==
  ASSUME NEW e \in Enviroments, NEW n \in Nat
  PROVE  FirstIdle(e, n) \subseteq e.tasks
  BY DEF FirstIdle, IdleTasks, Enviroments

\* LeaseTasks, GetIdleTask: a lease changes the leases only.
LEMMA SetLeaseEffect ==
  ASSUME NEW e \in Enviroments, NEW L
  PROVE  /\ SetLease(e, L) \in Enviroments
         /\ SetLease(e, L).tasks = e.tasks
         /\ SetLease(e, L).completed = e.completed
         /\ \A t \in Tasks : SetLease(e, L).lease[t] = IF t \in L THEN "live" ELSE e.lease[t]
  BY DEF SetLease, Enviroments, Lease

\* CalcFdcsTimeDiffer, InitFdcsTimeDiffer: a moved clock changes leases only.
LEMMA MoveClockEffect ==
  ASSUME NEW e \in Enviroments, NEW L
  PROVE  /\ MoveClock(e, L) \in Enviroments
         /\ MoveClock(e, L).tasks = e.tasks
         /\ MoveClock(e, L).completed = e.completed
  BY DEF MoveClock, Enviroments, Lease

\* A lease that runs out changes the leases only.
LEMMA ExpireLeaseEffect ==
  ASSUME NEW e \in Enviroments, NEW t \in Tasks
  PROVE  /\ ExpireLease(e, t) \in Enviroments
         /\ ExpireLease(e, t).tasks = e.tasks
         /\ ExpireLease(e, t).completed = e.completed
  BY DEF ExpireLease, Enviroments, Lease

\* TaskCompleted moves tasks of the table to the results.
LEMMA TasksCompletedEffect ==
  ASSUME NEW e \in Enviroments, NEW A \in SUBSET e.tasks
  PROVE  /\ TasksCompleted(e, A) \in Enviroments
         /\ TasksCompleted(e, A).tasks = e.tasks \ A
         /\ \A t \in Tasks :
              TasksCompleted(e, A).completed[t] =
                IF t \in A THEN e.completed[t] + 1 ELSE e.completed[t]
         /\ \A t \in Tasks :
              TasksCompleted(e, A).lease[t] = IF t \in A THEN "none" ELSE e.lease[t]
  BY DEF TasksCompleted, Enviroments, Lease

\* AddTask adds tasks and leaves the results alone.
LEMMA AddTasksEffect ==
  ASSUME NEW e \in Enviroments, NEW S \in SUBSET Tasks
  PROVE  /\ AddTasks(e, S) \in Enviroments
         /\ AddTasks(e, S).tasks = e.tasks \cup S
         /\ AddTasks(e, S).completed = e.completed
  BY DEF AddTasks, Enviroments, Lease

\* ClearCompletedTasks leaves the tasks alone.
LEMMA ClearCompletedEffect ==
  ASSUME NEW e \in Enviroments
  PROVE  /\ ClearCompletedTasks(e) \in Enviroments
         /\ ClearCompletedTasks(e).tasks = e.tasks
         /\ ClearCompletedTasks(e).lease = e.lease
         /\ \A t \in Tasks : ClearCompletedTasks(e).completed[t] = 0
  BY DEF ClearCompletedTasks, Enviroments, NoResult

\* UpdateTasks replaces the table and forgets the results.
LEMMA UpdateTasksEffect ==
  ASSUME NEW e, NEW S \in SUBSET Tasks
  PROVE  /\ UpdateTasks(e, S) \in Enviroments
         /\ UpdateTasks(e, S).tasks = S
         /\ \A t \in Tasks : UpdateTasks(e, S).lease[t] = "none"
         /\ \A t \in Tasks : UpdateTasks(e, S).completed[t] = 0
  BY DEF UpdateTasks, Enviroments, NoLease, NoResult, Lease
=============================================================================
