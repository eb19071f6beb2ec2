----------------------------- MODULE Enviroment -----------------------------
(***************************************************************************)
(* The task table every FastDCS process keeps (server/enviroment.{h,cc}):  *)
(* the map tasks_ of tasks waiting for a result, each with its lease time, *)
(* and the vector completed_tasks_.  Every method holds the table's own    *)
(* mutex, so each is one atomic operator here.                             *)
(*                                                                         *)
(* A lease time is only ever compared with the clock (lease_time < now),   *)
(* so it is kept as what the comparison can tell apart: "none" (0, never   *)
(* leased), "live" (>= now) or "expired".  completed_tasks_ is a vector    *)
(* whose order nobody reads: it is the number of its entries per task.     *)
(***************************************************************************)
EXTENDS Integers, FiniteSets

CONSTANT Tasks  \* task ids; their order is the order of the map tasks_

ASSUME TasksAssumption == Tasks \subseteq Nat /\ IsFiniteSet(Tasks)

Lease == {"none", "live", "expired"}

Enviroments == [tasks     : SUBSET Tasks,
                lease     : [Tasks -> Lease],
                completed : [Tasks -> Nat]]

NoLease == [t \in Tasks |-> "none"]
NoResult == [t \in Tasks |-> 0]

EmptyEnviroment == [tasks |-> {}, lease |-> NoLease, completed |-> NoResult]

-----------------------------------------------------------------------------
(* Reading the table *)

\* Mutant of IdleTasks: a task is handed out once, never after its lease.
NeverLeased(e) == {t \in e.tasks : e.lease[t] = "none"}

\* lease_time() < FdcsTime(): free to be handed out
IdleTasks(e) == {t \in e.tasks : e.lease[t] # "live"}

IdleTasksSize(e) == Cardinality(IdleTasks(e))

\* the first n idle tasks in the order of the map
FirstIdle(e, n) ==
  {t \in IdleTasks(e) : Cardinality({u \in IdleTasks(e) : u < t}) < n}

-----------------------------------------------------------------------------
(* Changing the table *)

\* set_lease_time(FdcsTime() + LeaseTimeout()) for the tasks in L
SetLease(e, L) ==
  [e EXCEPT !.lease = [t \in Tasks |-> IF t \in L THEN "live" ELSE e.lease[t]]]

\* AddTask for each task of S: a task already in tasks_ is refused
AddTasks(e, S) ==
  [e EXCEPT !.tasks = @ \cup S,
            !.lease = [t \in Tasks |-> IF t \in S \ e.tasks THEN "none"
                                       ELSE e.lease[t]]]

\* UpdateTasks: the table is replaced, completed_tasks_ is cleared with it
UpdateTasks(e, S) == [tasks |-> S, lease |-> NoLease, completed |-> NoResult]

\* Mutant of TasksCompleted: the task stays in tasks_.
CompletedNotErased(e, A) ==
  [e EXCEPT !.completed = [t \in Tasks |-> IF t \in A THEN @[t] + 1 ELSE @[t]]]

\* TaskCompleted for each task of A, all of them in tasks_
TasksCompleted(e, A) ==
  [tasks     |-> e.tasks \ A,
   lease     |-> [t \in Tasks |-> IF t \in A THEN "none" ELSE e.lease[t]],
   completed |-> [t \in Tasks |-> IF t \in A THEN e.completed[t] + 1
                                  ELSE e.completed[t]]]

\* Mutant of ClearCompletedTasks: the results stay.
NothingCleared(e) == e

ClearCompletedTasks(e) == [e EXCEPT !.completed = NoResult]

\* The clock passes the lease time of task t.
ExpireLease(e, t) == [e EXCEPT !.lease[t] = "expired"]

\* CalcFdcsTimeDiffer or InitFdcsTimeDiffer moves this process's clock, either
\* way: of the tasks that were ever leased, those in L have a live lease now.
MoveClock(e, L) ==
  [e EXCEPT !.lease = [t \in Tasks |-> IF e.lease[t] = "none" THEN "none"
                                       ELSE IF t \in L THEN "live"
                                       ELSE "expired"]]

EverLeased(e) == {t \in Tasks : e.lease[t] # "none"}
=============================================================================
