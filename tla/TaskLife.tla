------------------------------ MODULE TaskLife ------------------------------
(***************************************************************************)
(* What a group of masters promises about each task of the database, as    *)
(* long as one election result was announced and no statement fails: the   *)
(* task is imported at most once, its result is added to dict_word at most *)
(* once and only after a worker brought it.  A task whose master ended, or *)
(* whose result came while the results before it were being exported, can  *)
(* be lost; then it is not worked on again.                                *)
(***************************************************************************)
EXTENDS Naturals

CONSTANT Tasks

VARIABLES
  life,      \* per task: "stored", "waiting", "completed", "exported", "lost",
             \* or "unknown"
  exported   \* per task: how often its result was added to dict_word

vars == <<life, exported>>

Init ==
  /\ life = [t \in Tasks |-> "stored"]
  /\ exported = [t \in Tasks |-> 0]

Move(S, from, to) ==
  /\ \A t \in S : life[t] \in from
  /\ life' = [t \in Tasks |-> IF t \in S THEN to ELSE life[t]]

\* The primary takes tasks from the database.
Import(S) == Move(S, {"stored"}, "waiting") /\ UNCHANGED exported

\* A worker's results are accepted.
Complete(S) == Move(S, {"waiting"}, "completed") /\ UNCHANGED exported

\* Results are added to dict_word.
Export(S) ==
  /\ Move(S, {"completed"}, "exported")
  /\ exported' = [t \in Tasks |-> IF t \in S THEN exported[t] + 1 ELSE exported[t]]

\* Tasks and results are deleted or die with their process.
Lose(S) == Move(S, {"waiting", "completed"}, "lost") /\ UNCHANGED exported

\* After a failed statement or a second election nothing is promised.
GiveUp ==
  /\ life' = [t \in Tasks |-> "unknown"]
  /\ exported' \in [Tasks -> Nat]

Next ==
  \/ \E S \in SUBSET Tasks : Import(S) \/ Complete(S) \/ Export(S) \/ Lose(S)
  \/ GiveUp

Spec == Init /\ [][Next]_vars
=============================================================================
