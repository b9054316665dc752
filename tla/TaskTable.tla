------------------------------ MODULE TaskTable ------------------------------
(***************************************************************************)
(* The task table of TaskManager (crates/agent/src/task_manager.rs): the   *)
(* map `tasks` under its tokio mutex, reduced to each task's status.       *)
(* "absent" is a key that is not in the map.  Every method takes the lock  *)
(* once, so each is a function from one table to the next; abort tokens,   *)
(* message queues, workspace scopes and task files belong to the modules   *)
(* that need them.                                                         *)
(***************************************************************************)
CONSTANT Tasks         \* task ids, each a fresh uuid

Terminal == {"Completed", "Failed", "Cancelled"}
TaskStatus == {"absent", "Running"} \cup Terminal
Tables == [Tasks -> TaskStatus]

is_terminal_status(s) == s \in Terminal

NoRecords == [t \in Tasks |-> "absent"]

\* Mutant of create_and_start_task: created, as create_task does, but not started.
create_only(table, t) == [table EXCEPT ![t] = "Queued"]

create_and_start_task(table, t) == [table EXCEPT ![t] = "Running"]

\* The guard the methods below share: an unknown or terminal task stays as it is.
Finish(table, t, s) == [table EXCEPT ![t] = IF @ = "Running" THEN s ELSE @]

set_completed(table, t) == Finish(table, t, "Completed")
set_failed(table, t)    == Finish(table, t, "Failed")
set_cancelled(table, t) == Finish(table, t, "Cancelled")

remove_task(table, t) == [table EXCEPT ![t] = "absent"]

\* Completed, failed and cancelled tasks older than the given age.
Finished(table) == {t \in Tasks : is_terminal_status(table[t])}

cleanup_old_tasks(table, old) ==
    [t \in Tasks |-> IF t \in old \cap Finished(table) THEN "absent" ELSE table[t]]
=============================================================================
