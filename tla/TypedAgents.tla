----------------------------- MODULE TypedAgents -----------------------------
(***************************************************************************)
(* Background agents: spawn_typed_agent (crates/agent/src/runtime/         *)
(* lightweight_handle.rs) and run_subagent_task (subagent.rs) on the task  *)
(* table, with what the table's methods do beyond the table: abort tokens, *)
(* workspace scopes and the task files of persistence.rs.                  *)
(*                                                                         *)
(* A task has a spawner (the parent turn that calls the tool), a body (the *)
(* spawned future), a guard that awaits the body, and at most one          *)
(* canceller (the /tasks command, or a subagent's own parent branch).      *)
(* Between two awaits each of them is one step.  A method that changes the *)
(* table writes the task's file after it has given the lock back; the      *)
(* write is a step of its own.                                             *)
(***************************************************************************)
EXTENDS TaskTable, Naturals

CONSTANTS
    NoTask,
    Paths,           \* workspace paths; overlapping scopes share one
    Scope,           \* the scope a coder claims; {} for other agents
    Subagents,       \* tasks run by run_subagent_task
    ParentAborts,    \* the parent turn may be dropped at an await
    MaxCrashes

ASSUME AgentAssumption ==
    /\ NoTask \notin Tasks
    /\ Scope \in [Tasks -> SUBSET Paths]
    /\ Subagents \subseteq Tasks
    /\ \A t \in Subagents : Scope[t] = {}
    /\ ParentAborts \in BOOLEAN
    /\ MaxCrashes \in Nat

VARIABLES
    tasks,       \* the task table
    locks,       \* workspace_locks: the owner of each path
    tokens,      \* tasks whose abort token is registered
    cancelled,   \* tasks whose own token was cancelled
    parentless,  \* tasks whose parent's token was cancelled
    spawner,     \* how far the spawner got
    outcome,     \* how the body's run ended
    stage,       \* what the body does next
    canceller,
    writing,     \* the statuses being written to each task file
    disk,        \* the status in each task file
    delivered,   \* what the origin conversation was told
    crashes

mem == <<locks, tokens, cancelled, parentless>>
vars == <<tasks, mem, spawner, outcome, stage, canceller, writing, disk, delivered, crashes>>

Cancelled(t) == t \in cancelled \cup parentless

Init ==
    /\ tasks = NoRecords
    /\ locks = [p \in Paths |-> NoTask]
    /\ tokens = {} /\ cancelled = {} /\ parentless = {}
    /\ spawner = [t \in Tasks |-> "idle"]
    /\ outcome = [t \in Tasks |-> "none"]
    /\ stage = [t \in Tasks |-> "none"]
    /\ canceller = [t \in Tasks |-> "idle"]
    /\ writing = [t \in Tasks |-> {}]
    /\ disk = [t \in Tasks |-> "absent"]
    /\ delivered = [t \in Tasks |-> "nothing"]
    /\ crashes = 0

-----------------------------------------------------------------------------
(* TaskManager, beyond the table *)

\* release_workspace_scope
Released(t) == [p \in Paths |-> IF locks[p] = t THEN NoTask ELSE locks[p]]

\* Mutant of Finishing: the file is not written.
Finishing_NoFile(t, status) ==
    /\ tasks' = Finish(tasks, t, status)
    /\ tokens' = tokens \ {t}
    /\ locks' = Released(t)
    /\ UNCHANGED writing

\* set_completed and set_failed: the table if the task is still Running, then the
\* token and the scope in any case, then the file if the table changed.
Finishing(t, status) ==
    /\ tasks' = Finish(tasks, t, status)
    /\ tokens' = tokens \ {t}
    /\ locks' = Released(t)
    /\ writing' = IF tasks[t] = "Running" THEN [writing EXCEPT ![t] = @ \cup {status}] ELSE writing

WriteTaskFile(t, status) ==
    /\ status \in writing[t]
    /\ writing' = [writing EXCEPT ![t] = @ \ {status}]
    /\ disk' = [disk EXCEPT ![t] = status]
    /\ UNCHANGED <<tasks, mem, spawner, outcome, stage, canceller, delivered, crashes>>

-----------------------------------------------------------------------------
(* The spawner *)

\* Mutant of AcquireScope: the conflict check is missing.
AcquireScope_Overwrites(t) ==
    /\ spawner[t] = "idle"
    /\ spawner' = [spawner EXCEPT ![t] = "claimed"]
    /\ locks' = [p \in Paths |-> IF p \in Scope[t] THEN t ELSE locks[p]]
    /\ UNCHANGED <<tasks, tokens, cancelled, parentless, outcome, stage, canceller, writing,
                   disk, delivered, crashes>>

\* try_acquire_workspace_scope: all paths or none.
AcquireScope(t) ==
    /\ spawner[t] = "idle"
    /\ IF \A p \in Scope[t] : locks[p] = NoTask
       THEN /\ spawner' = [spawner EXCEPT ![t] = "claimed"]
            /\ locks' = [p \in Paths |-> IF p \in Scope[t] THEN t ELSE locks[p]]
       ELSE /\ spawner' = [spawner EXCEPT ![t] = "refused"]
            /\ UNCHANGED locks
    /\ UNCHANGED <<tasks, tokens, cancelled, parentless, outcome, stage, canceller, writing,
                   disk, delivered, crashes>>

Create(t) ==
    /\ spawner[t] = "claimed"
    /\ spawner' = [spawner EXCEPT ![t] = "created"]
    /\ tasks' = create_and_start_task(tasks, t)
    /\ writing' = [writing EXCEPT ![t] = @ \cup {"Running"}]
    /\ UNCHANGED <<mem, outcome, stage, canceller, disk, delivered, crashes>>

RegisterToken(t) ==
    /\ spawner[t] = "created" /\ "Running" \notin writing[t]
    /\ spawner' = [spawner EXCEPT ![t] = "registered"]
    /\ tokens' = tokens \cup {t}
    /\ UNCHANGED <<tasks, locks, cancelled, parentless, outcome, stage, canceller, writing,
                   disk, delivered, crashes>>

\* The runtime of a subagent cannot be built.
ConstructFails(t) ==
    /\ t \in Subagents
    /\ spawner[t] = "created" /\ "Running" \notin writing[t]
    /\ spawner' = [spawner EXCEPT ![t] = "refused"]
    /\ Finishing(t, "Failed")
    /\ UNCHANGED <<cancelled, parentless, outcome, stage, canceller, disk, delivered, crashes>>

\* After the worktree was made, or at once.
StartBody(t) ==
    /\ spawner[t] = "registered"
    /\ spawner' = [spawner EXCEPT ![t] = "spawned"]
    /\ stage' = [stage EXCEPT ![t] = "running"]
    /\ UNCHANGED <<tasks, mem, outcome, canceller, writing, disk, delivered, crashes>>

\* The parent's task is replaced or cancelled: its token first, ...
CancelParent(t) ==
    /\ spawner[t] \notin {"idle", "refused", "lost"} /\ t \notin parentless
    /\ parentless' = parentless \cup {t}
    /\ UNCHANGED <<tasks, locks, tokens, cancelled, spawner, outcome, stage, canceller,
                   writing, disk, delivered, crashes>>

\* ... then its future, with the spawn it was in.
DropSpawner(t) ==
    /\ ParentAborts /\ t \in parentless \ Subagents
    /\ spawner[t] \in {"claimed", "created", "registered"}
    /\ spawner' = [spawner EXCEPT ![t] = "dropped"]
    /\ UNCHANGED <<tasks, mem, outcome, stage, canceller, writing, disk, delivered, crashes>>

-----------------------------------------------------------------------------
(* The body and its guard *)

EndRun(t, result, next) ==
    /\ stage[t] = "running"
    /\ outcome' = [outcome EXCEPT ![t] = result]
    /\ stage' = [stage EXCEPT ![t] = next]
    /\ UNCHANGED <<tasks, mem, spawner, canceller, writing, disk, delivered, crashes>>

\* A typed agent asks whether it was cancelled before it reports; a subagent
\* reports at once.
RunEnds(t) ==
    \E result \in {"ok", "err"} :
       EndRun(t, result, IF t \in Subagents THEN "reporting" ELSE "checking")

Panic(t) == EndRun(t, "panicked", "guarded")

\* The run sees its token cancelled; a subagent then takes its parent branch.
StopOnToken(t) ==
    /\ Cancelled(t)
    /\ EndRun(t, "stopped", IF t \in Subagents THEN "stopping" ELSE "checking")

CheckCancelled(t) ==
    /\ stage[t] = "checking"
    /\ IF tasks[t] = "Cancelled"
       THEN /\ tokens' = tokens \ {t}
            /\ stage' = [stage EXCEPT ![t] = "over"]
       ELSE /\ stage' = [stage EXCEPT ![t] = "reporting"]
            /\ UNCHANGED tokens
    /\ UNCHANGED <<tasks, locks, cancelled, parentless, spawner, outcome, canceller, writing,
                   disk, delivered, crashes>>

Report(t) ==
    /\ stage[t] = "reporting"
    /\ Finishing(t, IF outcome[t] = "ok" THEN "Completed" ELSE "Failed")
    /\ stage' = [stage EXCEPT ![t] = "delivering"]
    /\ UNCHANGED <<cancelled, parentless, spawner, outcome, canceller, disk, delivered, crashes>>

Deliver(t) ==
    /\ stage[t] = "delivering" /\ writing[t] \cap {"Completed", "Failed"} = {}
    /\ delivered' = [delivered EXCEPT ![t] = IF outcome[t] = "ok" THEN "result" ELSE "failure"]
    /\ stage' = [stage EXCEPT ![t] = "over"]
    /\ UNCHANGED <<tasks, mem, spawner, outcome, canceller, writing, disk, crashes>>

\* Mutants of Guard: the panic is only logged; the scope is kept.
Guard_LogsOnly(t) ==
    /\ stage[t] = "guarded"
    /\ stage' = [stage EXCEPT ![t] = "over"]
    /\ UNCHANGED <<tasks, mem, writing, spawner, outcome, canceller, disk, delivered, crashes>>

Guard_KeepsScope(t) ==
    /\ stage[t] = "guarded"
    /\ tasks' = Finish(tasks, t, "Failed")
    /\ tokens' = tokens \ {t}
    /\ writing' = IF tasks[t] = "Running" THEN [writing EXCEPT ![t] = @ \cup {"Failed"}] ELSE writing
    /\ stage' = [stage EXCEPT ![t] = "over"]
    /\ UNCHANGED <<locks, cancelled, parentless, spawner, outcome, canceller, disk, delivered,
                   crashes>>

Guard(t) ==
    /\ stage[t] = "guarded"
    /\ Finishing(t, "Failed")
    /\ stage' = [stage EXCEPT ![t] = "over"]
    /\ UNCHANGED <<cancelled, parentless, spawner, outcome, canceller, disk, delivered, crashes>>

-----------------------------------------------------------------------------
(* set_cancelled, by /tasks cancel or by a subagent's parent branch *)

Mark(t) ==
    /\ tasks' = set_cancelled(tasks, t)
    /\ canceller' = [canceller EXCEPT ![t] = "marked"]

SlashCancel(t) ==
    /\ tasks[t] = "Running" /\ canceller[t] = "idle"
    /\ Mark(t)
    /\ UNCHANGED <<mem, spawner, outcome, stage, writing, disk, delivered, crashes>>

\* Mutant of SubagentStops: the token is unregistered, the record is left.
SubagentStops_TokenOnly(t) ==
    /\ stage[t] = "stopping"
    /\ stage' = [stage EXCEPT ![t] = "over"]
    /\ tokens' = tokens \ {t}
    /\ UNCHANGED <<tasks, locks, cancelled, parentless, canceller, spawner, outcome, writing,
                   disk, delivered, crashes>>

SubagentStops(t) ==
    /\ stage[t] = "stopping"
    /\ stage' = [stage EXCEPT ![t] = "over"]
    /\ IF tasks[t] = "Running" THEN Mark(t) ELSE UNCHANGED <<tasks, canceller>>
    /\ UNCHANGED <<mem, spawner, outcome, writing, disk, delivered, crashes>>

\* Mutant of CancelEffects: the token is unregistered before it is cancelled.
CancelEffects_UnregisterFirst(t) ==
    /\ canceller[t] = "marked"
    /\ canceller' = [canceller EXCEPT ![t] = "done"]
    /\ tokens' = tokens \ {t}
    /\ cancelled' = cancelled \cup (tokens' \cap {t})
    /\ locks' = Released(t)
    /\ writing' = [writing EXCEPT ![t] = @ \cup {"Cancelled"}]
    /\ UNCHANGED <<tasks, parentless, spawner, outcome, stage, disk, delivered, crashes>>

\* After the lock: the token if one is registered, the scope, then the file.
CancelEffects(t) ==
    /\ canceller[t] = "marked"
    /\ canceller' = [canceller EXCEPT ![t] = "done"]
    /\ cancelled' = cancelled \cup (tokens \cap {t})
    /\ tokens' = tokens \ {t}
    /\ locks' = Released(t)
    /\ writing' = [writing EXCEPT ![t] = @ \cup {"Cancelled"}]
    /\ UNCHANGED <<tasks, parentless, spawner, outcome, stage, disk, delivered, crashes>>

-----------------------------------------------------------------------------
(* Cleanup, crash and restart *)

\* /tasks delete and /tasks clear: remove_task.
DeleteTask(t) ==
    /\ is_terminal_status(tasks[t])
    /\ tasks' = remove_task(tasks, t)
    /\ cancelled' = cancelled \cup (tokens \cap {t})
    /\ tokens' = tokens \ {t}
    /\ locks' = Released(t)
    /\ disk' = [disk EXCEPT ![t] = "absent"]
    /\ UNCHANGED <<parentless, spawner, outcome, stage, canceller, writing, delivered, crashes>>

\* Five minutes later the steps around a terminal status are over.
CleanupOld(t) ==
    /\ is_terminal_status(tasks[t])
    /\ canceller[t] # "marked" /\ writing[t] = {}
    /\ tasks' = cleanup_old_tasks(tasks, {t})
    /\ tokens' = tokens \ {t}
    /\ disk' = [disk EXCEPT ![t] = "absent"]
    /\ UNCHANGED <<locks, cancelled, parentless, spawner, outcome, stage, canceller, writing,
                   delivered, crashes>>

\* The process dies and the next one runs restore_from_disk.
CrashAndRestore ==
    /\ crashes < MaxCrashes
    /\ crashes' = crashes + 1
    /\ tasks' = [t \in Tasks |-> IF disk[t] \in Terminal \cup {"absent"} THEN "absent" ELSE "Failed"]
    /\ disk' = tasks'
    /\ locks' = [p \in Paths |-> NoTask]
    /\ tokens' = {} /\ cancelled' = {} /\ parentless' = {}
    /\ writing' = [t \in Tasks |-> {}]
    /\ spawner' = [t \in Tasks |-> IF spawner[t] = "idle" THEN "idle" ELSE "lost"]
    /\ stage' = [t \in Tasks |-> IF stage[t] = "none" THEN "none" ELSE "over"]
    /\ canceller' = [t \in Tasks |-> IF spawner[t] = "idle" THEN "idle" ELSE "lost"]
    /\ UNCHANGED <<outcome, delivered>>

-----------------------------------------------------------------------------
Spawner(t) == AcquireScope(t) \/ Create(t) \/ RegisterToken(t) \/ ConstructFails(t) \/ StartBody(t)

Body(t) == CheckCancelled(t) \/ Report(t) \/ Deliver(t) \/ Guard(t) \/ SubagentStops(t)

Next ==
    \/ \E t \in Tasks :
         \/ Spawner(t) \/ CancelParent(t) \/ DropSpawner(t)
         \/ RunEnds(t) \/ Panic(t) \/ StopOnToken(t) \/ Body(t)
         \/ SlashCancel(t) \/ CancelEffects(t)
         \/ \E s \in TaskStatus : WriteTaskFile(t, s)
         \/ DeleteTask(t) \/ CleanupOld(t)
    \/ CrashAndRestore

Spec == Init /\ [][Next]_vars

\* Futures that can go on do; a run selects on its token, so it stops when that
\* is cancelled.  Nothing makes a run end otherwise.
Fairness ==
    \A t \in Tasks :
       /\ WF_vars(Create(t)) /\ WF_vars(RegisterToken(t) \/ ConstructFails(t))
       /\ WF_vars(StartBody(t))
       /\ WF_vars(StopOnToken(t)) /\ WF_vars(Body(t)) /\ WF_vars(CancelEffects(t))
       /\ WF_vars(\E s \in TaskStatus : WriteTaskFile(t, s))

FairSpec == Spec /\ Fairness

-----------------------------------------------------------------------------
(* Properties *)

TypeOK ==
    /\ tasks \in Tables
    /\ locks \in [Paths -> Tasks \cup {NoTask}]
    /\ tokens \subseteq Tasks /\ cancelled \subseteq Tasks /\ parentless \subseteq Tasks
    /\ spawner \in [Tasks -> {"idle", "claimed", "refused", "created", "registered",
                              "spawned", "dropped", "lost"}]
    /\ outcome \in [Tasks -> {"none", "ok", "err", "stopped", "panicked"}]
    /\ stage \in [Tasks -> {"none", "running", "checking", "reporting", "delivering",
                            "guarded", "stopping", "over"}]
    /\ canceller \in [Tasks -> {"idle", "marked", "done", "lost"}]
    /\ writing \in [Tasks -> SUBSET TaskStatus]
    /\ disk \in Tables
    /\ delivered \in [Tasks -> {"nothing", "result", "failure"}]
    /\ crashes \in 0..MaxCrashes

\* Two coders that are Running never share a path: whoever is Running holds all of
\* its scope, through refusals, cancellations and panics of the others.
RunningHoldsScope ==
    \A t \in Tasks : tasks[t] = "Running" => \A p \in Scope[t] : locks[p] = t

\* A held path always has somebody who will give it back: its owner is between
\* its claim and its record, Running, or being cancelled.
ScopesComeBack ==
    \A p \in Paths : locks[p] # NoTask =>
       LET t == locks[p]
       IN  spawner[t] = "claimed" \/ tasks[t] = "Running" \/ canceller[t] = "marked"

\* The guard's comment: a task is not "stuck in Running state".  Every Running
\* record has a spawner or a body that will end it.
NoOrphanRecord ==
    \A t \in Tasks : tasks[t] = "Running" =>
       \/ spawner[t] \in {"created", "registered"}
       \/ stage[t] \notin {"none", "delivering", "over"}

\* A terminal status stays until the record is removed or the process restarts.
TerminalIsFinal ==
    [][\A t \in Tasks : tasks[t] \in Terminal =>
          tasks'[t] \in {tasks[t], "absent"} \/ crashes' # crashes]_vars

\* Without a cancellation, the file of a task that nobody is writing says what the
\* table says, so a restart restores exactly the tasks that were Running.
FileFollowsTable ==
    \A t \in Tasks :
       tasks[t] # "absent" /\ canceller[t] = "idle" /\ writing[t] = {}
          => disk[t] = tasks[t]

\* A task that is cancelled when its token is registered already stops, unless its
\* spawner or the process is gone before the body starts.
CancelStopsAgent ==
    \A t \in Tasks :
       canceller[t] = "marked" /\ t \in tokens
          ~> stage[t] = "over" \/ spawner[t] \in {"dropped", "lost"}

\* The comment in the subagent's parent branch: a parent's cancellation must end the
\* record too, and "not only unregister the token and leave a Running record".
ParentEndsSubagent ==
    \A t \in Subagents : t \in parentless ~> tasks[t] # "Running" /\ spawner[t] # "claimed"

\* set_cancelled's comment: whoever cancels, "status, AbortToken, lifecycle event
\* and persistent record stay consistent".  First the token, then the record.
CancelledTokenIsCancelled ==
    \A t \in Tasks : canceller[t] = "done" /\ t \in tokens => Cancelled(t)

CancelledFileSaysSo ==
    \A t \in Tasks :
       tasks[t] = "Cancelled" /\ canceller[t] = "done" /\ writing[t] = {}
          => disk[t] = "Cancelled"

\* ... and "cancellation by the user and chain cancellation by the parent task go
\* through the same terminal entry": an agent that stopped on its token is not
\* recorded as Failed.
ChainCancelIsCancelled ==
    \A t \in Tasks : outcome[t] = "stopped" => tasks[t] # "Failed"

\* The log line of the cancelled branch: after cancellation the result delivery is
\* suppressed.
CancelledIsSilent ==
    \A t \in Tasks : tasks[t] = "Cancelled" => delivered[t] = "nothing"

-----------------------------------------------------------------------------
(* The inductive invariant of the proofs *)

\* A task that has no record yet has left no trace.
FreshTasks ==
    \A t \in Tasks : spawner[t] \in {"idle", "claimed"} =>
       tasks[t] = "absent" /\ disk[t] = "absent" /\ stage[t] = "none"
       /\ canceller[t] = "idle" /\ writing[t] = {}

ClaimsHold == \A t \in Tasks : spawner[t] = "claimed" => \A p \in Scope[t] : locks[p] = t

MarkedIsOver == \A t \in Tasks : canceller[t] = "marked" => tasks[t] # "Running"

\* The Running file is on disk before the body starts.
RunningFileFirst ==
    \A t \in Tasks : stage[t] # "none" \/ spawner[t] = "registered" => "Running" \notin writing[t]

\* What is being written of a task nobody cancels is what the table says.
WritesFollowTable ==
    \A t \in Tasks : tasks[t] # "absent" /\ canceller[t] = "idle" =>
       writing[t] \subseteq {tasks[t]}

\* All of it, and what needs a parent that sees its spawns through.
IInv ==
    /\ TypeOK
    /\ FreshTasks /\ ClaimsHold /\ MarkedIsOver
    /\ RunningHoldsScope
    /\ RunningFileFirst /\ WritesFollowTable /\ FileFollowsTable
    /\ ParentAborts \/ (ScopesComeBack /\ NoOrphanRecord)
=============================================================================
