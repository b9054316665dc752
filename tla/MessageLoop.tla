----------------------------- MODULE MessageLoop -----------------------------
(***************************************************************************)
(* The message loop of one agent runtime: crates/agent/src/runtime/        *)
(* run_loop.rs with the workers and supervisors it spawns                  *)
(* (message_task.rs), the steering channels of a running conversation      *)
(* (steering.rs) and the completion receipts of message_receipt.rs.        *)
(*                                                                         *)
(* Every message that is not steered gets a task of its own with a fresh   *)
(* id, so a task is named by the message that started it.  One iteration   *)
(* of the select! loop is one action: the loop is the only writer of its   *)
(* maps.  Workers, supervisors and slash commands run beside it.           *)
(***************************************************************************)
EXTENDS TaskTable, Naturals, Sequences, FiniteSets

CONSTANTS
    Convs,         \* active conversation keys
    NoTask,
    ConvOf,        \* the conversation of each message
    Steerable,     \* messages without media that are not commands or resumes
    WithReceipt,   \* messages that carry a receipt id (cron jobs)
    Capacity       \* of a steering channel; 16 in the code

ASSUME LoopAssumption ==
    /\ NoTask \notin Tasks
    /\ ConvOf \in [Tasks -> Convs]
    /\ Steerable \subseteq Tasks
    /\ WithReceipt \subseteq Tasks
    /\ Capacity \in Nat \ {0}

VARIABLES
    tasks,         \* the task table: the status of every task
    active,        \* active_chat_tasks
    sender,        \* active_steering_senders, by the task whose channel it feeds
    registry,      \* the shared steering registry
    handles,       \* keys of active_message_tasks
    tokens,        \* keys of active_abort_tokens
    open,          \* the loop has not left its select!
    done,          \* the unbounded task_done channel
    directives,    \* [cancel:task_id=..] messages on their way to the loop
    fate,          \* what became of a message
    mailbox,       \* the messages in a task's steering channel
    worker,        \* how far a message's worker got
    aborted,       \* tasks whose JoinHandle was aborted
    receipt        \* the receipt of a message

loopVars == <<active, sender, registry, handles, tokens, open>>
vars == <<tasks, loopVars, done, directives, fate, mailbox, worker, aborted, receipt>>

Live == {"starting", "working", "answered", "failed", "unbuilt", "completed", "reported"}
Over == {"finished", "panicked", "dropped"}
Phase == {"none", "gone"} \cup Live \cup Over

Init ==
    /\ tasks = NoRecords
    /\ active = [c \in Convs |-> NoTask]
    /\ sender = [c \in Convs |-> NoTask]
    /\ registry = [c \in Convs |-> NoTask]
    /\ handles = {} /\ tokens = {} /\ open = TRUE
    /\ done = <<>> /\ directives = {}
    /\ fate = [m \in Tasks |-> "unsent"]
    /\ mailbox = [t \in Tasks |-> {}]
    /\ worker = [t \in Tasks |-> "none"]
    /\ aborted = {}
    /\ receipt = [m \in Tasks |-> IF m \in WithReceipt THEN "open" ELSE "none"]

-----------------------------------------------------------------------------
(* Inbound messages *)

Routed(m) ==
    IF m \in Steerable /\ sender[ConvOf[m]] # NoTask
    THEN LET t == sender[ConvOf[m]]
         IN  IF worker[t] \notin Live THEN "Closed"
             ELSE IF Cardinality(mailbox[t]) = Capacity THEN "Full" ELSE "Enqueued"
    ELSE "Unrouted"

Steer(m) ==
    /\ open /\ fate[m] = "unsent"
    /\ Routed(m) = "Enqueued"
    /\ mailbox' = [mailbox EXCEPT ![sender[ConvOf[m]]] = @ \cup {m}]
    /\ fate' = [fate EXCEPT ![m] = "steered"]
    /\ UNCHANGED <<tasks, loopVars, done, directives, worker, aborted, receipt>>

RejectNewest(m) ==
    /\ open /\ fate[m] = "unsent"
    /\ Routed(m) = "Full"
    /\ fate' = [fate EXCEPT ![m] = "rejected"]
    /\ UNCHANGED <<tasks, loopVars, done, directives, mailbox, worker, aborted, receipt>>

\* A task of its own, after the conversation's previous task was aborted and
\* its record removed.
Spawn(m) ==
    LET c == ConvOf[m]
        p == active[c]
    IN
    /\ open /\ fate[m] = "unsent"
    /\ Routed(m) \in {"Closed", "Unrouted"}
    /\ LET created == create_and_start_task(tasks, m)
       IN  tasks' = IF p \in handles THEN remove_task(created, p) ELSE created
    /\ aborted' = aborted \cup ({p} \cap handles)
    /\ active' = [active EXCEPT ![c] = m]
    /\ sender' = [sender EXCEPT ![c] = m]
    /\ registry' = [registry EXCEPT ![c] = m]
    /\ handles' = (handles \ {p}) \cup {m}
    /\ tokens' = (tokens \ {p}) \cup {m}
    /\ worker' = [worker EXCEPT ![m] = "starting"]
    /\ fate' = [fate EXCEPT ![m] = "task"]
    /\ UNCHANGED <<open, done, directives, mailbox, receipt>>

\* metadata.cancel: stop what the conversation is doing.
CancelChat(c) ==
    LET t == active[c]
    IN
    /\ open /\ t # NoTask
    /\ active' = [active EXCEPT ![c] = NoTask]
    /\ sender' = [sender EXCEPT ![c] = NoTask]
    /\ registry' = [registry EXCEPT ![c] = NoTask]
    /\ handles' = handles \ {t}
    /\ tokens' = tokens \ {t}
    /\ aborted' = aborted \cup ({t} \cap handles)
    /\ tasks' = IF t \in handles THEN remove_task(tasks, t) ELSE tasks
    /\ UNCHANGED <<open, done, directives, fate, mailbox, worker, receipt>>

\* /tasks cancel, in the gateway: the table first, then a directive to the loop.
SlashCancel(t) ==
    /\ tasks[t] = "Running"
    /\ tasks' = set_cancelled(tasks, t)
    /\ directives' = directives \cup {t}
    /\ UNCHANGED <<loopVars, done, fate, mailbox, worker, aborted, receipt>>

\* Mutant of HandleDirective: the token is cancelled but the handle is kept.
HandleDirective_TokenOnly(t) ==
    LET Forget(f) == [c \in Convs |-> IF active[c] = t THEN NoTask ELSE f[c]]
    IN
    /\ open /\ t \in directives
    /\ directives' = directives \ {t}
    /\ tokens' = tokens \ {t}
    /\ active' = Forget(active) /\ sender' = Forget(sender) /\ registry' = Forget(registry)
    /\ UNCHANGED <<tasks, open, handles, aborted, done, fate, mailbox, worker, receipt>>

HandleDirective(t) ==
    LET Forget(f) == [c \in Convs |-> IF active[c] = t THEN NoTask ELSE f[c]]
    IN
    /\ open /\ t \in directives
    /\ directives' = directives \ {t}
    /\ tokens' = tokens \ {t}
    /\ handles' = handles \ {t}
    /\ aborted' = aborted \cup ({t} \cap handles)
    /\ active' = Forget(active)
    /\ sender' = Forget(sender)
    /\ registry' = Forget(registry)
    /\ UNCHANGED <<tasks, open, done, fate, mailbox, worker, receipt>>

-----------------------------------------------------------------------------
(* The other branches of the select! *)

\* Mutants of TaskDone: the identity check on the active task is missing; the
\* sender of the finished task is kept.
TaskDone_AnyTask ==
    LET t == Head(done)
        Clear(f) == [f EXCEPT ![ConvOf[t]] = NoTask]
    IN
    /\ open /\ done # <<>>
    /\ done' = Tail(done)
    /\ handles' = handles \ {t}
    /\ tokens' = tokens \ {t}
    /\ active' = Clear(active) /\ sender' = Clear(sender) /\ registry' = Clear(registry)
    /\ UNCHANGED <<tasks, open, directives, fate, mailbox, worker, aborted, receipt>>

TaskDone ==
    LET t == Head(done)
        Clear(f) == [f EXCEPT ![ConvOf[t]] = IF active[ConvOf[t]] = t THEN NoTask ELSE @]
    IN
    /\ open /\ done # <<>>
    /\ done' = Tail(done)
    /\ handles' = handles \ {t}
    /\ tokens' = tokens \ {t}
    /\ active' = Clear(active) /\ sender' = Clear(sender) /\ registry' = Clear(registry)
    /\ UNCHANGED <<tasks, open, directives, fate, mailbox, worker, aborted, receipt>>

\* The tick's cleanup_old_tasks: some of the terminal records are old by now.
CleanupOldTasks ==
    /\ open
    /\ \E old \in SUBSET Finished(tasks) \ {{}} : tasks' = cleanup_old_tasks(tasks, old)
    /\ UNCHANGED <<loopVars, done, directives, fate, mailbox, worker, aborted, receipt>>

\* Shutdown, or a closed inbound channel: abort_active_message_tasks.
Shutdown ==
    /\ open
    /\ open' = FALSE
    /\ aborted' = aborted \cup handles
    /\ tasks' = [t \in Tasks |-> IF t \in handles THEN "absent" ELSE tasks[t]]
    /\ tokens' = tokens \ handles
    /\ handles' = {}
    /\ registry' = [c \in Convs |-> IF active[c] # NoTask THEN NoTask ELSE registry[c]]
    /\ active' = [c \in Convs |-> NoTask]
    /\ sender' = [c \in Convs |-> NoTask]
    /\ UNCHANGED <<done, directives, fate, mailbox, worker, receipt>>

-----------------------------------------------------------------------------
(* The worker: run_message_task.  An aborted worker may still take any of    *)
(* these steps until it reaches an await that is not ready.                  *)

\* complete_message_receipt and cancel_message_receipt: the first one counts.
Settle(t, result) ==
    receipt' = [receipt EXCEPT ![t] = IF @ = "open" THEN result ELSE @]

\* When the worker is over, its channel closes and what is in it is lost.
Closing(t, phase) ==
    /\ worker' = [worker EXCEPT ![t] = phase]
    /\ fate' = [m \in Tasks |-> IF m \in mailbox[t] THEN "lost" ELSE fate[m]]
    /\ mailbox' = [mailbox EXCEPT ![t] = {}]

\* AgentRuntime::new; when it fails the receipt is settled before the table.
Construct(t) ==
    /\ worker[t] = "starting"
    /\ \/ /\ worker' = [worker EXCEPT ![t] = "working"]
          /\ UNCHANGED receipt
       \/ /\ worker' = [worker EXCEPT ![t] = "unbuilt"]
          /\ Settle(t, "err")
    /\ UNCHANGED <<tasks, loopVars, done, directives, fate, mailbox, aborted>>

\* Before every LLM call of the turn.
DrainSteering(t) ==
    /\ worker[t] = "working" /\ mailbox[t] # {}
    /\ fate' = [m \in Tasks |-> IF m \in mailbox[t] THEN "injected" ELSE fate[m]]
    /\ mailbox' = [mailbox EXCEPT ![t] = {}]
    /\ UNCHANGED <<tasks, loopVars, done, directives, worker, aborted, receipt>>

TurnEnds(t) ==
    /\ worker[t] = "working"
    /\ \E result \in {"answered", "failed"} : worker' = [worker EXCEPT ![t] = result]
    /\ UNCHANGED <<tasks, loopVars, done, directives, fate, mailbox, aborted, receipt>>

RecordTurn(t) ==
    /\ \/ /\ worker[t] = "answered"
          /\ tasks' = set_completed(tasks, t)
          /\ worker' = [worker EXCEPT ![t] = "completed"]
       \/ /\ worker[t] \in {"failed", "unbuilt"}
          /\ tasks' = set_failed(tasks, t)
          /\ worker' = [worker EXCEPT ![t] = "reported"]
    /\ UNCHANGED <<loopVars, done, directives, fate, mailbox, aborted, receipt>>

\* Mutant of Return: an error of the turn is reported as a success.
Return_AlwaysOk(t) ==
    /\ worker[t] \in {"completed", "reported"}
    /\ Settle(t, "ok")
    /\ Closing(t, "finished")
    /\ UNCHANGED <<tasks, loopVars, done, directives, aborted>>

\* The receipt, then the runtime and its steering channel are dropped.
Return(t) ==
    /\ worker[t] \in {"completed", "reported"}
    /\ Settle(t, IF worker[t] = "completed" THEN "ok" ELSE "err")
    /\ Closing(t, "finished")
    /\ UNCHANGED <<tasks, loopVars, done, directives, aborted>>

\* The abort takes effect at the next await.
DropWorker(t) ==
    /\ t \in aborted /\ worker[t] \in Live
    /\ Closing(t, "dropped")
    /\ UNCHANGED <<tasks, loopVars, done, directives, aborted, receipt>>

Panic(t) ==
    /\ worker[t] \in {"starting", "working"}
    /\ Closing(t, "panicked")
    /\ UNCHANGED <<tasks, loopVars, done, directives, aborted, receipt>>

\* Mutants of Supervise: it settles the receipt of a panic only; it does not
\* notify the loop of a panic.
Supervise_IgnoresAbort(t) ==
    /\ \/ worker[t] \in {"finished", "dropped"} /\ UNCHANGED <<tasks, receipt>>
       \/ worker[t] = "panicked" /\ tasks' = set_failed(tasks, t) /\ Settle(t, "err")
    /\ worker' = [worker EXCEPT ![t] = "gone"]
    /\ done' = Append(done, t)
    /\ UNCHANGED <<loopVars, directives, fate, mailbox, aborted>>

Supervise_QuietOnPanic(t) ==
    /\ \/ worker[t] = "finished" /\ UNCHANGED <<tasks, receipt>>
       \/ worker[t] = "panicked" /\ tasks' = set_failed(tasks, t) /\ Settle(t, "err")
       \/ worker[t] = "dropped" /\ Settle(t, "cancelled") /\ UNCHANGED tasks
    /\ worker' = [worker EXCEPT ![t] = "gone"]
    /\ done' = IF worker[t] = "panicked" THEN done ELSE Append(done, t)
    /\ UNCHANGED <<loopVars, directives, fate, mailbox, aborted>>

\* supervise_message_task: the worker returned, panicked or was cancelled.
Supervise(t) ==
    /\ \/ worker[t] = "finished" /\ UNCHANGED <<tasks, receipt>>
       \/ worker[t] = "panicked" /\ tasks' = set_failed(tasks, t) /\ Settle(t, "err")
       \/ worker[t] = "dropped" /\ Settle(t, "cancelled") /\ UNCHANGED tasks
    /\ worker' = [worker EXCEPT ![t] = "gone"]
    /\ done' = Append(done, t)
    /\ UNCHANGED <<loopVars, directives, fate, mailbox, aborted>>

-----------------------------------------------------------------------------
Worker(t) ==
    Construct(t) \/ DrainSteering(t) \/ TurnEnds(t) \/ RecordTurn(t) \/ Return(t)

Next ==
    \/ \E m \in Tasks : Steer(m) \/ RejectNewest(m) \/ Spawn(m)
    \/ \E c \in Convs : CancelChat(c)
    \/ \E t \in Tasks :
         \/ SlashCancel(t) \/ HandleDirective(t)
         \/ Worker(t) \/ DropWorker(t) \/ Panic(t) \/ Supervise(t)
    \/ TaskDone \/ CleanupOldTasks \/ Shutdown

Spec == Init /\ [][Next]_vars

\* The loop serves its channels, an aborted future is dropped at its next await,
\* a worker whose turn is over returns, a supervisor awaits its handle.  Nothing
\* makes a turn end: it may wait for the user's confirmation for ever.
Fairness ==
    /\ WF_vars(TaskDone)
    /\ \A t \in Tasks :
         /\ WF_vars(HandleDirective(t))
         /\ WF_vars(Construct(t)) /\ WF_vars(RecordTurn(t)) /\ WF_vars(Return(t))
         /\ WF_vars(DropWorker(t)) /\ WF_vars(Supervise(t))

FairSpec == Spec /\ Fairness

-----------------------------------------------------------------------------
(* Properties *)

TypeOK ==
    /\ tasks \in Tables
    /\ active \in [Convs -> Tasks \cup {NoTask}]
    /\ sender \in [Convs -> Tasks \cup {NoTask}]
    /\ registry \in [Convs -> Tasks \cup {NoTask}]
    /\ handles \subseteq Tasks /\ tokens \subseteq Tasks
    /\ open \in BOOLEAN
    /\ done \in Seq(Tasks) /\ directives \subseteq Tasks
    /\ fate \in [Tasks -> {"unsent", "task", "steered", "rejected", "injected", "lost"}]
    /\ mailbox \in [Tasks -> SUBSET Tasks]
    /\ worker \in [Tasks -> Phase]
    /\ aborted \subseteq Tasks
    /\ receipt \in [Tasks -> {"none", "open", "ok", "err", "cancelled"}]

\* Every worker that runs and was not told to stop is the active task of its
\* conversation and can be stopped: the loop holds its handle and its token.
\* So a conversation never has two such workers, whatever order replacements,
\* cancellations and late task_done notifications come in.
WorkersAreOwned ==
    \A t \in Tasks :
       worker[t] \in Live /\ t \notin aborted =>
          open /\ active[ConvOf[t]] = t /\ t \in handles /\ t \in tokens

\* Messages are steered only to the conversation's active task, and the gateway,
\* which routes through the shared registry, sees the same senders as the loop.
SteeringFollowsActive ==
    /\ \A c \in Convs : sender[c] \in {NoTask, active[c]}
    /\ registry = sender
    /\ \A t \in Tasks : \A m \in mailbox[t] : ConvOf[m] = ConvOf[t] /\ worker[t] \in Live

\* A worker that is gone, however it ended, left no Running record behind.
NoStuckRunning ==
    \A t \in Tasks : worker[t] = "gone" => tasks[t] # "Running"

\* Cron deletes or disables a job on an Ok receipt: no task that ended in error,
\* panicked or never ran to its end gets one.
ReceiptIsHonest ==
    \A t \in Tasks : receipt[t] = "ok" =>
       worker[t] \in {"finished", "gone"} /\ tasks[t] \notin {"Failed", "Running"}

\* What the loop knows: its active tasks are filed under their conversation, an
\* unsent message has left no trace, and task_done speaks of workers that are gone.
LoopKnowledge ==
    /\ \A c \in Convs : active[c] # NoTask => ConvOf[active[c]] = c
    /\ \A t \in Tasks : fate[t] = "unsent" =>
         worker[t] = "none" /\ tasks[t] = "absent" /\ receipt[t] # "ok"
           /\ t \notin handles \cup aborted \cup directives
    /\ \A i \in 1..Len(done) : worker[done[i]] = "gone"

\* What the table says of a worker: told to stop, or past its recording, it is
\* not Running; before its recording it has not failed; only an abort drops it.
RecordKnowledge ==
    \A t \in Tasks :
       /\ t \in aborted \cup directives => tasks[t] # "Running"
       /\ worker[t] \in {"completed", "reported", "finished", "gone"} => tasks[t] # "Running"
       /\ worker[t] \in {"starting", "working", "answered", "completed"} => tasks[t] # "Failed"
       /\ worker[t] = "dropped" => t \in aborted

\* The inductive invariant.
IInv == TypeOK /\ LoopKnowledge /\ WorkersAreOwned /\ SteeringFollowsActive
          /\ RecordKnowledge /\ NoStuckRunning /\ ReceiptIsHonest

\* The receipt of a message whose turn is over, or whose task was aborted or
\* panicked, is settled by its worker or its supervisor: cron's wait does not
\* have to time out.
TaskReceiptsSettle ==
    \A t \in Tasks :
       t \in aborted \/ worker[t] \notin {"none", "starting", "working"}
          ~> receipt[t] # "open"

\* A task cancelled through /tasks stops: its worker ends, while the loop runs.
CancelledWorkersStop ==
    \A t \in Tasks : tasks[t] = "Cancelled" ~> ~open \/ worker[t] \notin Live

\* The loop forgets every task whose worker is gone (while it runs), so that a
\* conversation is not steered into a dead task for ever.
FinishedTasksAreForgotten ==
    \A t \in Tasks :
       worker[t] = "gone"
          ~> ~open \/ (t \notin handles \cup tokens /\ active[ConvOf[t]] # t)

\* The comment in run_message_task says that completed tasks stay so that "they
\* appear in /tasks" and "the periodic cleanup loop will evict them after the
\* grace period": the next message of the conversation does not remove one.
CompletedStaysVisible ==
    [][\A m \in Tasks : Spawn(m) =>
          \A t \in Tasks : tasks[t] = "Completed" => tasks'[t] = "Completed"]_vars
=============================================================================
