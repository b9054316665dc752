----------------------------- MODULE CronService -----------------------------
(***************************************************************************)
(* CronService (crates/scheduler/src/cron_service.rs) and the cron tool    *)
(* (crates/tools/src/cron.rs), which share cron_jobs.json.                 *)
(*                                                                         *)
(* The service keeps the jobs in memory and holds operation_lock through a *)
(* whole tick, executions included; add_job, remove_job and                *)
(* update_job_enabled hold it too, so they happen between ticks.  The tool *)
(* knows only the file and may change it at any moment.  The file is       *)
(* locked while it is read, merged and replaced, so a save is one step.    *)
(* The mtime that merge_load compares is the flag `stale`.                 *)
(***************************************************************************)
EXTENDS Integers

CONSTANTS
    Jobs,            \* job ids, each a fresh uuid
    None,
    Kind,            \* "at" or "every"; a cron expression is an "every"
    At, Every,       \* the time of an At job, the period of the others
    RunImmediately, DeleteAfterRun,
    ApiJobs,         \* added through the service; the others through the tool
    MaxNow,
    MaxFaults,       \* saves that fail and reloads that cannot read
    MaxRestarts

ASSUME CronAssumption ==
    /\ Kind \in [Jobs -> {"at", "every"}]
    /\ At \in [Jobs -> Nat] /\ Every \in Nat \ {0}
    /\ RunImmediately \subseteq Jobs /\ DeleteAfterRun \subseteq Jobs /\ ApiJobs \subseteq Jobs
    /\ MaxNow \in Nat /\ MaxFaults \in Nat /\ MaxRestarts \in Nat
    /\ None \notin Int \cup Jobs

VARIABLES
    disk,      \* cron_jobs.json: the records of the jobs in it
    exists,    \* there is such a file
    jobs,      \* the service's copy
    stale,     \* the file's mtime is not last_file_mtime
    has_unsaved_changes, pending_added_ids, pending_deleted_ids,
    phase,     \* what run_tick does next
    jobs_to_run, running, delivery_results,
    now_ms,    \* the tick's time
    now,
    used,      \* history: ids given to a job, ...
    listed,    \* ... whose addition was confirmed, ...
    asked,     \* ... whose removal was asked for, ...
    removed,   \* ... and was confirmed
    acked,     \* history: At jobs that were acknowledged, or were before a crash
    lastTick,  \* history: the time of the tick that started the job last
    faults, restarts

store == <<disk, exists>>
memory == <<jobs, stale, has_unsaved_changes, pending_added_ids, pending_deleted_ids>>
tick == <<phase, jobs_to_run, running, delivery_results, now_ms>>
history == <<used, listed, asked, removed, acked, lastTick>>
vars == <<store, memory, tick, now, history, faults, restarts>>

Empty == [j \in {} |-> None]

Init ==
    /\ disk = Empty /\ exists = FALSE
    /\ jobs = Empty /\ stale = TRUE
    /\ has_unsaved_changes = FALSE /\ pending_added_ids = {} /\ pending_deleted_ids = {}
    /\ phase = "idle" /\ jobs_to_run = {} /\ running = None /\ delivery_results = Empty
    /\ now_ms = 0 /\ now = 0
    /\ used = {} /\ listed = {} /\ asked = {} /\ removed = {}
    /\ acked = [j \in Jobs |-> "no"] /\ lastTick = [j \in Jobs |-> None]
    /\ faults = 0 /\ restarts = 0

New == [enabled |-> TRUE, next |-> None, last |-> FALSE]

Without(f, ids) == [j \in DOMAIN f \ ids |-> f[j]]
With(f, j, record) == [k \in DOMAIN f \cup {j} |-> IF k = j THEN record ELSE f[k]]

-----------------------------------------------------------------------------
(* save_unlocked *)

\* Mutant of Merged: the memory replaces the file.
Merged_MemoryOnly(mem, added, deleted) == mem

\* The file's jobs in their memory version, without those deleted here; a job only
\* the memory has counts if it was added here or there was no file.
Merged(mem, added, deleted) ==
    LET new == IF exists THEN DOMAIN mem \cap added ELSE DOMAIN mem
    IN  [j \in (DOMAIN disk \cup new) \ deleted |-> IF j \in DOMAIN mem THEN mem[j] ELSE disk[j]]

\* Mutant of Saved: the added ids stay pending.
Saved_KeepsPending(mem, added, deleted) ==
    /\ disk' = Merged(mem, added, deleted)
    /\ exists' = TRUE
    /\ jobs' = disk'
    /\ stale' = FALSE
    /\ has_unsaved_changes' = FALSE
    /\ pending_added_ids' = added /\ pending_deleted_ids' = {}
    /\ UNCHANGED faults

Saved(mem, added, deleted) ==
    /\ disk' = Merged(mem, added, deleted)
    /\ exists' = TRUE
    /\ jobs' = disk'
    /\ stale' = FALSE
    /\ has_unsaved_changes' = FALSE
    /\ pending_added_ids' = {} /\ pending_deleted_ids' = {}
    /\ UNCHANGED faults

\* The lock times out, or the file cannot be read or written.
NotSaved(mem, added, deleted) ==
    /\ faults < MaxFaults /\ faults' = faults + 1
    /\ jobs' = mem
    /\ has_unsaved_changes' = TRUE
    /\ pending_added_ids' = added /\ pending_deleted_ids' = deleted
    /\ UNCHANGED <<store, stale>>

Save(mem, added, deleted, ok) ==
    IF ok THEN Saved(mem, added, deleted) ELSE NotSaved(mem, added, deleted)

-----------------------------------------------------------------------------
(* The tick *)

\* Mutants of merge_load: the records of the file replace the memory; the file is read
\* once only; overdue one-time jobs are dropped.
merge_load_Replaces == disk
merge_load_Once == IF jobs = Empty THEN disk ELSE jobs
merge_load_DropsOverdue ==
    [j \in {k \in DOMAIN disk : Kind[k] = "every" \/ At[k] > now} |-> disk[j]]

\* The file's jobs, with the execution state the memory has of them.
merge_load ==
    [j \in DOMAIN disk |->
       IF j \notin DOMAIN jobs THEN disk[j]
       ELSE [disk[j] EXCEPT !.next = IF jobs[j].next # None THEN jobs[j].next ELSE @,
                            !.last = @ \/ jobs[j].last]]

\* Mutant of HasFired: the guard against one-time jobs that fired is missing.
HasFired_Never(j, job) == FALSE

HasFired(j, job) == Kind[j] = "at" /\ job.last

\* The record after the scan of a tick: disabled, or with its first run computed.
Scanned(j, job) ==
    IF ~job.enabled THEN job
    ELSE IF HasFired(j, job) THEN [job EXCEPT !.enabled = FALSE]
    ELSE IF job.next # None THEN job
    ELSE [job EXCEPT !.next = IF Kind[j] = "at" THEN At[j] ELSE now + Every]

should_run(j, job) ==
    /\ job.enabled /\ ~HasFired(j, job)
    /\ IF job.next # None THEN job.next <= now
       ELSE IF Kind[j] = "at" THEN At[j] <= now ELSE j \in RunImmediately

\* merge_load and the scan.  A file that did not change, or cannot be read, leaves
\* the memory as it is.
BeginTick(readable) ==
    /\ phase = "idle"
    /\ readable \/ (exists /\ stale /\ faults < MaxFaults)
    /\ faults' = IF readable THEN faults ELSE faults + 1
    /\ LET loaded == IF exists /\ stale /\ readable THEN merge_load ELSE jobs
           due == {j \in DOMAIN loaded : should_run(j, loaded[j])}
       IN  /\ jobs' = [j \in DOMAIN loaded |-> Scanned(j, loaded[j])]
           /\ jobs_to_run' = due
           /\ has_unsaved_changes' = (has_unsaved_changes \/ jobs' # loaded)
           /\ phase' = IF jobs' # loaded THEN "initialised"
                       ELSE IF due # {} THEN "executing" ELSE "idle"
    /\ stale' = (stale /\ ~(exists /\ readable))
    /\ now_ms' = now
    /\ UNCHANGED <<store, pending_added_ids, pending_deleted_ids, running, delivery_results, now,
                   history, restarts>>

\* The schedule is saved before the first execution; if it cannot be, the tick ends.
SaveSchedule(ok) ==
    /\ phase = "initialised"
    /\ Save(jobs, pending_added_ids, pending_deleted_ids, ok)
    /\ jobs_to_run' = IF ok THEN jobs_to_run ELSE {}
    /\ phase' = IF ok /\ jobs_to_run # {} THEN "executing" ELSE "idle"
    /\ UNCHANGED <<running, delivery_results, now_ms, now, history, restarts>>

\* execute_job_internal sends the message and waits for its receipt, ...
Execute(j) ==
    /\ phase = "executing" /\ j \in jobs_to_run
    /\ phase' = "waiting" /\ running' = j
    /\ jobs_to_run' = jobs_to_run \ {j}
    /\ lastTick' = [lastTick EXCEPT ![j] = now_ms]
    /\ UNCHANGED <<store, memory, delivery_results, now_ms, now, used, listed, asked, removed, acked,
                   faults, restarts>>

\* ... which is Ok, an error, dropped, or late.
Answer(ok) ==
    /\ phase = "waiting"
    /\ phase' = "executing" /\ running' = None
    /\ delivery_results' = With(delivery_results, running, ok)
    /\ acked' = IF ok THEN [acked EXCEPT ![running] = "yes"] ELSE acked
    /\ UNCHANGED <<store, memory, jobs_to_run, now_ms, now, used, listed, asked, removed, lastTick,
                   faults, restarts>>

\* Mutant of AfterRun: a failed one-time job counts as fired.
AfterRun_FailureIsFinal(j, job, ok) ==
    [job EXCEPT !.last = TRUE,
                !.next = IF Kind[j] = "every" THEN now_ms + Every ELSE None,
                !.enabled = @ /\ Kind[j] = "every"]

\* A failed one-time job stays due.
AfterRun(j, job, ok) ==
    [job EXCEPT !.last = @ \/ ok,
                !.next = IF Kind[j] = "every" THEN now_ms + Every ELSE IF ok THEN None ELSE @,
                !.enabled = @ /\ (Kind[j] = "every" \/ ~ok)]

Commit ==
    /\ phase = "executing" /\ jobs_to_run = {}
    /\ LET done == {j \in DOMAIN delivery_results \cap DOMAIN jobs :
                      delivery_results[j] /\ j \in DeleteAfterRun}
           after == [j \in DOMAIN jobs |->
                       IF j \in DOMAIN delivery_results
                       THEN AfterRun(j, jobs[j], delivery_results[j]) ELSE jobs[j]]
       IN  /\ jobs' = Without(after, done)
           /\ pending_deleted_ids' = pending_deleted_ids \cup done
    /\ has_unsaved_changes' = TRUE
    /\ delivery_results' = Empty
    /\ phase' = "committed"
    /\ UNCHANGED <<store, stale, pending_added_ids, jobs_to_run, running, now_ms, now, history,
                   faults, restarts>>

SaveResults(ok) ==
    /\ phase = "committed"
    /\ Save(jobs, pending_added_ids, pending_deleted_ids, ok)
    /\ phase' = "idle"
    /\ UNCHANGED <<jobs_to_run, running, delivery_results, now_ms, now, history, restarts>>

-----------------------------------------------------------------------------
(* The service's other operations, between ticks *)

add_job(j, ok) ==
    /\ phase = "idle" /\ j \in ApiJobs \ used
    /\ Save(With(jobs, j, New), pending_added_ids \cup {j}, pending_deleted_ids \ {j}, ok)
    /\ used' = used \cup {j}
    /\ listed' = IF ok THEN listed \cup {j} ELSE listed
    /\ UNCHANGED <<tick, now, asked, removed, acked, lastTick, restarts>>

remove_job(j, ok) ==
    /\ phase = "idle" /\ j \in DOMAIN jobs
    /\ Save(Without(jobs, {j}), pending_added_ids \ {j}, pending_deleted_ids \cup {j}, ok)
    /\ asked' = asked \cup {j}
    /\ removed' = IF ok THEN removed \cup {j} ELSE removed
    /\ UNCHANGED <<tick, now, used, listed, acked, lastTick, restarts>>

update_job_enabled(j, enabled, ok) ==
    /\ phase = "idle" /\ j \in DOMAIN jobs
    /\ Save([jobs EXCEPT ![j].enabled = enabled], pending_added_ids, pending_deleted_ids, ok)
    /\ UNCHANGED <<tick, now, history, restarts>>

-----------------------------------------------------------------------------
(* The tool, at any time *)

ToolWrites(content) ==
    /\ disk' = content
    /\ exists' = TRUE /\ stale' = TRUE
    /\ UNCHANGED <<jobs, has_unsaved_changes, pending_added_ids, pending_deleted_ids, tick, now,
                   acked, lastTick, faults, restarts>>

ToolAdd(j) ==
    /\ j \notin ApiJobs \cup used
    /\ ToolWrites(With(disk, j, New))
    /\ used' = used \cup {j} /\ listed' = listed \cup {j}
    /\ UNCHANGED <<asked, removed>>

ToolRemove(j) ==
    /\ j \in DOMAIN disk
    /\ ToolWrites(Without(disk, {j}))
    /\ asked' = asked \cup {j} /\ removed' = removed \cup {j}
    /\ UNCHANGED <<used, listed>>

-----------------------------------------------------------------------------
(* Restarts *)

\* The next process loads the file, but does not note its mtime.
Reload ==
    /\ jobs' = disk' /\ stale' = TRUE
    /\ has_unsaved_changes' = FALSE /\ pending_added_ids' = {} /\ pending_deleted_ids' = {}
    /\ phase' = "idle" /\ jobs_to_run' = {} /\ running' = None /\ delivery_results' = Empty
    /\ restarts < MaxRestarts /\ restarts' = restarts + 1

Crash ==
    /\ UNCHANGED store
    /\ Reload
    /\ acked' = [j \in Jobs |-> IF acked[j] = "yes" THEN "unsure" ELSE acked[j]]
    /\ lastTick' = [j \in Jobs |-> None]
    /\ UNCHANGED <<now_ms, now, used, listed, asked, removed, faults>>

\* run_loop saves what is unsaved before it ends; if it cannot, this is a crash.
Shutdown ==
    /\ phase = "idle"
    /\ IF has_unsaved_changes
       THEN /\ disk' = Merged(jobs, pending_added_ids, pending_deleted_ids)
            /\ exists' = TRUE
       ELSE UNCHANGED store
    /\ Reload
    /\ UNCHANGED <<now_ms, now, history, faults>>

Clock ==
    /\ now < MaxNow
    /\ now' = now + 1
    /\ UNCHANGED <<store, memory, tick, history, faults, restarts>>

-----------------------------------------------------------------------------
Tick ==
    \/ BeginTick(TRUE) \/ SaveSchedule(TRUE) \/ Commit \/ SaveResults(TRUE)
    \/ \E j \in Jobs : Execute(j)
    \/ \E ok \in BOOLEAN : Answer(ok)

TickFault == BeginTick(FALSE) \/ SaveSchedule(FALSE) \/ SaveResults(FALSE)

Next ==
    \/ Tick \/ TickFault
    \/ \E j \in Jobs, ok \in BOOLEAN :
         \/ add_job(j, ok) \/ remove_job(j, ok)
         \/ \E enabled \in BOOLEAN : update_job_enabled(j, enabled, ok)
    \/ \E j \in Jobs : ToolAdd(j) \/ ToolRemove(j)
    \/ Crash \/ Shutdown \/ Clock

Spec == Init /\ [][Next]_vars

\* The interval keeps ticking, and an execution ends: the wait has a timeout.
FairSpec == Spec /\ WF_vars(Tick)

-----------------------------------------------------------------------------
(* Properties *)

JobRecord == [enabled : BOOLEAN, next : Nat \cup {None}, last : BOOLEAN]

IsStore(f) ==
    /\ DOMAIN f \subseteq Jobs
    /\ \A j \in DOMAIN f : f[j] \in JobRecord

TypeOK ==
    /\ IsStore(disk) /\ IsStore(jobs)
    /\ exists \in BOOLEAN /\ stale \in BOOLEAN /\ has_unsaved_changes \in BOOLEAN
    /\ pending_added_ids \subseteq Jobs /\ pending_deleted_ids \subseteq Jobs
    /\ phase \in {"idle", "initialised", "executing", "waiting", "committed"}
    /\ jobs_to_run \subseteq Jobs
    /\ running \in Jobs \cup {None} /\ (phase = "waiting") = (running # None)
    /\ DOMAIN delivery_results \subseteq Jobs
    /\ \A j \in DOMAIN delivery_results : delivery_results[j] \in BOOLEAN
    /\ now \in 0..MaxNow /\ now_ms \in 0..now
    /\ used \subseteq Jobs /\ listed \subseteq used /\ asked \subseteq Jobs /\ removed \subseteq asked
    /\ acked \in [Jobs -> {"no", "yes", "unsure"}]
    /\ lastTick \in [Jobs -> 0..now \cup {None}]
    /\ faults \in 0..MaxFaults /\ restarts \in 0..MaxRestarts

\* merge_load's promise, jobs do not "re-fire": a one-time job that was acknowledged is
\* not executed again in the life of the process, nor after an orderly restart,
\* whatever saves fail and whatever the tool writes meanwhile.
AtFiresOnce ==
    \A j \in Jobs \ asked :
       Kind[j] = "at" /\ running = j => acked[j] # "yes"

\* ... and a repeated job starts again a full period after the tick that started it.
EveryKeepsItsPeriod ==
    [][\A j \in Jobs \ asked : Kind[j] = "every" /\ running' = j /\ running # j /\ lastTick[j] # None
          => now_ms >= lastTick[j] + Every]_vars

\* Two writers, nothing lost: a confirmed job stays in the file until its removal is
\* asked for, or it ran and was to be deleted then.
NothingLost ==
    \A j \in listed \ asked : j \in DOMAIN disk \/ (j \in DeleteAfterRun /\ acked[j] # "no")

\* A job whose removal was confirmed does not come back, ...
RemovedStaysRemoved == removed \cap DOMAIN disk = {}

\* ... and no tick that begins after that and can read the file executes it.
RemovedIsNotDue ==
    [][phase = "idle" /\ phase' # "idle" /\ faults' = faults => jobs_to_run' \cap removed = {}]_vars

\* merge_load's promise, jobs do not "never fire": a one-time job that is due is
\* executed, unless it is removed or disabled first.
DueJobFires ==
    \A j \in Jobs :
       Kind[j] = "at" /\ j \in listed /\ At[j] <= now
          ~> running = j \/ j \in asked \/ j \notin DOMAIN disk
             \/ ~disk[j].enabled \/ (j \in DOMAIN jobs /\ ~jobs[j].enabled)

\* A one-time job is in the file, enabled, until it was acknowledged once: failures
\* and crashes leave it to be tried again.
UntilAcknowledged ==
    \A j \in listed \ asked :
       Kind[j] = "at" /\ acked[j] = "no" => j \in DOMAIN disk /\ ~disk[j].last

-----------------------------------------------------------------------------
(* The inductive invariant *)

\* Which ids the file and the memory may know.
IdsKnown ==
    /\ ~exists => DOMAIN disk = {} /\ removed = {}
    /\ DOMAIN disk \cup DOMAIN jobs \cup pending_added_ids \cup asked \subseteq used
    /\ jobs_to_run \cup ({running} \ {None}) \subseteq used
    /\ \A j \in Jobs \ used : acked[j] = "no" /\ lastTick[j] = None
    /\ pending_added_ids \cap (DOMAIN disk \cup removed) = {}
    /\ DOMAIN jobs \ asked \subseteq DOMAIN disk \cup pending_added_ids
    /\ ~stale => DOMAIN jobs \subseteq DOMAIN disk \cup pending_added_ids
    /\ pending_deleted_ids \subseteq asked \cup {j \in DeleteAfterRun : acked[j] # "no"}

\* Without unsaved changes the file has the execution state of the memory.
InStep ==
    ~has_unsaved_changes =>
        /\ pending_added_ids = {} /\ pending_deleted_ids = {}
        /\ \A j \in DOMAIN jobs \cap DOMAIN disk :
              jobs[j].next = disk[j].next /\ jobs[j].last = disk[j].last

\* A run is on record only if it was acknowledged.
RecordsAreTrue ==
    /\ \A j \in DOMAIN jobs : jobs[j].last => acked[j] # "no"
    /\ \A j \in DOMAIN disk : disk[j].last => acked[j] # "no"
    /\ \A j \in DOMAIN delivery_results : delivery_results[j] => acked[j] = "yes"

\* Its removal after a run cannot be lost with a save that fails.
Durable(j) == MaxFaults = 0 \/ j \notin DeleteAfterRun

\* What a tick has under way.
TickKnows ==
    /\ phase \notin {"executing", "waiting"} => DOMAIN delivery_results = {}
    /\ running \notin jobs_to_run \cup DOMAIN delivery_results
    /\ jobs_to_run \cap DOMAIN delivery_results = {}
    /\ \A j \in Jobs : lastTick[j] # None => lastTick[j] <= now_ms
    /\ \A j \in (DOMAIN delivery_results \cup {running}) \ {None} : lastTick[j] = now_ms
    /\ \A j \in Jobs \ asked : Durable(j) =>
          /\ j \in jobs_to_run \cup {running} \cup DOMAIN delivery_results => j \in DOMAIN jobs
          /\ j \in pending_deleted_ids => phase = "committed" /\ j \notin DOMAIN jobs

\* In this process: a one-time job was acknowledged, a repeated one started.
Ran(j) == IF Kind[j] = "at" THEN acked[j] = "yes" ELSE lastTick[j] # None

\* The record says so.
Noted(j, job) ==
    IF Kind[j] = "at" THEN job.last ELSE job.next # None /\ job.next >= lastTick[j] + Every

\* Or the tick that runs it has not come to its end.
InTick(j) ==
    /\ phase \in {"executing", "waiting"}
    /\ IF Kind[j] = "at" THEN j \in DOMAIN delivery_results /\ delivery_results[j]
       ELSE j \in DOMAIN delivery_results \cup {running}

RunsAreNoted ==
    \A j \in Jobs \ asked : Durable(j) /\ Ran(j) =>
        /\ j \in jobs_to_run => Kind[j] = "every" /\ now_ms >= lastTick[j] + Every
        /\ Kind[j] = "at" => running # j
        /\ IF j \in DOMAIN jobs THEN Noted(j, jobs[j]) \/ InTick(j)
           ELSE j \notin DOMAIN disk \/ j \in pending_deleted_ids

CronInv ==
    /\ TypeOK /\ IdsKnown /\ InStep /\ RecordsAreTrue /\ TickKnows /\ RunsAreNoted
    /\ NothingLost /\ RemovedStaysRemoved
=============================================================================
