---------------------------- MODULE SkillEvolution ----------------------------
(***************************************************************************)
(* Learning one skill: crates/skills/src/service.rs and evolution/*.rs     *)
(* driven by crates/scheduler/src/skill_evolution_worker.rs.               *)
(*                                                                         *)
(* Three kinds of state meet.  The workflow table (EvolutionStore) says    *)
(* which worker runs an evolution.  The evolution records, one JSON file   *)
(* each, say how far it is; every EvolutionService instance of every       *)
(* process reads and rewrites them.  And each instance keeps in memory     *)
(* which evolution it believes in progress, its pipeline locks and its     *)
(* error tracker.  A worker's instance is not the instance that the agent  *)
(* runtime and the gateway report errors and calls to.                     *)
(*                                                                         *)
(* The pipeline awaits only the LLM; between two awaits it is one action   *)
(* per check of run_single_evolution_inner.  Store calls do not fail here, *)
(* and the step rows, which nothing reads back, are left out.              *)
(***************************************************************************)
EXTENDS EvolutionStore, Sequences, FiniteSetsExt

CONSTANTS
    Reporters,     \* service instances that report errors and calls
    MaxEvos,       \* bound: evolutions of the skill, numbered in creation order,
                   \* with what disturbs them: workflows the user cancels or
                   \* retries, leases that run out under a live worker
    MaxRetries,    \* EvolutionServiceConfig::max_retries
    MaxLive,       \* bound: worker processes alive at a time
    Torn           \* windows left open: "deploy" lets a process die between the
                   \* version and the record, "call" lets an observation end
                   \* while a call is being counted

Evos == 1..MaxEvos

ASSUME SkillAssumption ==
    /\ Workflows \subseteq Nat \ {0}
    /\ Workers \cap Reporters = {} /\ IsFiniteSet(Workers) /\ IsFiniteSet(Reporters)
    /\ MaxEvos \in Nat \ {0} /\ MaxRetries \in Nat /\ MaxLive \in Nat \ {0}
    /\ Torn \subseteq {"deploy", "call"}

VARIABLES
    of,            \* evo_workflows.description: the evolution of a row
    rec,           \* the record files
    skill,         \* skills/<skill>: its content and version_history.json
    worker,        \* each worker's tick and the memory of its instance
    reporter,      \* each reporter's call and the memory of its instance
    cooldowns,     \* the instances whose tracker has the skill cooling down
    elapsed,       \* evolutions whose observation window is over
    disturbed      \* how often the user or a stall has disturbed an evolution (bound)

vars == <<storeVars, of, rec, skill, worker, reporter, cooldowns, elapsed, disturbed>>

\* Mutant of Runnable: a failed evolution can be resumed.
Runnable_WithFailed == {"Triggered", "Generating", "Generated", "Auditing", "AuditPassed",
                        "CompilePassed", "Failed"}

\* is_pipeline_runnable_status; AuditFailed and CompileFailed are overwritten at once.
Runnable == {"Triggered", "Generating", "Generated", "Auditing", "AuditPassed", "CompilePassed"}
InProgressStatus == Runnable \cup {"Observing"}
Terminal == {"Completed", "RolledBack", "Failed"}

\* patch: none yet, one no audit has seen, or one an audit has passed; audit is
\* the AuditResult kept beside it.  rate is the share of failed calls: none
\* counted, within error_threshold, or above it.
EvolutionRecord == [status : {"absent"} \cup InProgressStatus \cup Terminal,
                    patch  : {"none", "new", "audited"},
                    audit  : BOOLEAN,
                    rate   : {"none", "low", "high"}]

NoRecord == [status |-> "absent", patch |-> "none", audit |-> FALSE, rate |-> "none"]

Content  == [evo : 0..MaxEvos, patch : {"none", "new", "audited"}]
Baseline == [evo |-> 0, patch |-> "audited"]
Missing  == [evo |-> 0, patch |-> "none"]      \* no such skill: a staged import

Pipeline == {"gen", "loop", "audit", "compile", "deploy", "deployed", "regen"}
At == Pipeline \cup {"down", "idle", "list", "enqueue", "claim", "renew", "process",
                     "renewAfter", "complete", "status", "release", "tick", "finalize", "dead"}

Resting == [at |-> "idle", job |-> 0, llm |-> TRUE, result |-> "none", tries |-> 0,
            copy |-> NoRecord, active |-> 0, locks |-> {}]

Init ==
    /\ StoreInit
    /\ of = [wf \in Workflows |-> 0]
    /\ rec = [e \in Evos |-> NoRecord]
    /\ skill \in [live : {Baseline, Missing}, versions : {<<>>}, current : {1}]
    /\ worker = [w \in Workers |-> [Resting EXCEPT !.at = "down"]]
    /\ reporter = [i \in Reporters |-> [at |-> "idle", evo |-> 0, error |-> FALSE,
                                        active |-> 0, triggered |-> FALSE]]
    /\ cooldowns = {} /\ elapsed = {} /\ disturbed = 0

Job(w) == of[worker[w].job]
Alive(w) == worker[w].at \notin {"down", "dead"}

InProgress == {e \in Evos : rec[e].status \in InProgressStatus}
Fresh == {e \in Evos : rec[e].status = "absent"}

-----------------------------------------------------------------------------
(* Reporters: tool calls, the gateway and the command line *)

reports(i, new) ==
    /\ reporter' = [reporter EXCEPT ![i] = new]
    /\ UNCHANGED <<storeVars, of, skill, worker, cooldowns, elapsed, disturbed>>

\* find_in_progress_record_on_disk: the newest record first.
OnDisk == IF InProgress = {} THEN 0 ELSE Max(InProgress)

\* Room for one more trigger, cancellation, retry or stall (bound).
Room ==
    disturbed + Cardinality({i \in Reporters : reporter[i].at = "trigger"}) < Cardinality(Fresh)

\* ErrorTracker::record_error with threshold 1: does this error trigger?
record_error(i) == ~reporter[i].triggered /\ i \notin cooldowns

\* A tool call fails: report_error, up to the await of trigger_evolution.
ReportError(i) ==
    /\ reporter[i].at = "idle"
    /\ LET triggers == record_error(i)
           starts == triggers /\ InProgress = {}
       IN  /\ starts => Room
           /\ reports(i, [at |-> IF starts THEN "trigger" ELSE "call", evo |-> 0, error |-> TRUE,
                          active |-> OnDisk, triggered |-> reporter[i].triggered \/ triggers])
    /\ UNCHANGED rec

\* trigger_manual_evolution, trigger_external_evolution: no error tracker.
RequestEvolution(i) ==
    /\ reporter[i].at = "idle"
    /\ InProgress = {} /\ Room
    /\ reports(i, [reporter[i] EXCEPT !.at = "trigger", !.active = 0])
    /\ UNCHANGED rec

\* trigger_evolution writes the record; a failed call goes on to be counted.
TriggerEvolution(i) ==
    /\ reporter[i].at = "trigger"
    /\ LET e == Min(Fresh)
           error == reporter[i].error
       IN  /\ rec' = [rec EXCEPT ![e].status = "Triggered"]
           /\ reports(i, [reporter[i] EXCEPT !.at = IF error THEN "call" ELSE "idle", !.active = e])

\* report_skill_call, up to the load_record of record_observation_call.  The
\* instance's own active entry comes first, however old it is.
CountCall(i) ==
    /\ reporter[i].at \in {"idle", "call"}
    /\ LET e == IF reporter[i].active # 0 THEN reporter[i].active ELSE OnDisk
           counts == e # 0 /\ rec[e].status = "Observing"
       IN  /\ \A j \in Reporters : reporter[j].at = "save" => reporter[j].evo # e
           /\ reports(i, [reporter[i] EXCEPT !.at = IF counts THEN "save" ELSE "idle",
                                             !.active = e,
                                             !.evo = IF counts THEN e ELSE 0,
                                             !.error = counts /\ reporter[i].at = "call"])
    /\ UNCHANGED rec

\* The failure rates one more call can lead to.
RateAfter(rate, error) ==
    IF rate = "none" THEN {IF error THEN "high" ELSE "low"}
    ELSE IF error THEN {rate, "high"} ELSE {rate, "low"}

\* save_record of the record that was loaded as Observing; the file lock keeps
\* out other calls, and nothing else.
SaveCall(i) ==
    /\ reporter[i].at = "save"
    /\ LET e == reporter[i].evo
       IN  IF rec[e].status = "Observing" \/ "call" \in Torn
           THEN \E rate \in RateAfter(rec[e].rate, reporter[i].error) :
                  rec' = [rec EXCEPT ![e].rate = rate, ![e].status = "Observing"]
           ELSE UNCHANGED rec
    /\ reports(i, [reporter[i] EXCEPT !.at = "idle", !.evo = 0, !.error = FALSE])

-----------------------------------------------------------------------------
(* tick() of a skill worker, up to the pipeline *)

\* The worker's own step, with the rest of the system as it was.
works(w, new) ==
    /\ worker' = [worker EXCEPT ![w] = new]
    /\ UNCHANGED <<lastStep, reporter, disturbed>>

Goto(w, at) == [worker[w] EXCEPT !.at = at]

\* The tick is over: what stays in memory is the instance's own state.
Rested(w) == [Resting EXCEPT !.llm = worker[w].llm, !.active = worker[w].active,
                             !.locks = worker[w].locks]

keepsRecords == UNCHANGED <<rec, skill, cooldowns, elapsed>>

\* A process starts, with or without an LLM provider in its configuration.
Restart(w) ==
    /\ worker[w].at = "down"
    /\ Cardinality({v \in Workers : Alive(v)}) < MaxLive
    /\ \E llm \in BOOLEAN : works(w, [Resting EXCEPT !.llm = llm])
    /\ UNCHANGED <<row, of>> /\ keepsRecords

Recover(w) ==
    /\ worker[w].at = "idle"
    /\ recover_expired_leases
    /\ works(w, Goto(w, "list"))
    /\ UNCHANGED of /\ keepsRecords

\* adopt_orphaned_records: an in-progress record no one in this instance knows.
Adopted(w) ==
    IF worker[w].active # 0 THEN {worker[w].active}
    ELSE LET orphans == InProgress \ worker[w].locks
         IN  IF orphans = {} THEN {0} ELSE orphans

\* Mutant of workflow_blocks_enqueue: a cancelled workflow blocks, too.
workflow_blocks_enqueue_Cancelled(wf) ==
    row[wf].status \notin {"absent", "Promoted", "Failed"}

workflow_blocks_enqueue(wf) ==
    row[wf].status \notin {"absent", "Promoted", "Failed", "Cancelled"}

\* list_pending_ids, then list_workflows: what enqueue_pending_records reads.
ListPending(w) ==
    /\ worker[w].at = "list"
    /\ \E e \in Adopted(w) :
         LET pending == /\ e # 0 /\ rec[e].status \in Runnable
                        /\ \A wf \in Workflows : of[wf] = e => ~workflow_blocks_enqueue(wf)
         IN  works(w, [worker[w] EXCEPT !.active = e,
                                        !.at = IF pending THEN "enqueue" ELSE "claim"])
    /\ UNCHANGED <<row, of>> /\ keepsRecords

Enqueue(w) ==
    /\ worker[w].at = "enqueue"
    /\ \E r \in Workflows : row[r].status = "absent"
    /\ LET wf == Min({r \in Workflows : row[r].status = "absent"})
       IN  /\ enqueue(wf)
           /\ of' = [of EXCEPT ![wf] = worker[w].active]
    /\ works(w, Goto(w, "claim"))
    /\ keepsRecords

ClaimNext(w) ==
    /\ worker[w].at = "claim"
    /\ \/ \E wf \in Workflows :
            /\ claim_next(w, wf)
            /\ works(w, [worker[w] EXCEPT !.at = "renew", !.job = wf])
       \/ /\ \A wf \in Workflows : ~Claimable(row[wf])
          /\ works(w, Goto(w, "tick"))
          /\ UNCHANGED row
    /\ UNCHANGED of /\ keepsRecords

\* renew_lease, before the pipeline and after it: a lost row is left alone.
RenewLease(w) ==
    /\ worker[w].at \in {"renew", "renewAfter"}
    /\ \/ /\ renew_lease(w, worker[w].job)
          /\ works(w, Goto(w, IF worker[w].at = "renew" THEN "process" ELSE "complete"))
       \/ /\ ~Owns(w, worker[w].job)
          /\ works(w, Rested(w))
          /\ UNCHANGED row
    /\ UNCHANGED of /\ keepsRecords

-----------------------------------------------------------------------------
(* run_skill_workflow: the pipeline *)

drives(w, new) == works(w, new) /\ UNCHANGED <<row, of, cooldowns, elapsed>>

\* normalize_resumable_pipeline_record: the checkpoint a new run starts from.
Normalized(r) ==
    [r EXCEPT !.status = IF @ \in {"Generating", "Auditing"}
                         THEN IF r.patch = "none" THEN "Triggered" ELSE "Generated"
                         ELSE @]

\* cleanup_evolution of a run that failed: the record does not stay in progress.
CleanedUp(r) == [r EXCEPT !.status = IF @ \in Terminal \cup {"Observing"} THEN @ ELSE "Failed"]

\* The pipeline returns to run_skill_workflow, its lock released.
Returned(w, result) ==
    [worker[w] EXCEPT !.at = "renewAfter", !.result = result, !.tries = 0,
                      !.copy = NoRecord, !.locks = @ \ {Job(w)},
                      !.active = IF result = "failed" THEN 0 ELSE @]

\* Err or retries exhausted: cleanup_evolution.  An error on a record that is
\* observed or completed by now counts as done.
PipelineFails(w) ==
    LET r == rec[Job(w)]
    IN  /\ rec' = [rec EXCEPT ![Job(w)] = CleanedUp(r)]
        /\ drives(w, [Returned(w, "failed") EXCEPT !.result =
                        IF r.status \in {"Observing", "Completed"} THEN "done" ELSE @])

\* Saves r, keeps it as the local copy and awaits the LLM.
Awaits(w, new, r, at) ==
    /\ rec' = [rec EXCEPT ![Job(w)] = r]
    /\ drives(w, [new EXCEPT !.at = at, !.copy = r])

\* process_pending_evolution: what a claimed workflow's record allows.
ProcessPending(w) ==
    /\ worker[w].at = "process"
    /\ LET e == Job(w)
           r == Normalized(rec[e])
           runnable == rec[e].status \in Runnable
           locked == e \in worker[w].locks
           started == [worker[w] EXCEPT !.locks = @ \cup {e}]
           answers(res) == drives(w, [worker[w] EXCEPT !.at = "renewAfter", !.result = res])
       IN  \/ /\ ~runnable
              /\ answers(IF rec[e].status \in {"Observing", "Completed"} THEN "done" ELSE "failed")
              /\ UNCHANGED rec
           \/ /\ runnable /\ ~worker[w].llm
              /\ rec' = [rec EXCEPT ![e] = [r EXCEPT !.status = "Generating"]]
              /\ answers("running")
           \/ /\ runnable /\ worker[w].llm /\ locked      \* AlreadyRunning
              /\ rec' = [rec EXCEPT ![e] = r]
              /\ answers("running")
           \/ /\ runnable /\ worker[w].llm /\ ~locked /\ r.status = "Triggered"
              /\ Awaits(w, started, [r EXCEPT !.status = "Generating"], "gen")
           \/ /\ runnable /\ worker[w].llm /\ ~locked /\ r.status # "Triggered"
              /\ rec' = [rec EXCEPT ![e] = r]
              /\ drives(w, [started EXCEPT !.at = "loop"])
    /\ UNCHANGED skill

\* Mutant of NewPatch: a patch fixed after its audit is only compiled again.
NewPatch_SkipsAudit(r) ==
    [r EXCEPT !.patch = "new", !.status = IF r.audit THEN "AuditPassed" ELSE "Generated"]

\* What generate_patch and regenerate_with_feedback save.
NewPatch(r) == [r EXCEPT !.patch = "new", !.audit = FALSE, !.status = "Generated"]

\* generate_patch or regenerate_with_feedback returns.
Generated(w) ==
    /\ worker[w].at \in {"gen", "regen"}
    /\ \/ /\ rec' = [rec EXCEPT ![Job(w)] = NewPatch(worker[w].copy)]
          /\ drives(w, [worker[w] EXCEPT !.at = "loop", !.copy = NoRecord])
       \/ PipelineFails(w)
    /\ UNCHANGED skill

\* regenerate_with_feedback, up to its await.
Regenerate(w, new, r) == Awaits(w, new, [r EXCEPT !.status = "Generating"], "regen")

\* The head of the loop: the retry budget and the static audit.
NextAttempt(w) ==
    /\ worker[w].at = "loop"
    /\ LET r == rec[Job(w)]
           next == [worker[w] EXCEPT !.tries = @ + 1]
           more == worker[w].tries <= MaxRetries
       IN  \/ ~more /\ PipelineFails(w)
           \/ /\ more /\ r.status = "Generated"
              /\ \/ Regenerate(w, next, r)
                 \/ Awaits(w, next, [r EXCEPT !.status = "Auditing"], "audit")
           \/ /\ more /\ r.status # "Generated"
              /\ drives(w, [next EXCEPT !.at = IF r.status = "AuditPassed" THEN "compile"
                                               ELSE "deploy"])
              /\ UNCHANGED rec
    /\ UNCHANGED skill

\* audit_patch returns: passed, not passed (regenerate at once), or Err.
Audited(w) ==
    /\ worker[w].at = "audit"
    /\ LET r == worker[w].copy
       IN  \/ /\ rec' = [rec EXCEPT ![Job(w)] =
                           [r EXCEPT !.status = "AuditPassed", !.patch = "audited", !.audit = TRUE]]
              /\ drives(w, [worker[w] EXCEPT !.at = "compile", !.copy = NoRecord])
           \/ Regenerate(w, worker[w], [r EXCEPT !.audit = FALSE])
           \/ PipelineFails(w)
    /\ UNCHANGED skill

\* compile_check; CompileFailed is overwritten by the regeneration at once.
CompileCheck(w) ==
    /\ worker[w].at = "compile"
    /\ LET r == rec[Job(w)]
       IN  \/ /\ r.status = "AuditPassed"
              /\ rec' = [rec EXCEPT ![Job(w)].status = "CompilePassed"]
              /\ drives(w, Goto(w, "deploy"))
           \/ /\ r.status = "AuditPassed"
              /\ Regenerate(w, worker[w], r)
           \/ /\ r.status # "AuditPassed"
              /\ drives(w, Goto(w, "deploy"))
              /\ UNCHANGED rec
    /\ UNCHANGED skill

\* VersionManager::create_version: a version of the content, whose parent is
\* the version that was current.
Versioned(s, content) ==
    [live     |-> content,
     versions |-> Append(s.versions, [content |-> content, parent |-> s.current]),
     current  |-> Len(s.versions) + 1]

\* ensure_baseline, skipped for a staged skill that is not there yet.
WithBaseline(s) ==
    IF s.versions = <<>> /\ s.live # Missing THEN Versioned(s, s.live) ELSE s

\* contract_check and deploy_and_observe up to its save_record: baseline, live
\* content and version.  A failed create_new_version restores what was there.
Deploy(w) ==
    /\ worker[w].at = "deploy"
    /\ LET r == rec[Job(w)]
           content == [evo |-> Job(w), patch |-> r.patch]
           passed == r.audit
       IN  \/ /\ r.status # "CompilePassed"
              /\ drives(w, Returned(w, "done"))
              /\ UNCHANGED <<rec, skill>>
           \/ /\ r.status = "CompilePassed" /\ passed
              /\ skill' = Versioned(WithBaseline(skill), content)
              /\ drives(w, [worker[w] EXCEPT !.at = "deployed", !.copy = r])
              /\ UNCHANGED rec
           \/ /\ r.status = "CompilePassed"
              /\ PipelineFails(w)
              /\ skill' = IF passed THEN WithBaseline(skill) ELSE skill
           \/ /\ r.status = "CompilePassed"
              /\ Regenerate(w, worker[w], r)
              /\ UNCHANGED skill

\* The save_record of deploy_and_observe.
StartObserving(w) ==
    /\ worker[w].at = "deployed"
    /\ rec' = [rec EXCEPT ![Job(w)] =
                 [worker[w].copy EXCEPT !.status = "Observing", !.rate = "none"]]
    /\ drives(w, Returned(w, "done"))
    /\ UNCHANGED skill

\* run_with_lease_guard: the heartbeat sees another owner and the pipeline
\* future is dropped at its await, before the locks.remove that follows it.
LeaseLost(w) ==
    /\ worker[w].at \in {"gen", "regen", "audit"}
    /\ ~Owns(w, worker[w].job)
    /\ drives(w, Rested(w))
    /\ UNCHANGED <<rec, skill>>

Heartbeat(w) ==
    /\ worker[w].at \in {"gen", "regen", "audit"}
    /\ row[worker[w].job].lease = "expired"
    /\ renew_lease(w, worker[w].job)
    /\ UNCHANGED <<lastStep, of, worker, reporter, disturbed>> /\ keepsRecords

-----------------------------------------------------------------------------
(* The rest of the tick *)

\* complete_step, or the fail_step_if_owned whose result is ignored.
CompleteStep(w) ==
    /\ worker[w].at = "complete"
    /\ works(w, IF worker[w].result = "failed" \/ Owns(w, worker[w].job)
                THEN Goto(w, "status") ELSE Rested(w))
    /\ UNCHANGED <<row, of>> /\ keepsRecords

\* The status of a workflow whose pipeline has ended.
StatusFor(result) == IF result = "done" THEN "Observing" ELSE "Failed"

UpdateStatus(w) ==
    /\ worker[w].at = "status"
    /\ LET wf == worker[w].job
           result == worker[w].result
           over == rec[Job(w)].status \in Terminal \cup {"Observing"}
       IN  \/ /\ result = "done" \/ (result = "failed" /\ over)
              /\ update_workflow_status_if_owned(w, wf, StatusFor(result))
           \/ result = "running" /\ defer_workflow_if_owned(w, wf)
           \/ result = "failed" /\ ~over /\ schedule_retry_if_owned(w, wf)
           \/ ~Owns(w, wf) /\ UNCHANGED row
    /\ works(w, Goto(w, "release"))
    /\ UNCHANGED of /\ keepsRecords

Release(w) ==
    /\ worker[w].at = "release"
    /\ release_lease(w, worker[w].job)
    /\ works(w, [Rested(w) EXCEPT !.at = "tick"])
    /\ UNCHANGED of /\ keepsRecords

\* Mutant of RolledBack: the version before the current one in the list.
RolledBack_ByIndex(s) ==
    IF Len(s.versions) < 2 THEN [live |-> Missing, versions |-> <<>>, current |-> 1]
    ELSE LET back == Len(s.versions) - 1
         IN  [s EXCEPT !.live = s.versions[back].content, !.current = back]

\* VersionManager::rollback: back to the parent of the current version; a new
\* skill with one version is deleted.
RolledBack(s) ==
    IF Len(s.versions) < 2 THEN [live |-> Missing, versions |-> <<>>, current |-> 1]
    ELSE LET back == s.versions[s.current].parent
         IN  [s EXCEPT !.live = s.versions[back].content, !.current = back]

\* tick_observations: adopt, then judge the observation of the active evolution.
TickObservations(w) ==
    /\ worker[w].at = "tick"
    /\ \E e \in Adopted(w) :
         LET r == IF e = 0 THEN NoRecord ELSE rec[e]
             rollback == r.status = "Observing" /\ r.rate = "high"
             complete == r.status = "Observing" /\ r.rate # "high" /\ e \in elapsed
             ends == rollback \/ complete \/ r.status \in Terminal
         IN  /\ works(w, [worker[w] EXCEPT !.at = "finalize", !.active = IF ends THEN 0 ELSE e])
             /\ rec' = IF rollback THEN [rec EXCEPT ![e].status = "RolledBack"]
                       ELSE IF complete THEN [rec EXCEPT ![e].status = "Completed"] ELSE rec
             /\ skill' = IF rollback THEN RolledBack(skill) ELSE skill
             /\ cooldowns' = IF rollback THEN cooldowns \cup {w} ELSE cooldowns
             /\ elapsed' = IF ends THEN elapsed \ {e} ELSE elapsed
    /\ UNCHANGED <<row, of>>

\* finalize_observation_workflows: update_workflow_status, without an owner.
Finalize(w) ==
    /\ worker[w].at = "finalize"
    /\ row' = [wf \in Workflows |->
                IF row[wf].status = "Observing" /\ rec[of[wf]].status \in Terminal
                THEN [row[wf] EXCEPT !.status =
                        IF rec[of[wf]].status = "Completed" THEN "Promoted" ELSE "Failed"]
                ELSE row[wf]]
    /\ works(w, Rested(w))
    /\ UNCHANGED of /\ keepsRecords

\* The process dies at an await or between two calls, and its memory with it.
Crash(w) ==
    /\ Alive(w)
    /\ \E v \in Workers : worker[v].at = "down"      \* bound
    /\ worker[w].at = "deployed" => "deploy" \in Torn
    /\ works(w, [Resting EXCEPT !.at = "dead"])
    /\ cooldowns' = cooldowns \ {w}
    /\ UNCHANGED <<row, of, rec, skill, elapsed>>

-----------------------------------------------------------------------------
(* The user and the clock *)

onlyRow == UNCHANGED <<lastStep, of, worker, reporter>> /\ keepsRecords

Cancel(wf) ==
    /\ Room
    /\ cancel_workflow(wf)
    /\ disturbed' = disturbed + 1
    /\ onlyRow

Retry(wf) ==
    /\ Room
    /\ retry_workflow(wf)
    /\ disturbed' = disturbed + 1
    /\ onlyRow

LeaseExpires(wf) ==
    /\ LeaseRunsOut(wf)
    /\ LET held == row[wf].owner # NoWorker /\ Alive(row[wf].owner)
       IN  /\ held => Room
           /\ disturbed' = IF held THEN disturbed + 1 ELSE disturbed
    /\ onlyRow

\* duration_minutes pass.
WindowElapses(e) ==
    /\ rec[e].status = "Observing" /\ e \notin elapsed
    /\ elapsed' = elapsed \cup {e}
    /\ UNCHANGED <<storeVars, of, rec, skill, worker, reporter, cooldowns, disturbed>>

\* window_minutes pass: the errors and the trigger of an instance are forgotten.
ErrorWindowPasses(i) ==
    /\ reporter[i].triggered
    /\ reports(i, [reporter[i] EXCEPT !.triggered = FALSE])
    /\ UNCHANGED rec

\* cooldown_minutes pass after a rollback.
CooldownEnds ==
    /\ cooldowns # {}
    /\ cooldowns' = {}
    /\ UNCHANGED <<storeVars, of, rec, skill, worker, reporter, elapsed, disturbed>>

Tick(w) ==
    \/ Recover(w) \/ ListPending(w) \/ Enqueue(w) \/ ClaimNext(w) \/ RenewLease(w)
    \/ ProcessPending(w) \/ Generated(w) \/ NextAttempt(w) \/ Audited(w) \/ CompileCheck(w)
    \/ Deploy(w) \/ StartObserving(w) \/ LeaseLost(w) \/ CompleteStep(w) \/ UpdateStatus(w)
    \/ Release(w) \/ TickObservations(w) \/ Finalize(w)

Reports(i) == ReportError(i) \/ RequestEvolution(i) \/ CountCall(i)

Next ==
    \/ \E w \in Workers : Tick(w) \/ Restart(w) \/ Heartbeat(w) \/ Crash(w)
    \/ \E i \in Reporters : Reports(i) \/ TriggerEvolution(i) \/ SaveCall(i) \/ ErrorWindowPasses(i)
    \/ \E wf \in Workflows : Cancel(wf) \/ Retry(wf) \/ LeaseExpires(wf)
    \/ \E e \in Evos : WindowElapses(e)
    \/ CooldownEnds

Spec == Init /\ [][Next]_vars

\* A process that died is started again, every call returns and time passes; no
\* one has to report, cancel or retry.
FairSpec ==
    /\ Spec
    /\ \A w \in Workers : WF_vars(Tick(w) \/ Restart(w))
    /\ \A i \in Reporters : WF_vars(TriggerEvolution(i) \/ SaveCall(i))
    /\ \A wf \in Workflows : WF_vars(LeaseExpires(wf))
    /\ \A e \in Evos : WF_vars(WindowElapses(e))

-----------------------------------------------------------------------------
(* Properties *)

WorkerRecord == [at : At, job : Workflows \cup {0}, llm : BOOLEAN,
                 result : {"none", "done", "running", "failed"},
                 tries : 0..MaxRetries + 2, copy : EvolutionRecord,
                 active : 0..MaxEvos, locks : SUBSET Evos]

ReporterRecord == [at : {"idle", "trigger", "call", "save"}, evo : 0..MaxEvos,
                   error : BOOLEAN, active : 0..MaxEvos, triggered : BOOLEAN]

Version == [content : Content, parent : Nat]

\* Every variable keeps its type.
TypeOK ==
    /\ StoreTypeOK
    /\ of \in [Workflows -> 0..MaxEvos]
    /\ rec \in [Evos -> EvolutionRecord]
    /\ skill \in [live : Content, versions : Seq(Version), current : Nat]
    /\ worker \in [Workers -> WorkerRecord]
    /\ reporter \in [Reporters -> ReporterRecord]
    /\ cooldowns \subseteq Workers \cup Reporters /\ elapsed \subseteq Evos
    /\ disturbed \in 0..MaxEvos

\* The content the agent runs is the original skill or a patch that an audit
\* passed, whatever the checkpoint a restarted worker resumes from.
DeployedWasAudited == skill.live.patch # "new"

\* A rolled back evolution leaves nothing live: rollback restores what was there
\* before that evolution deployed, not what an earlier evolution or an earlier
\* deployment of the same one left behind.
RolledBackIsGone == \A e \in Evos : rec[e].status = "RolledBack" => skill.live.evo # e

\* A workflow is promoted only once its evolution has outlived its observation.
PromotedWasCompleted ==
    \A wf \in Workflows : row[wf].status = "Promoted" => rec[of[wf]].status = "Completed"

\* A settled evolution is not reopened by a call counted late, a resumed
\* pipeline or a cleanup.
SettledStays ==
    [][\A e \in Evos : rec[e].status \in Terminal => rec'[e].status = rec[e].status]_vars

Running(w, e) == worker[w].at \in Pipeline /\ Job(w) = e

\* An instance holds the pipeline lock of an evolution only while it runs the
\* pipeline: run_single_evolution releases it whether the run succeeds or not.
LockIsReleased ==
    \A w \in Workers : \A e \in worker[w].locks : Running(w, e)

\* No error triggers an evolution within the cooldown after a rollback, which is
\* there to break the evolve / roll back / evolve cycle.
CooldownHolds ==
    [][\A i \in Reporters : cooldowns # {} =>
          ~(reporter[i].at = "idle" /\ reporter'[i].at = "trigger" /\ reporter'[i].error)]_vars

\* A live worker that cannot run e: no LLM, or a lock no pipeline will release.
Unable(e) ==
    \E w \in Workers : /\ Alive(w)
                       /\ ~worker[w].llm \/ (e \in worker[w].locks /\ ~Running(w, e))

\* Every evolution completes, fails or is rolled back, through crashes, restarts
\* and cancelled workflows, unless the running worker is unable to run it.
EvolutionSettles ==
    \A e \in Evos : []<>(rec[e].status \notin InProgressStatus \/ Unable(e))

-----------------------------------------------------------------------------
(* The inductive invariant *)

OneWorker   == MaxLive = 1
OneReporter == \A i, j \in Reporters : i = j

\* Where a tick has claimed a workflow.
HasJob == At \ {"down", "dead", "idle", "list", "enqueue", "claim", "tick", "finalize"}

Started(e) == e \in Evos /\ rec[e].status # "absent"

\* The audit kept beside a patch is that patch's.
AuditIsReal(r) == r.audit => r.patch = "audited"

AuditsAreReal ==
    /\ \A e \in Evos : AuditIsReal(rec[e])
    /\ \A w \in Workers : AuditIsReal(worker[w].copy)
    /\ skill.live.patch # "new"
    /\ \A k \in DOMAIN skill.versions : skill.versions[k].content.patch # "new"

\* What is live is the current version; every version but the first has an
\* earlier one as its parent.
HistoryIsATree ==
    /\ IF skill.versions = <<>>
       THEN skill.current = 1 /\ skill.live \in {Baseline, Missing}
       ELSE /\ skill.current \in DOMAIN skill.versions
            /\ skill.live = skill.versions[skill.current].content
    /\ \A k \in DOMAIN skill.versions :
         /\ skill.versions[k].parent \in 1..k
         /\ skill.versions[k].parent = k => k = 1

\* What worker w knows: its instance and its tick name evolutions that were
\* triggered.
Known(w) ==
    /\ worker[w].active # 0 => Started(worker[w].active)
    /\ worker[w].at = "enqueue" => worker[w].active # 0
    /\ worker[w].at \in HasJob
       => worker[w].job \in Workflows /\ row[worker[w].job].status # "absent"

Triggering == {i \in Reporters : reporter[i].at = "trigger"}

\* So do the rows, and a record is left for every trigger under way.
NamesAreKnown ==
    /\ \A wf \in Workflows : row[wf].status # "absent" => Started(of[wf])
    /\ \A w \in Workers : Known(w)
    /\ \A i \in Reporters : reporter[i].at = "save" => Started(reporter[i].evo)
    /\ disturbed + Cardinality(Triggering) <= Cardinality(Fresh)

\* The record a pipeline works on is as it left it.
Undisturbed(w) ==
    /\ worker[w].at \in Pipeline => rec[Job(w)].status \in Runnable
    /\ worker[w].at \in {"gen", "regen", "audit", "deployed"} => worker[w].copy = rec[Job(w)]
    /\ worker[w].at = "deployed" => rec[Job(w)].status = "CompilePassed"

\* With one process alive no one else works on it, unless a call is counted late,
\* and a promoted workflow has a completed evolution.
RunIsAlone ==
    /\ OneWorker => \A v, w \in Workers : Alive(v) /\ Alive(w) => v = w
    /\ OneWorker /\ "call" \notin Torn =>
         PromotedWasCompleted /\ \A w \in Workers : Undisturbed(w)

\* With one reporter as well, one evolution is in progress at a time.
OneEvolution ==
    OneWorker /\ OneReporter /\ "call" \notin Torn =>
        /\ \A e, f \in InProgress : e = f
        /\ \A i \in Reporters : reporter[i].at = "trigger" => InProgress = {}

Deploying(e) == \E w \in Workers : worker[w].at = "deployed" /\ Job(w) = e

\* Then the evolution that is observed is live and is the newest version, and
\* below it lie only the original skill and completed evolutions.
HistoryIsSettled ==
    OneWorker /\ OneReporter /\ Torn = {} =>
        /\ \A e \in Evos : rec[e].status = "Observing" \/ Deploying(e)
             => skill.live.evo = e /\ skill.current = Len(skill.versions)
        /\ skill.live.evo # 0 => \/ rec[skill.live.evo].status \in {"Observing", "Completed"}
                                 \/ Deploying(skill.live.evo)
        /\ \A k \in DOMAIN skill.versions :
             LET parent == skill.versions[k].parent
                 below  == skill.versions[parent].content.evo
             IN  parent # k /\ below # 0 => rec[below].status = "Completed"

SkillInv ==
    /\ TypeOK /\ AuditsAreReal /\ HistoryIsATree /\ NamesAreKnown
    /\ RunIsAlone /\ OneEvolution /\ HistoryIsSettled
=============================================================================
