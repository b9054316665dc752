--------------------------- MODULE EvolutionWorker ---------------------------
(***************************************************************************)
(* The core evolution workers of crates/scheduler/src/evolution_worker.rs: *)
(* any number of processes polling one workflow table.  A worker runs      *)
(* tick() over and over; every store call of a tick is an action, and      *)
(* control[w] names the call w makes next.  Between two calls the lease    *)
(* may run out, another worker may recover and claim the row, the user may *)
(* cancel, and the process may die.                                        *)
(*                                                                         *)
(* The table has no writer of "cancel" events (append_event is never       *)
(* called), so the two checks of read_pending_events never fire and have   *)
(* no action here.                                                         *)
(***************************************************************************)
EXTENDS EvolutionStore

CONSTANTS
    NumSteps,      \* EvolutionStep::all_steps().len()
    MaxStalls,     \* bound: leases that run out under a worker still running
    FaultyCalls    \* the store calls that may return Err

StoreCalls == {"recover", "claim", "renew", "lastStep", "insert", "complete",
               "fail", "retry", "requeue", "promote", "promoteNoStep", "release"}

ASSUME WorkerAssumption ==
    /\ NumSteps \in Nat \ {0}
    /\ MaxStalls \in Nat
    /\ FaultyCalls \subseteq StoreCalls

VARIABLES
    control,       \* the next call of each worker's tick; "dead" once crashed
    job,           \* the workflow the tick claimed
    step,          \* the EvolutionStep the tick runs
    ran,           \* steps whose run_step effect reached the engine's record
    stalls         \* leases that ran out under a running worker so far

workerVars == <<control, job, step>>
vars == <<row, lastStep, control, job, step, ran, stalls>>

Control == {"idle", "claim", "renew", "lastStep", "insert", "running",
            "renewOk", "renewErr", "complete", "fail", "retry", "requeue",
            "promote", "promoteNoStep", "release", "dead"}

Steps == 1..NumSteps

Init ==
    /\ StoreInit
    /\ control = [w \in Workers |-> "idle"]
    /\ job \in [Workers -> Workflows]
    /\ step = [w \in Workers |-> 1]
    /\ ran = [wf \in Workflows |-> {}]
    /\ stalls = 0

Goto(w, next) == control' = [control EXCEPT ![w] = next]

\* The call named c returns Err; the tick continues at next.
CallFails(w, c, next) ==
    /\ c \in FaultyCalls
    /\ Goto(w, next)
    /\ UNCHANGED storeVars

\* A call that writes only while w owns the row: Ok(true) goes on to next,
\* Ok(false) and Err end the tick with the lease left as it is.
OwnedCall(w, c, write, next) ==
    \/ write /\ Goto(w, next)
    \/ ~Owns(w, job[w]) /\ Goto(w, "idle") /\ UNCHANGED storeVars
    \/ CallFails(w, c, "idle")

-----------------------------------------------------------------------------
(* tick(): recover, claim, renew, choose the step *)

Recover(w) ==
    /\ control[w] = "idle"
    /\ \/ recover_expired_leases /\ Goto(w, "claim") /\ UNCHANGED lastStep
       \/ CallFails(w, "recover", "claim")
    /\ UNCHANGED <<job, step, ran, stalls>>

ClaimNext(w) ==
    /\ control[w] = "claim"
    /\ \E wf \in Workflows :
         /\ claim_next(w, wf)
         /\ job' = [job EXCEPT ![w] = wf]
    /\ Goto(w, "renew")
    /\ UNCHANGED <<lastStep, step, ran, stalls>>

ClaimNothing(w) ==
    /\ control[w] = "claim"
    /\ \/ /\ \A wf \in Workflows : ~Claimable(row[wf])
          /\ Goto(w, "idle")
          /\ UNCHANGED storeVars
       \/ CallFails(w, "claim", "idle")
    /\ UNCHANGED <<job, step, ran, stalls>>

\* Lost before the step began: nothing is released, the new owner has the row.
RenewBeforeStep(w) ==
    /\ control[w] = "renew"
    /\ OwnedCall(w, "renew", renew_lease(w, job[w]) /\ UNCHANGED lastStep, "lastStep")
    /\ UNCHANGED <<job, step, ran, stalls>>

\* Mutants of DetermineNextStep: QueryFailed handled like NoStep; QueryFailed
\* releasing the lease.
DetermineNextStep_FailedIsNone(w) ==
    /\ control[w] = "lastStep"
    /\ "lastStep" \in FaultyCalls
    /\ Goto(w, "promoteNoStep")
    /\ UNCHANGED <<row, lastStep, job, step, ran, stalls>>

DetermineNextStep_Releases(w) ==
    /\ control[w] = "lastStep"
    /\ "lastStep" \in FaultyCalls
    /\ Goto(w, "release")
    /\ UNCHANGED <<row, lastStep, job, step, ran, stalls>>

\* determine_next_step: Step, NoStep or QueryFailed.
DetermineNextStep(w) ==
    /\ control[w] = "lastStep"
    /\ \/ /\ lastStep[job[w]] < NumSteps
          /\ step' = [step EXCEPT ![w] = lastStep[job[w]] + 1]
          /\ Goto(w, "insert")
       \/ /\ lastStep[job[w]] = NumSteps
          /\ Goto(w, "promoteNoStep")
          /\ UNCHANGED step
       \/ /\ "lastStep" \in FaultyCalls
          /\ Goto(w, "idle")
          /\ UNCHANGED step
    /\ UNCHANGED <<row, lastStep, job, ran, stalls>>

\* insert_step: its error path goes straight to release_lease.
InsertStep(w) ==
    /\ control[w] = "insert"
    /\ \/ Goto(w, "running") /\ UNCHANGED storeVars
       \/ CallFails(w, "insert", "release")
    /\ UNCHANGED <<job, step, ran, stalls>>

-----------------------------------------------------------------------------
(* run_step under the lease heartbeat *)

StepSucceeds(w) ==
    /\ control[w] = "running"
    /\ ran' = [ran EXCEPT ![job[w]] = @ \cup {step[w]}]
    /\ Goto(w, "renewOk")
    /\ UNCHANGED <<row, lastStep, job, step, stalls>>

\* The engine may have saved its effect before it returned Err.
StepFails(w) ==
    /\ control[w] = "running"
    /\ \E done \in {{}, {step[w]}} :
         ran' = [ran EXCEPT ![job[w]] = @ \cup done]
    /\ Goto(w, "renewErr")
    /\ UNCHANGED <<row, lastStep, job, step, stalls>>

Heartbeat(w) ==
    /\ control[w] = "running"
    /\ renew_lease(w, job[w])
    /\ UNCHANGED <<lastStep, control, job, step, ran, stalls>>

\* The heartbeat found another owner, or failed three times in a row: the step
\* future is dropped where it stands and the tick returns.
LeaseLost(w) ==
    /\ control[w] = "running"
    /\ ~Owns(w, job[w]) \/ "renew" \in FaultyCalls
    /\ \E done \in {{}, {step[w]}} :
         ran' = [ran EXCEPT ![job[w]] = @ \cup done]
    /\ Goto(w, "idle")
    /\ UNCHANGED <<row, lastStep, job, step, stalls>>

RenewAfterStep(w) ==
    /\ control[w] \in {"renewOk", "renewErr"}
    /\ OwnedCall(w, "renew", renew_lease(w, job[w]) /\ UNCHANGED lastStep,
                 IF control[w] = "renewOk" THEN "complete" ELSE "fail")
    /\ UNCHANGED <<job, step, ran, stalls>>

-----------------------------------------------------------------------------
(* Recording the result *)

CompleteStep(w) ==
    /\ control[w] = "complete"
    /\ OwnedCall(w, "complete",
                 complete_step_if_owned(w, job[w], step[w]) /\ UNCHANGED row,
                 IF step[w] = NumSteps THEN "promote" ELSE "requeue")
    /\ UNCHANGED <<job, step, ran, stalls>>

Promote(w) ==
    /\ control[w] = "promote"
    /\ OwnedCall(w, "promote",
                 /\ update_workflow_status_if_owned(w, job[w], "Promoted")
                 /\ UNCHANGED lastStep,
                 "release")
    /\ UNCHANGED <<job, step, ran, stalls>>

\* Back to the queue for the next step; the lease is still held until release.
Requeue(w) ==
    /\ control[w] = "requeue"
    /\ OwnedCall(w, "requeue",
                 /\ update_workflow_status_if_owned(w, job[w], "Requested")
                 /\ UNCHANGED lastStep,
                 "release")
    /\ UNCHANGED <<job, step, ran, stalls>>

\* The failed row of the steps table is not the last completed one.
FailStep(w) ==
    /\ control[w] = "fail"
    /\ OwnedCall(w, "fail", Owns(w, job[w]) /\ UNCHANGED storeVars, "retry")
    /\ UNCHANGED <<job, step, ran, stalls>>

ScheduleRetry(w) ==
    /\ control[w] = "retry"
    /\ OwnedCall(w, "retry",
                 schedule_retry_if_owned(w, job[w]) /\ UNCHANGED lastStep,
                 "release")
    /\ UNCHANGED <<job, step, ran, stalls>>

\* NoStep: a predecessor completed the last step and died before it promoted.
\* The result of the update is ignored and the tick goes on to release.
PromoteNoStep(w) ==
    /\ control[w] = "promoteNoStep"
    /\ \/ /\ update_workflow_status_if_owned(w, job[w], "Promoted")
          /\ Goto(w, "release")
          /\ UNCHANGED lastStep
       \/ ~Owns(w, job[w]) /\ Goto(w, "release") /\ UNCHANGED storeVars
       \/ CallFails(w, "promoteNoStep", "release")
    /\ UNCHANGED <<job, step, ran, stalls>>

ReleaseLease(w) ==
    /\ control[w] = "release"
    /\ \/ release_lease(w, job[w]) /\ Goto(w, "idle") /\ UNCHANGED lastStep
       \/ CallFails(w, "release", "idle")
    /\ UNCHANGED <<job, step, ran, stalls>>

-----------------------------------------------------------------------------
(* The user, the clock and the operating system *)

Enqueue(wf) ==
    /\ enqueue(wf)
    /\ UNCHANGED <<lastStep, control, job, step, ran, stalls>>

Cancel(wf) ==
    /\ cancel_workflow(wf)
    /\ UNCHANGED <<lastStep, control, job, step, ran, stalls>>

\* Someone is still working under this row's lease.
Attended(wf) ==
    \E w \in Workers : /\ Owns(w, wf)
                      /\ job[w] = wf
                      /\ control[w] \notin {"idle", "claim", "dead"}

\* A backoff that elapses, or a lease nobody renews any more.
UnattendedLeaseRunsOut(wf) ==
    /\ ~Attended(wf)
    /\ LeaseRunsOut(wf)
    /\ UNCHANGED <<lastStep, control, job, step, ran, stalls>>

\* A lease that runs out under a stalled worker (a suspended process, a step
\* that starves the heartbeat task, a jump of the wall clock).
AttendedLeaseRunsOut(wf) ==
    /\ Attended(wf)
    /\ stalls < MaxStalls
    /\ stalls' = stalls + 1
    /\ LeaseRunsOut(wf)
    /\ UNCHANGED <<lastStep, control, job, step, ran>>

\* The process dies; its uuid never comes back.  One worker stays alive.
Crash(w) ==
    /\ \E other \in Workers \ {w} : control[other] # "dead"
    /\ control[w] # "dead"
    /\ Goto(w, "dead")
    /\ UNCHANGED <<row, lastStep, job, step, ran, stalls>>

Tick(w) ==
    \/ Recover(w) \/ ClaimNext(w) \/ ClaimNothing(w) \/ RenewBeforeStep(w)
    \/ DetermineNextStep(w) \/ InsertStep(w)
    \/ StepSucceeds(w) \/ StepFails(w) \/ LeaseLost(w) \/ RenewAfterStep(w)
    \/ CompleteStep(w) \/ Promote(w) \/ Requeue(w) \/ FailStep(w)
    \/ ScheduleRetry(w) \/ PromoteNoStep(w) \/ ReleaseLease(w)

Next ==
    \/ \E w \in Workers : Tick(w) \/ Heartbeat(w) \/ Crash(w)
    \/ \E wf \in Workflows :
         \/ Enqueue(wf) \/ Cancel(wf)
         \/ UnattendedLeaseRunsOut(wf) \/ AttendedLeaseRunsOut(wf)

Spec == Init /\ [][Next]_vars

\* The poll interval keeps every live worker ticking and the clock advances.
\* Nothing is assumed of the user, of crashes or of step results.
Fairness ==
    /\ \A w \in Workers : WF_vars(Tick(w))
    /\ \A wf \in Workflows : WF_vars(UnattendedLeaseRunsOut(wf))

FairSpec == Spec /\ Fairness

-----------------------------------------------------------------------------
(* Properties *)

TypeOK ==
    /\ StoreTypeOK
    /\ control \in [Workers -> Control]
    /\ job \in [Workers -> Workflows]
    /\ step \in [Workers -> Steps]
    /\ ran \in [Workflows -> SUBSET Steps]
    /\ stalls \in 0..MaxStalls

\* The lease as a fencing token.  Whatever workers are stalled, superseded or
\* dead, a workflow's steps are completed one at a time, each exactly once and
\* in the order of EvolutionStep::all_steps (complete_step_if_owned).
StepsInOrder ==
    [][\A wf \in Workflows :
          lastStep'[wf] # lastStep[wf] => lastStep'[wf] = lastStep[wf] + 1]_vars

\* A Promoted or Cancelled workflow stays as it is: a worker that was already
\* running its step can neither requeue it, complete a step of it nor charge
\* it an attempt (the if_owned calls against cancel_workflow).
TerminalFrozen ==
    [][\A wf \in Workflows :
          row[wf].status \in {"Promoted", "Cancelled"} =>
             /\ row'[wf].status = row[wf].status
             /\ row'[wf].attempt = row[wf].attempt
             /\ lastStep'[wf] = lastStep[wf]]_vars

\* run_step finds in the engine's record what the earlier steps left there, even
\* when other workers ran those steps, and a promoted workflow ran all of them.
PrerequisitesRan ==
    /\ \A w \in Workers :
          control[w] = "running" => 1..(step[w] - 1) \subseteq ran[job[w]]
    /\ \A wf \in Workflows :
          row[wf].status = "Promoted" => ran[wf] = Steps

\* A Claimed row has a lease_until, so that recover_expired_leases can take it
\* back when its owner is gone.  The comment at the QueryFailed branch of tick()
\* says a row without one "would be stuck forever".
NoStrandedClaim ==
    \A wf \in Workflows : row[wf].status = "Claimed" => row[wf].lease # "none"

\* A failure is charged to the workflow only by its lease holder and recovery
\* charges none: a row that is not out of attempts is never out of the reach of
\* claim_next, and Blocked is not reachable with the default max_attempts.
NeverBlocked ==
    \A wf \in Workflows :
       /\ row[wf].status \notin {"Blocked", "Failed"}
       /\ row[wf].status = "Claimed" => row[wf].attempt < MaxAttempts

OutOfAttempts(wf) ==
    row[wf].status = "RetryScheduled" /\ row[wf].attempt >= MaxAttempts

\* Every enqueued workflow is promoted, cancelled, or fails MaxAttempts times,
\* however its workers stall and crash, as long as one of them lives on.
EventuallySettled ==
    \A wf \in Workflows :
       row[wf].status = "Requested" ~>
          \/ row[wf].status \in {"Promoted", "Cancelled"}
          \/ OutOfAttempts(wf)

\* The doc comment of schedule_retry: "attempt 1->1min, 2->5min, 3->30min, then
\* Blocked": a scheduled retry is taken once its backoff has elapsed.
ScheduledRetryIsTaken ==
    \A wf \in Workflows :
       row[wf].status = "RetryScheduled" ~> row[wf].status # "RetryScheduled"

-----------------------------------------------------------------------------
(* The inductive invariant behind the properties above *)

\* What a row says by itself.
RowInv == \A wf \in Workflows :
    /\ row[wf].owner # NoWorker => row[wf].status \in {"Claimed", "Requested", "Promoted"}
    /\ row[wf].status = "Claimed" => row[wf].attempt < MaxAttempts
    /\ row[wf].status = "Promoted" => lastStep[wf] = NumSteps
    /\ row[wf].status \notin {"Blocked", "Failed", "Observing"}
    /\ lastStep[wf] \in 0..NumSteps
    /\ 1..lastStep[wf] \subseteq ran[wf]

Chosen == {"insert", "running", "renewOk", "renewErr", "complete", "fail", "retry"}
Engaged == Chosen \cup {"renew", "lastStep", "requeue", "promote", "promoteNoStep"}

\* What a tick that has got as far as control[w] knows, as long as w is still
\* the owner: the row is Claimed and nobody completed a step since w looked.
WorkerInv == \A w \in Workers :
    /\ control[w] \in Engaged /\ Owns(w, job[w]) => row[job[w]].status = "Claimed"
    /\ control[w] \in Chosen /\ Owns(w, job[w]) => lastStep[job[w]] = step[w] - 1
    /\ control[w] \in Chosen => 1..(step[w] - 1) \subseteq ran[job[w]]
    /\ control[w] \in {"renewOk", "complete"} => step[w] \in ran[job[w]]
    /\ control[w] \in {"promote", "promoteNoStep"} => lastStep[job[w]] = NumSteps

IInv == TypeOK /\ RowInv /\ WorkerInv

\* Behind NoStrandedClaim: a tick that has come to release_lease has moved its
\* row on, or has lost it to another worker, who may have claimed it since.
LeaseInv ==
    /\ NoStrandedClaim
    /\ \A w \in Workers :
          control[w] = "release" /\ Owns(w, job[w]) => row[job[w]].status # "Claimed"

-----------------------------------------------------------------------------
(* Refinement of EvolutionPipeline: leases, claims and retries are internal. *)

phaseBar == [wf \in Workflows |->
    CASE row[wf].status \in {"absent", "Promoted", "Cancelled"} -> row[wf].status
      [] OTHER -> "open"]

attemptsBar == [wf \in Workflows |-> row[wf].attempt]

Pipeline == INSTANCE EvolutionPipeline
    WITH phase <- phaseBar, progress <- lastStep, attempts <- attemptsBar

\* The workers together implement the pipeline: seen from outside, stalled and
\* superseded workers, recovery and retries never repeat, skip or undo a step.
ImplementsPipeline == Pipeline!Spec
=============================================================================
