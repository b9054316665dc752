------------------------ MODULE EvolutionWorkerProofs ------------------------
(***************************************************************************)
(* Proofs about EvolutionWorker for any number of workflows, workers and   *)
(* steps, and for any set of store calls that may fail.  The first lemmas  *)
(* say what each store operation does to a row, so that the proofs about   *)
(* the workers need not look inside rows; then TypeOK, the inductive       *)
(* invariant IInv, and what follows from it.                               *)
(***************************************************************************)
EXTENDS EvolutionWorker, TLAPS

RowType == row \in [Workflows -> WorkflowRecord]

\* The row keeps its status and its attempts.
Same(wf) == row'[wf].status = row[wf].status /\ row'[wf].attempt = row[wf].attempt

OthersKept(wf) == \A x \in Workflows \ {wf} : row'[x] = row[x]

\* renew_lease changes the lease of its owner's row and nothing else.
LEMMA RenewFacts ==
    ASSUME RowType, NEW wf \in Workflows, NEW w \in Workers,
           renew_lease(w, wf)
    PROVE  /\ RowType'
           /\ OthersKept(wf)
           /\ row[wf].owner = w
           /\ Same(wf)
           /\ row'[wf].owner = w
           /\ row'[wf].lease = "live"
  BY StoreAssumption DEF RowType, WorkflowRecord, Status, Lease, OthersKept, Same,
     renew_lease, Owns

\* release_lease leaves status and attempt alone, and every row of another owner.
LEMMA ReleaseFacts ==
    ASSUME RowType, NEW wf \in Workflows, NEW w \in Workers,
           release_lease(w, wf)
    PROVE  /\ RowType'
           /\ OthersKept(wf)
           /\ Same(wf)
           /\ row'[wf].owner \in {row[wf].owner, NoWorker}
           /\ row[wf].owner # w => row'[wf] = row[wf]
  BY StoreAssumption DEF RowType, WorkflowRecord, Status, Lease, OthersKept, Same,
     release_lease, Released

\* claim_next hands a queued row with attempts left to w.
LEMMA ClaimFacts ==
    ASSUME RowType, NEW wf \in Workflows, NEW w \in Workers,
           claim_next(w, wf)
    PROVE  /\ RowType'
           /\ OthersKept(wf)
           /\ row[wf].status \in {"Requested", "RetryScheduled"}
           /\ row[wf].attempt < MaxAttempts
           /\ row'[wf].status = "Claimed"
           /\ row'[wf].attempt = row[wf].attempt
           /\ row'[wf].owner = w
           /\ row'[wf].lease = "live"
  BY StoreAssumption DEF RowType, WorkflowRecord, Status, Lease, OthersKept, Same,
     claim_next, Claimable

\* cancel_workflow takes the row from whoever owns it.
LEMMA CancelFacts ==
    ASSUME RowType, NEW wf \in Workflows,
           cancel_workflow(wf)
    PROVE  /\ RowType'
           /\ OthersKept(wf)
           /\ row[wf].status \notin {"absent", "Promoted", "Failed", "Cancelled", "Blocked"}
           /\ row'[wf].status = "Cancelled"
           /\ row'[wf].attempt = row[wf].attempt
           /\ row'[wf].owner = NoWorker
  BY StoreAssumption DEF RowType, WorkflowRecord, Status, Lease, OthersKept, Same,
     cancel_workflow, Released

\* enqueue creates a row for nobody in particular.
LEMMA EnqueueFacts ==
    ASSUME RowType, NEW wf \in Workflows,
           enqueue(wf)
    PROVE  /\ RowType'
           /\ OthersKept(wf)
           /\ row[wf].status = "absent"
           /\ row'[wf].status = "Requested"
           /\ row'[wf].attempt = row[wf].attempt
           /\ row'[wf].owner = row[wf].owner
  BY StoreAssumption DEF RowType, WorkflowRecord, Status, Lease, OthersKept, Same,
     enqueue

\* update_workflow_status_if_owned changes the status of its owner's row.
LEMMA StatusFacts ==
    ASSUME RowType, NEW wf \in Workflows, NEW w \in Workers, NEW new \in Status,
           update_workflow_status_if_owned(w, wf, new)
    PROVE  /\ RowType'
           /\ OthersKept(wf)
           /\ row[wf].owner = w
           /\ row'[wf].status = new
           /\ row'[wf].attempt = row[wf].attempt
           /\ row'[wf].owner = w
  BY StoreAssumption DEF RowType, WorkflowRecord, Status, Lease, OthersKept, Same,
     update_workflow_status_if_owned, Owns

\* schedule_retry_if_owned charges the owner's row one attempt and gives it up;
\* with max_attempts at most 3 it never blocks it.
LEMMA RetryFacts ==
    ASSUME RowType, NEW wf \in Workflows, NEW w \in Workers,
           schedule_retry_if_owned(w, wf)
    PROVE  /\ RowType'
           /\ OthersKept(wf)
           /\ row[wf].owner = w
           /\ row'[wf].status \in {"RetryScheduled", "Blocked"}
           /\ row[wf].attempt < MaxAttempts => row'[wf].status = "RetryScheduled"
           /\ row'[wf].attempt = row[wf].attempt + 1
           /\ row'[wf].owner = NoWorker
  BY StoreAssumption DEF RowType, WorkflowRecord, Status, Lease, OthersKept, Same,
     schedule_retry_if_owned, Owns

\* A lease running out changes neither status, attempt nor owner.
LEMMA LeaseOutFacts ==
    ASSUME RowType, NEW wf \in Workflows,
           LeaseRunsOut(wf)
    PROVE  /\ RowType'
           /\ OthersKept(wf)
           /\ Same(wf)
           /\ row'[wf].owner = row[wf].owner
           /\ row'[wf].lease = "expired"
  BY StoreAssumption DEF RowType, WorkflowRecord, Status, Lease, OthersKept, Same,
     LeaseRunsOut

\* Recovery gives up expired rows and turns Claimed into Requested.
LEMMA RecoverFacts ==
    ASSUME RowType, recover_expired_leases
    PROVE  /\ RowType'
           /\ \A x \in Workflows :
                /\ row'[x].attempt = row[x].attempt
                /\ row'[x].owner \in {row[x].owner, NoWorker}
                /\ \/ row'[x].status = row[x].status
                   \/ /\ row[x].status = "Claimed"
                      /\ row'[x].status = "Requested"
                      /\ row'[x].owner = NoWorker
                /\ row'[x].status = "Claimed" => row'[x] = row[x]
  BY StoreAssumption DEF RowType, WorkflowRecord, Status, Lease, Recovered,
     recover_expired_leases, Released

-----------------------------------------------------------------------------
\* One step keeps the types, whatever fails, stalls or crashes.
LEMMA TypeStep == TypeOK /\ [Next]_vars => TypeOK'
<1> SUFFICES ASSUME TypeOK, [Next]_vars
             PROVE  TypeOK'
  OBVIOUS
<1> USE StoreAssumption, WorkerAssumption
        DEF TypeOK, StoreTypeOK, RowType, Control, Steps, Goto, CallFails, storeVars
<1>1. ASSUME NEW w \in Workers, Recover(w) PROVE TypeOK'
  BY <1>1, RecoverFacts DEF Recover
<1>2. ASSUME NEW w \in Workers, ClaimNext(w) PROVE TypeOK'
  BY <1>2, ClaimFacts DEF ClaimNext
<1>3. ASSUME NEW w \in Workers, ClaimNothing(w) PROVE TypeOK'
  BY <1>3 DEF ClaimNothing
<1>4. ASSUME NEW w \in Workers, RenewBeforeStep(w) PROVE TypeOK'
  BY <1>4, RenewFacts DEF RenewBeforeStep, OwnedCall
<1>5. ASSUME NEW w \in Workers, DetermineNextStep(w) PROVE TypeOK'
  BY <1>5 DEF DetermineNextStep
<1>6. ASSUME NEW w \in Workers, InsertStep(w) PROVE TypeOK'
  BY <1>6 DEF InsertStep
<1>7. ASSUME NEW w \in Workers, StepSucceeds(w) PROVE TypeOK'
  BY <1>7 DEF StepSucceeds
<1>8. ASSUME NEW w \in Workers, StepFails(w) PROVE TypeOK'
  BY <1>8 DEF StepFails
<1>9. ASSUME NEW w \in Workers, LeaseLost(w) PROVE TypeOK'
  BY <1>9 DEF LeaseLost
<1>10. ASSUME NEW w \in Workers, RenewAfterStep(w) PROVE TypeOK'
  BY <1>10, RenewFacts DEF RenewAfterStep, OwnedCall
<1>11. ASSUME NEW w \in Workers, CompleteStep(w) PROVE TypeOK'
  BY <1>11 DEF CompleteStep, OwnedCall, complete_step_if_owned, Owns
<1>12. ASSUME NEW w \in Workers, Promote(w) PROVE TypeOK'
  BY <1>12, StatusFacts DEF Promote, OwnedCall, Status
<1>13. ASSUME NEW w \in Workers, Requeue(w) PROVE TypeOK'
  BY <1>13, StatusFacts DEF Requeue, OwnedCall, Status
<1>14. ASSUME NEW w \in Workers, FailStep(w) PROVE TypeOK'
  BY <1>14 DEF FailStep, OwnedCall
<1>15. ASSUME NEW w \in Workers, ScheduleRetry(w) PROVE TypeOK'
  BY <1>15, RetryFacts DEF ScheduleRetry, OwnedCall
<1>16. ASSUME NEW w \in Workers, PromoteNoStep(w) PROVE TypeOK'
  BY <1>16, StatusFacts DEF PromoteNoStep, Status
<1>17. ASSUME NEW w \in Workers, ReleaseLease(w) PROVE TypeOK'
  BY <1>17, ReleaseFacts DEF ReleaseLease
<1>18. ASSUME NEW w \in Workers, Heartbeat(w) PROVE TypeOK'
  BY <1>18, RenewFacts DEF Heartbeat
<1>19. ASSUME NEW w \in Workers, Crash(w) PROVE TypeOK'
  BY <1>19 DEF Crash
<1>20. ASSUME NEW wf \in Workflows, Enqueue(wf) PROVE TypeOK'
  BY <1>20, EnqueueFacts DEF Enqueue
<1>21. ASSUME NEW wf \in Workflows, Cancel(wf) PROVE TypeOK'
  BY <1>21, CancelFacts DEF Cancel
<1>22. ASSUME NEW wf \in Workflows, UnattendedLeaseRunsOut(wf) PROVE TypeOK'
  BY <1>22, LeaseOutFacts DEF UnattendedLeaseRunsOut
<1>23. ASSUME NEW wf \in Workflows, AttendedLeaseRunsOut(wf) PROVE TypeOK'
  BY <1>23, LeaseOutFacts DEF AttendedLeaseRunsOut
<1>24. CASE UNCHANGED vars
  BY <1>24 DEF vars
<1>. QED
  BY <1>1, <1>2, <1>3, <1>4, <1>5, <1>6, <1>7, <1>8, <1>9, <1>10, <1>11,
     <1>12, <1>13, <1>14, <1>15, <1>16, <1>17, <1>18, <1>19, <1>20, <1>21,
        <1>22, <1>23, <1>24 DEF Next, Tick

\* The types hold in every reachable state.
THEOREM TypeCorrect == Spec => []TypeOK
<1>1. Init => TypeOK
  BY StoreAssumption, WorkerAssumption
     DEF Init, StoreInit, TypeOK, StoreTypeOK, WorkflowRecord, Status, Lease,
         Control, Steps
<1>2. QED
  BY <1>1, TypeStep, PTL DEF Spec

-----------------------------------------------------------------------------
\* What a row says by itself survives every step: only the owner of a Claimed
\* row completes a step, promotes it or charges it an attempt.
LEMMA RowInvStep == IInv /\ [Next]_vars => RowInv'
<1> SUFFICES ASSUME IInv, [Next]_vars
             PROVE  RowInv'
  OBVIOUS
<1>0. TypeOK'
  BY TypeStep DEF IInv
<1> USE <1>0, StoreAssumption, WorkerAssumption
    DEF IInv, TypeOK, StoreTypeOK, RowType, Steps, Goto, CallFails, storeVars,
        RowInv, WorkerInv, Chosen, Engaged, Owns, OthersKept, Same
<1>1. ASSUME NEW w \in Workers, Recover(w) PROVE RowInv'
  BY <1>1, RecoverFacts DEF Recover
<1>2. ASSUME NEW w \in Workers, ClaimNext(w) PROVE RowInv'
  BY <1>2, ClaimFacts DEF ClaimNext
<1>3. ASSUME NEW w \in Workers, ClaimNothing(w) PROVE RowInv'
  BY <1>3 DEF ClaimNothing
<1>4. ASSUME NEW w \in Workers, RenewBeforeStep(w) PROVE RowInv'
  BY <1>4, RenewFacts DEF RenewBeforeStep, OwnedCall
<1>5. ASSUME NEW w \in Workers, DetermineNextStep(w) PROVE RowInv'
  BY <1>5 DEF DetermineNextStep
<1>6. ASSUME NEW w \in Workers, InsertStep(w) PROVE RowInv'
  BY <1>6 DEF InsertStep
<1>7. ASSUME NEW w \in Workers, StepSucceeds(w) PROVE RowInv'
  BY <1>7 DEF StepSucceeds
<1>8. ASSUME NEW w \in Workers, StepFails(w) PROVE RowInv'
  BY <1>8 DEF StepFails
<1>9. ASSUME NEW w \in Workers, LeaseLost(w) PROVE RowInv'
  BY <1>9 DEF LeaseLost
<1>10. ASSUME NEW w \in Workers, RenewAfterStep(w) PROVE RowInv'
  BY <1>10, RenewFacts DEF RenewAfterStep, OwnedCall
<1>11. ASSUME NEW w \in Workers, CompleteStep(w) PROVE RowInv'
  BY <1>11 DEF CompleteStep, OwnedCall, complete_step_if_owned, Owns
<1>12. ASSUME NEW w \in Workers, Promote(w) PROVE RowInv'
  <2>1. /\ job[w] \in Workflows /\ "Promoted" \in Status
        /\ control[w] = "promote" /\ UNCHANGED <<lastStep, ran>>
    BY <1>12 DEF Promote, OwnedCall, Status
  <2>2. CASE update_workflow_status_if_owned(w, job[w], "Promoted")
    <3>1. row[job[w]].owner = w /\ row[job[w]].status = "Claimed"
      BY <2>1, <2>2, StatusFacts
    <3>2. /\ row'[job[w]].status = "Promoted"
          /\ row'[job[w]].owner = w
          /\ OthersKept(job[w])
      BY <2>1, <2>2, StatusFacts
    <3>. QED
      BY <2>1, <3>1, <3>2
  <2>3. CASE UNCHANGED row
    BY <2>1, <2>3
  <2>4. QED
    BY <1>12, <2>2, <2>3 DEF Promote, OwnedCall
<1>13. ASSUME NEW w \in Workers, Requeue(w) PROVE RowInv'
  <2>1. /\ job[w] \in Workflows /\ "Requested" \in Status
        /\ control[w] = "requeue" /\ UNCHANGED <<lastStep, ran>>
    BY <1>13 DEF Requeue, OwnedCall, Status
  <2>2. CASE update_workflow_status_if_owned(w, job[w], "Requested")
    <3>1. row[job[w]].owner = w /\ row[job[w]].status = "Claimed"
      BY <2>1, <2>2, StatusFacts
    <3>2. /\ row'[job[w]].status = "Requested"
          /\ row'[job[w]].owner = w
          /\ OthersKept(job[w])
      BY <2>1, <2>2, StatusFacts
    <3>. QED
      BY <2>1, <3>1, <3>2
  <2>3. CASE UNCHANGED row
    BY <2>1, <2>3
  <2>4. QED
    BY <1>13, <2>2, <2>3 DEF Requeue, OwnedCall
<1>14. ASSUME NEW w \in Workers, FailStep(w) PROVE RowInv'
  BY <1>14 DEF FailStep, OwnedCall
<1>15. ASSUME NEW w \in Workers, ScheduleRetry(w) PROVE RowInv'
  BY <1>15, RetryFacts DEF ScheduleRetry, OwnedCall
<1>16. ASSUME NEW w \in Workers, PromoteNoStep(w) PROVE RowInv'
  BY <1>16, StatusFacts DEF PromoteNoStep, Status
<1>17. ASSUME NEW w \in Workers, ReleaseLease(w) PROVE RowInv'
  BY <1>17, ReleaseFacts DEF ReleaseLease
<1>18. ASSUME NEW w \in Workers, Heartbeat(w) PROVE RowInv'
  BY <1>18, RenewFacts DEF Heartbeat
<1>19. ASSUME NEW w \in Workers, Crash(w) PROVE RowInv'
  BY <1>19 DEF Crash
<1>20. ASSUME NEW wf \in Workflows, Enqueue(wf) PROVE RowInv'
  BY <1>20, EnqueueFacts DEF Enqueue
<1>21. ASSUME NEW wf \in Workflows, Cancel(wf) PROVE RowInv'
  BY <1>21, CancelFacts DEF Cancel
<1>22. ASSUME NEW wf \in Workflows, UnattendedLeaseRunsOut(wf) PROVE RowInv'
  BY <1>22, LeaseOutFacts DEF UnattendedLeaseRunsOut
<1>23. ASSUME NEW wf \in Workflows, AttendedLeaseRunsOut(wf) PROVE RowInv'
  BY <1>23, LeaseOutFacts DEF AttendedLeaseRunsOut
<1>24. CASE UNCHANGED vars
  BY <1>24 DEF vars
<1>. QED
  BY <1>1, <1>2, <1>3, <1>4, <1>5, <1>6, <1>7, <1>8, <1>9, <1>10, <1>11,
     <1>12, <1>13, <1>14, <1>15, <1>16, <1>17, <1>18, <1>19, <1>20, <1>21,
        <1>22, <1>23, <1>24 DEF Next, Tick

\* What an engaged worker knows stays true while it owns the row: every other
\* worker's write needs an ownership that would have replaced its own.
LEMMA WorkerInvStep == IInv /\ [Next]_vars => WorkerInv'
<1> SUFFICES ASSUME IInv, [Next]_vars
             PROVE  WorkerInv'
  OBVIOUS
<1>0. TypeOK'
  BY TypeStep DEF IInv
<1> USE <1>0, StoreAssumption, WorkerAssumption
    DEF IInv, TypeOK, StoreTypeOK, RowType, Steps, Goto, CallFails, storeVars,
        RowInv, WorkerInv, Chosen, Engaged, Owns, OthersKept, Same
<1>1. ASSUME NEW w \in Workers, Recover(w) PROVE WorkerInv'
  BY <1>1, RecoverFacts DEF Recover
<1>2. ASSUME NEW w \in Workers, ClaimNext(w) PROVE WorkerInv'
  BY <1>2, ClaimFacts DEF ClaimNext
<1>3. ASSUME NEW w \in Workers, ClaimNothing(w) PROVE WorkerInv'
  BY <1>3 DEF ClaimNothing
<1>4. ASSUME NEW w \in Workers, RenewBeforeStep(w) PROVE WorkerInv'
  BY <1>4, RenewFacts DEF RenewBeforeStep, OwnedCall
<1>5. ASSUME NEW w \in Workers, DetermineNextStep(w) PROVE WorkerInv'
  BY <1>5 DEF DetermineNextStep
<1>6. ASSUME NEW w \in Workers, InsertStep(w) PROVE WorkerInv'
  BY <1>6 DEF InsertStep
<1>7. ASSUME NEW w \in Workers, StepSucceeds(w) PROVE WorkerInv'
  BY <1>7 DEF StepSucceeds
<1>8. ASSUME NEW w \in Workers, StepFails(w) PROVE WorkerInv'
  BY <1>8 DEF StepFails
<1>9. ASSUME NEW w \in Workers, LeaseLost(w) PROVE WorkerInv'
  BY <1>9 DEF LeaseLost
<1>10. ASSUME NEW w \in Workers, RenewAfterStep(w) PROVE WorkerInv'
  BY <1>10, RenewFacts DEF RenewAfterStep, OwnedCall
<1>11. ASSUME NEW w \in Workers, CompleteStep(w) PROVE WorkerInv'
  BY <1>11 DEF CompleteStep, OwnedCall, complete_step_if_owned, Owns
<1>12. ASSUME NEW w \in Workers, Promote(w) PROVE WorkerInv'
  BY <1>12, StatusFacts DEF Promote, OwnedCall, Status
<1>13. ASSUME NEW w \in Workers, Requeue(w) PROVE WorkerInv'
  BY <1>13, StatusFacts DEF Requeue, OwnedCall, Status
<1>14. ASSUME NEW w \in Workers, FailStep(w) PROVE WorkerInv'
  BY <1>14 DEF FailStep, OwnedCall
<1>15. ASSUME NEW w \in Workers, ScheduleRetry(w) PROVE WorkerInv'
  BY <1>15, RetryFacts DEF ScheduleRetry, OwnedCall
<1>16. ASSUME NEW w \in Workers, PromoteNoStep(w) PROVE WorkerInv'
  BY <1>16, StatusFacts DEF PromoteNoStep, Status
<1>17. ASSUME NEW w \in Workers, ReleaseLease(w) PROVE WorkerInv'
  BY <1>17, ReleaseFacts DEF ReleaseLease
<1>18. ASSUME NEW w \in Workers, Heartbeat(w) PROVE WorkerInv'
  BY <1>18, RenewFacts DEF Heartbeat
<1>19. ASSUME NEW w \in Workers, Crash(w) PROVE WorkerInv'
  BY <1>19 DEF Crash
<1>20. ASSUME NEW wf \in Workflows, Enqueue(wf) PROVE WorkerInv'
  BY <1>20, EnqueueFacts DEF Enqueue
<1>21. ASSUME NEW wf \in Workflows, Cancel(wf) PROVE WorkerInv'
  BY <1>21, CancelFacts DEF Cancel
<1>22. ASSUME NEW wf \in Workflows, UnattendedLeaseRunsOut(wf) PROVE
   WorkerInv'
  BY <1>22, LeaseOutFacts DEF UnattendedLeaseRunsOut
<1>23. ASSUME NEW wf \in Workflows, AttendedLeaseRunsOut(wf) PROVE
   WorkerInv'
  BY <1>23, LeaseOutFacts DEF AttendedLeaseRunsOut
<1>24. CASE UNCHANGED vars
  BY <1>24 DEF vars
<1>. QED
  BY <1>1, <1>2, <1>3, <1>4, <1>5, <1>6, <1>7, <1>8, <1>9, <1>10, <1>11,
     <1>12, <1>13, <1>14, <1>15, <1>16, <1>17, <1>18, <1>19, <1>20, <1>21,
        <1>22, <1>23, <1>24 DEF Next, Tick

\* The inductive invariant holds in every reachable state.
THEOREM Invariance == Spec => []IInv
<1>1. Init => IInv
  BY StoreAssumption, WorkerAssumption
     DEF Init, StoreInit, IInv, TypeOK, StoreTypeOK, WorkflowRecord, Status, Lease,
         Control, Steps, RowInv, WorkerInv, Chosen, Engaged, Owns
<1>2. IInv /\ [Next]_vars => IInv'
  BY TypeStep, RowInvStep, WorkerInvStep DEF IInv
<1>3. QED
  BY <1>1, <1>2, PTL DEF Spec

-----------------------------------------------------------------------------
\* run_step never runs before the steps it builds on, and promotion means that
\* every step ran: the engine's record is complete when the row says so.
THEOREM PrerequisitesHold == Spec => []PrerequisitesRan
<1>1. IInv => PrerequisitesRan
  BY WorkerAssumption
     DEF IInv, TypeOK, StoreTypeOK, RowInv, WorkerInv, Chosen, PrerequisitesRan, Steps
<1>2. QED
  BY <1>1, Invariance, PTL

\* With the default max_attempts no core workflow is ever Blocked or Failed, so
\* retry_workflow and unblock_capability have nothing to act on.
THEOREM NeverBlockedHolds == Spec => []NeverBlocked
<1>1. IInv => NeverBlocked
  BY DEF IInv, RowInv, NeverBlocked
<1>2. QED
  BY <1>1, Invariance, PTL

\* The lease is a fencing token: no two workers complete the same step, none is
\* skipped, and a stalled worker's late result is dropped.
THEOREM StepsInOrderHolds == Spec => StepsInOrder
<1> DEFINE InOrder == \A wf \in Workflows :
             lastStep'[wf] # lastStep[wf] => lastStep'[wf] = lastStep[wf] + 1
<1>1. IInv /\ [Next]_vars => [InOrder]_vars
  <2> SUFFICES ASSUME IInv, [Next]_vars
               PROVE  InOrder \/ UNCHANGED vars
    OBVIOUS
  <2>1. ASSUME NEW w \in Workers, CompleteStep(w) PROVE InOrder
    BY <2>1, WorkerAssumption
       DEF CompleteStep, OwnedCall, CallFails, complete_step_if_owned, storeVars,
           IInv, TypeOK, StoreTypeOK, RowInv, WorkerInv, Chosen, Engaged, Owns, Steps
  <2>2. CASE UNCHANGED lastStep
    BY <2>2
  <2>3. QED
    BY <2>1, <2>2
       DEF Next, Tick, Recover, ClaimNext, ClaimNothing, RenewBeforeStep, OwnedCall,
           CallFails, DetermineNextStep, InsertStep, StepSucceeds, StepFails,
           LeaseLost, RenewAfterStep, Promote, Requeue, FailStep, ScheduleRetry,
           PromoteNoStep, ReleaseLease, Heartbeat, Crash, Enqueue, Cancel,
           UnattendedLeaseRunsOut, AttendedLeaseRunsOut, storeVars
<1>2. QED
  BY <1>1, Invariance, PTL DEF Spec, StepsInOrder

\* Cancelling wins: nothing a worker was doing changes a Cancelled or Promoted
\* workflow any more.
THEOREM TerminalFrozenHolds == Spec => TerminalFrozen
<1> DEFINE Frozen == \A wf \in Workflows :
             row[wf].status \in {"Promoted", "Cancelled"} =>
                /\ row'[wf].status = row[wf].status
                /\ row'[wf].attempt = row[wf].attempt
                /\ lastStep'[wf] = lastStep[wf]
<1>1. IInv /\ [Next]_vars => Frozen
  <2> SUFFICES ASSUME IInv, [Next]_vars
               PROVE  Frozen
    OBVIOUS
  <2> USE StoreAssumption, WorkerAssumption
      DEF IInv, TypeOK, StoreTypeOK, RowType, Steps, Goto, CallFails, storeVars,
          RowInv, WorkerInv, Chosen, Engaged, Owns, OthersKept, Same
  <2>1. ASSUME NEW w \in Workers, Recover(w) PROVE Frozen
    BY <2>1, RecoverFacts DEF Recover
  <2>2. ASSUME NEW w \in Workers, ClaimNext(w) PROVE Frozen
    BY <2>2, ClaimFacts DEF ClaimNext
  <2>3. ASSUME NEW w \in Workers, ClaimNothing(w) PROVE Frozen
    BY <2>3 DEF ClaimNothing
  <2>4. ASSUME NEW w \in Workers, RenewBeforeStep(w) PROVE Frozen
    BY <2>4, RenewFacts DEF RenewBeforeStep, OwnedCall
  <2>5. ASSUME NEW w \in Workers, DetermineNextStep(w) PROVE Frozen
    BY <2>5 DEF DetermineNextStep
  <2>6. ASSUME NEW w \in Workers, InsertStep(w) PROVE Frozen
    BY <2>6 DEF InsertStep
  <2>7. ASSUME NEW w \in Workers, StepSucceeds(w) PROVE Frozen
    BY <2>7 DEF StepSucceeds
  <2>8. ASSUME NEW w \in Workers, StepFails(w) PROVE Frozen
    BY <2>8 DEF StepFails
  <2>9. ASSUME NEW w \in Workers, LeaseLost(w) PROVE Frozen
    BY <2>9 DEF LeaseLost
  <2>10. ASSUME NEW w \in Workers, RenewAfterStep(w) PROVE Frozen
    BY <2>10, RenewFacts DEF RenewAfterStep, OwnedCall
  <2>11. ASSUME NEW w \in Workers, CompleteStep(w) PROVE Frozen
    BY <2>11 DEF CompleteStep, OwnedCall, complete_step_if_owned, Owns
  <2>12. ASSUME NEW w \in Workers, Promote(w) PROVE Frozen
    BY <2>12, StatusFacts DEF Promote, OwnedCall, Status
  <2>13. ASSUME NEW w \in Workers, Requeue(w) PROVE Frozen
    BY <2>13, StatusFacts DEF Requeue, OwnedCall, Status
  <2>14. ASSUME NEW w \in Workers, FailStep(w) PROVE Frozen
    BY <2>14 DEF FailStep, OwnedCall
  <2>15. ASSUME NEW w \in Workers, ScheduleRetry(w) PROVE Frozen
    BY <2>15, RetryFacts DEF ScheduleRetry, OwnedCall
  <2>16. ASSUME NEW w \in Workers, PromoteNoStep(w) PROVE Frozen
    BY <2>16, StatusFacts DEF PromoteNoStep, Status
  <2>17. ASSUME NEW w \in Workers, ReleaseLease(w) PROVE Frozen
    BY <2>17, ReleaseFacts DEF ReleaseLease
  <2>18. ASSUME NEW w \in Workers, Heartbeat(w) PROVE Frozen
    BY <2>18, RenewFacts DEF Heartbeat
  <2>19. ASSUME NEW w \in Workers, Crash(w) PROVE Frozen
    BY <2>19 DEF Crash
  <2>20. ASSUME NEW wf \in Workflows, Enqueue(wf) PROVE Frozen
    BY <2>20, EnqueueFacts DEF Enqueue
  <2>21. ASSUME NEW wf \in Workflows, Cancel(wf) PROVE Frozen
    BY <2>21, CancelFacts DEF Cancel
  <2>22. ASSUME NEW wf \in Workflows, UnattendedLeaseRunsOut(wf) PROVE Frozen
    BY <2>22, LeaseOutFacts DEF UnattendedLeaseRunsOut
  <2>23. ASSUME NEW wf \in Workflows, AttendedLeaseRunsOut(wf) PROVE Frozen
    BY <2>23, LeaseOutFacts DEF AttendedLeaseRunsOut
  <2>24. CASE UNCHANGED vars
    BY <2>24 DEF vars
  <2>. QED
    BY <2>1, <2>2, <2>3, <2>4, <2>5, <2>6, <2>7, <2>8, <2>9, <2>10, <2>11,
       <2>12, <2>13, <2>14, <2>15, <2>16, <2>17, <2>18, <2>19, <2>20, <2>21,
          <2>22, <2>23, <2>24 DEF Next, Tick
<1>2. QED
  BY <1>1, Invariance, PTL DEF Spec, TerminalFrozen

\* With the two error paths that release a Claimed row out of the way, every step
\* leaves a Claimed row its lease: only release_lease and recovery clear one, and
\* they find the row moved on, taken over, or make it Requested.
LEMMA LeaseStep ==
    ASSUME "insert" \notin FaultyCalls, "promoteNoStep" \notin FaultyCalls,
           TypeOK, LeaseInv, [Next]_vars
    PROVE  LeaseInv'
<1>0. TypeOK'
  BY TypeStep
<1> USE <1>0, StoreAssumption, WorkerAssumption
    DEF TypeOK, StoreTypeOK, RowType, Goto, CallFails, storeVars,
        LeaseInv, NoStrandedClaim, Owns, OthersKept, Same
<1>1. ASSUME NEW w \in Workers, Recover(w) PROVE LeaseInv'
  BY <1>1, RecoverFacts DEF Recover
<1>2. ASSUME NEW w \in Workers, ClaimNext(w) PROVE LeaseInv'
  BY <1>2, ClaimFacts DEF ClaimNext
<1>3. ASSUME NEW w \in Workers, ClaimNothing(w) PROVE LeaseInv'
  BY <1>3 DEF ClaimNothing
<1>4. ASSUME NEW w \in Workers, RenewBeforeStep(w) PROVE LeaseInv'
  BY <1>4, RenewFacts DEF RenewBeforeStep, OwnedCall
<1>5. ASSUME NEW w \in Workers, DetermineNextStep(w) PROVE LeaseInv'
  BY <1>5 DEF DetermineNextStep
<1>6. ASSUME NEW w \in Workers, InsertStep(w) PROVE LeaseInv'
  BY <1>6 DEF InsertStep
<1>7. ASSUME NEW w \in Workers, StepSucceeds(w) PROVE LeaseInv'
  BY <1>7 DEF StepSucceeds
<1>8. ASSUME NEW w \in Workers, StepFails(w) PROVE LeaseInv'
  BY <1>8 DEF StepFails
<1>9. ASSUME NEW w \in Workers, LeaseLost(w) PROVE LeaseInv'
  BY <1>9 DEF LeaseLost
<1>10. ASSUME NEW w \in Workers, RenewAfterStep(w) PROVE LeaseInv'
  BY <1>10, RenewFacts DEF RenewAfterStep, OwnedCall
<1>11. ASSUME NEW w \in Workers, CompleteStep(w) PROVE LeaseInv'
  BY <1>11 DEF CompleteStep, OwnedCall, complete_step_if_owned
<1>12. ASSUME NEW w \in Workers, Promote(w) PROVE LeaseInv'
  <2>1. job[w] \in Workflows /\ "Promoted" \in Status /\ UNCHANGED job
    BY <1>12 DEF Promote, Status
  <2>2. CASE /\ update_workflow_status_if_owned(w, job[w], "Promoted")
             /\ Goto(w, "release")
    <3>1. /\ row'[job[w]].status = "Promoted"
          /\ OthersKept(job[w])
      BY <2>1, <2>2, StatusFacts
    <3>. QED
      BY <2>1, <2>2, <3>1
  <2>3. CASE UNCHANGED row /\ Goto(w, "idle")
    BY <2>1, <2>3
  <2>4. QED
    BY <1>12, <2>2, <2>3 DEF Promote, OwnedCall
<1>13. ASSUME NEW w \in Workers, Requeue(w) PROVE LeaseInv'
  <2>1. job[w] \in Workflows /\ "Requested" \in Status /\ UNCHANGED job
    BY <1>13 DEF Requeue, Status
  <2>2. CASE /\ update_workflow_status_if_owned(w, job[w], "Requested")
             /\ Goto(w, "release")
    <3>1. /\ row'[job[w]].status = "Requested"
          /\ OthersKept(job[w])
      BY <2>1, <2>2, StatusFacts
    <3>. QED
      BY <2>1, <2>2, <3>1
  <2>3. CASE UNCHANGED row /\ Goto(w, "idle")
    BY <2>1, <2>3
  <2>4. QED
    BY <1>13, <2>2, <2>3 DEF Requeue, OwnedCall
<1>14. ASSUME NEW w \in Workers, FailStep(w) PROVE LeaseInv'
  BY <1>14 DEF FailStep, OwnedCall
<1>15. ASSUME NEW w \in Workers, ScheduleRetry(w) PROVE LeaseInv'
  BY <1>15, RetryFacts DEF ScheduleRetry, OwnedCall
<1>16. ASSUME NEW w \in Workers, PromoteNoStep(w) PROVE LeaseInv'
  BY <1>16, StatusFacts DEF PromoteNoStep, Status
<1>17. ASSUME NEW w \in Workers, ReleaseLease(w) PROVE LeaseInv'
  BY <1>17, ReleaseFacts DEF ReleaseLease
<1>18. ASSUME NEW w \in Workers, Heartbeat(w) PROVE LeaseInv'
  BY <1>18, RenewFacts DEF Heartbeat
<1>19. ASSUME NEW w \in Workers, Crash(w) PROVE LeaseInv'
  BY <1>19 DEF Crash
<1>20. ASSUME NEW wf \in Workflows, Enqueue(wf) PROVE LeaseInv'
  BY <1>20, EnqueueFacts DEF Enqueue
<1>21. ASSUME NEW wf \in Workflows, Cancel(wf) PROVE LeaseInv'
  BY <1>21, CancelFacts DEF Cancel
<1>22. ASSUME NEW wf \in Workflows, UnattendedLeaseRunsOut(wf) PROVE LeaseInv'
  BY <1>22, LeaseOutFacts DEF UnattendedLeaseRunsOut
<1>23. ASSUME NEW wf \in Workflows, AttendedLeaseRunsOut(wf) PROVE LeaseInv'
  BY <1>23, LeaseOutFacts DEF AttendedLeaseRunsOut
<1>24. CASE UNCHANGED vars
  BY <1>24 DEF vars
<1>. QED
  BY <1>1, <1>2, <1>3, <1>4, <1>5, <1>6, <1>7, <1>8, <1>9, <1>10, <1>11,
     <1>12, <1>13, <1>14, <1>15, <1>16, <1>17, <1>18, <1>19, <1>20, <1>21,
     <1>22, <1>23, <1>24 DEF Next, Tick

\* No worker leaves a Claimed row without a lease behind, whatever calls fail but
\* insert_step and the promotion of a finished workflow: the error paths of these
\* two do strand it.
THEOREM NoStrandedClaimHolds ==
    ASSUME "insert" \notin FaultyCalls, "promoteNoStep" \notin FaultyCalls
    PROVE  Spec => []NoStrandedClaim
<1>1. Init => LeaseInv
  BY DEF Init, StoreInit, LeaseInv, NoStrandedClaim
<1>2. TypeOK /\ LeaseInv /\ [Next]_vars => LeaseInv'
  BY LeaseStep
<1>3. LeaseInv => NoStrandedClaim
  BY DEF LeaseInv
<1>4. QED
  BY <1>1, <1>2, <1>3, TypeCorrect, PTL DEF Spec

-----------------------------------------------------------------------------
(* Refinement *)


\* The abstract phase of a row.
Phase(r) == IF r.status \in {"absent", "Promoted", "Cancelled"} THEN r.status ELSE "open"

\* The refinement mapping, in terms of Phase.
LEMMA Bars ==
    /\ phaseBar = [wf \in Workflows |-> Phase(row[wf])]
    /\ phaseBar' = [wf \in Workflows |-> Phase(row'[wf])]
    /\ attemptsBar = [wf \in Workflows |-> row[wf].attempt]
    /\ attemptsBar' = [wf \in Workflows |-> row'[wf].attempt]
  BY DEF phaseBar, attemptsBar, Phase

\* The pipeline does not see a step that keeps every phase and attempt.
LEMMA Invisible ==
    ASSUME lastStep' = lastStep,
           \A x \in Workflows : /\ Phase(row'[x]) = Phase(row[x])
                               /\ row'[x].attempt = row[x].attempt
    PROVE  UNCHANGED Pipeline!vars
  BY Bars DEF Pipeline!vars

\* A step that moves one row from phase to phase.
LEMMA PhaseMoves ==
    ASSUME NEW wf \in Workflows, OthersKept(wf), row'[wf].attempt = row[wf].attempt
    PROVE  /\ phaseBar[wf] = Phase(row[wf])
           /\ phaseBar' = [phaseBar EXCEPT ![wf] = Phase(row'[wf])]
           /\ attemptsBar' = attemptsBar
  BY Bars DEF OthersKept

\* A step that charges one row.
LEMMA AttemptMoves ==
    ASSUME NEW wf \in Workflows, OthersKept(wf), Phase(row'[wf]) = Phase(row[wf]),
           row'[wf].attempt = row[wf].attempt + 1
    PROVE  /\ phaseBar' = phaseBar
           /\ attemptsBar' = [attemptsBar EXCEPT ![wf] = @ + 1]
           /\ phaseBar[wf] = Phase(row[wf])
           /\ attemptsBar[wf] = row[wf].attempt
  BY Bars DEF OthersKept

\* Every step of the workers is a step of the pipeline or invisible in it.
LEMMA PipelineStep == IInv /\ [Next]_vars => [Pipeline!Next]_(Pipeline!vars)
<1> SUFFICES ASSUME IInv, [Next]_vars
             PROVE  Pipeline!Next \/ UNCHANGED Pipeline!vars
  OBVIOUS
<1> DEFINE Kept == /\ lastStep' = lastStep
                   /\ \A x \in Workflows : /\ Phase(row'[x]) = Phase(row[x])
                                           /\ row'[x].attempt = row[x].attempt
<1>0. Kept => UNCHANGED Pipeline!vars
  BY Invisible
<1> USE StoreAssumption, WorkerAssumption
    DEF IInv, TypeOK, StoreTypeOK, RowType, Steps, Goto, CallFails, storeVars,
        RowInv, WorkerInv, Chosen, Engaged, Owns, OthersKept, Same
<1>1. ASSUME NEW w \in Workers, Recover(w) PROVE Kept
  BY <1>1, RecoverFacts DEF Recover, Phase
<1>2. ASSUME NEW w \in Workers, ClaimNext(w) PROVE Kept
  BY <1>2, ClaimFacts DEF ClaimNext, Phase
<1>3. ASSUME NEW w \in Workers, ClaimNothing(w) PROVE Kept
  BY <1>3 DEF ClaimNothing, Phase
<1>4. ASSUME NEW w \in Workers, RenewBeforeStep(w) PROVE Kept
  BY <1>4, RenewFacts DEF RenewBeforeStep, OwnedCall, Phase
<1>5. ASSUME NEW w \in Workers, DetermineNextStep(w) PROVE Kept
  BY <1>5 DEF DetermineNextStep, Phase
<1>6. ASSUME NEW w \in Workers, InsertStep(w) PROVE Kept
  BY <1>6 DEF InsertStep, Phase
<1>7. ASSUME NEW w \in Workers, StepSucceeds(w) PROVE Kept
  BY <1>7 DEF StepSucceeds, Phase
<1>8. ASSUME NEW w \in Workers, StepFails(w) PROVE Kept
  BY <1>8 DEF StepFails, Phase
<1>9. ASSUME NEW w \in Workers, LeaseLost(w) PROVE Kept
  BY <1>9 DEF LeaseLost, Phase
<1>10. ASSUME NEW w \in Workers, RenewAfterStep(w) PROVE Kept
  BY <1>10, RenewFacts DEF RenewAfterStep, OwnedCall, Phase
<1>11. ASSUME NEW w \in Workers, CompleteStep(w) PROVE Pipeline!Next \/
   UNCHANGED Pipeline!vars
  <2> DEFINE wf == job[w]
  <2>1. CASE /\ Owns(w, wf)
             /\ lastStep' = [lastStep EXCEPT ![wf] = step[w]]
             /\ UNCHANGED row
    <3>1. UNCHANGED <<phaseBar, attemptsBar>>
      BY <2>1, Bars
    <3>2. phaseBar[wf] = "open" /\ attemptsBar[wf] < MaxAttempts
      BY <1>11, <2>1, Bars DEF Phase, CompleteStep
    <3>a. /\ step[w] \in 1..NumSteps
          /\ lastStep[wf] = step[w] - 1
      BY <1>11, <2>1 DEF CompleteStep
    <3>b. lastStep[wf] + 1 = step[w]
      BY <3>a
    <3>c. lastStep[wf] < NumSteps
      BY <3>a, WorkerAssumption
    <3>3. lastStep' = [lastStep EXCEPT ![wf] = lastStep[wf] + 1]
      BY <2>1, <3>b, Zenon
    <3>4. Pipeline!Advance(wf)
      BY <3>1, <3>2, <3>3, <3>c DEF Pipeline!Advance, Pipeline!Runnable
    <3>5. QED
      BY <3>4 DEF Pipeline!Next
  <2>2. CASE UNCHANGED storeVars
    BY <2>2, <1>0
  <2>3. QED
    BY <1>11, <2>1, <2>2 DEF CompleteStep, OwnedCall, complete_step_if_owned
<1>12. ASSUME NEW w \in Workers, Promote(w) PROVE Pipeline!Next \/
   UNCHANGED Pipeline!vars
  <2> DEFINE wf == job[w]
  <2>1. CASE update_workflow_status_if_owned(w, wf, "Promoted") /\
     UNCHANGED lastStep
    <3>1. /\ Phase(row[wf]) = "open" /\ Phase(row'[wf]) = "Promoted"
          /\ OthersKept(wf) /\ row'[wf].attempt = row[wf].attempt
      BY <1>12, <2>1, StatusFacts DEF Promote, Phase, Status
    <3>2. Pipeline!Finish(wf)
      BY <1>12, <2>1, <3>1, PhaseMoves DEF Promote, Pipeline!Finish
    <3>3. QED
      BY <3>2 DEF Pipeline!Next
  <2>2. CASE UNCHANGED storeVars
    BY <2>2, <1>0
  <2>3. QED
    BY <1>12, <2>1, <2>2 DEF Promote, OwnedCall
<1>13. ASSUME NEW w \in Workers, Requeue(w) PROVE Kept
  BY <1>13, StatusFacts DEF Requeue, OwnedCall, Status, Phase
<1>14. ASSUME NEW w \in Workers, FailStep(w) PROVE Kept
  BY <1>14 DEF FailStep, OwnedCall, Phase
<1>15. ASSUME NEW w \in Workers, ScheduleRetry(w) PROVE Pipeline!Next \/
   UNCHANGED Pipeline!vars
  <2> DEFINE wf == job[w]
  <2>1. CASE schedule_retry_if_owned(w, wf) /\ UNCHANGED lastStep
    <3>1. /\ Phase(row[wf]) = "open" /\ Phase(row'[wf]) = "open"
          /\ OthersKept(wf) /\ row'[wf].attempt = row[wf].attempt + 1
          /\ row[wf].attempt < MaxAttempts /\ lastStep[wf] < NumSteps
      BY <1>15, <2>1, RetryFacts DEF ScheduleRetry, Phase
    <3>2. Pipeline!ChargeFailure(wf)
      BY <2>1, <3>1, AttemptMoves DEF Pipeline!ChargeFailure,
         Pipeline!Runnable
    <3>3. QED
      BY <3>2 DEF Pipeline!Next
  <2>2. CASE UNCHANGED storeVars
    BY <2>2, <1>0
  <2>3. QED
    BY <1>15, <2>1, <2>2 DEF ScheduleRetry, OwnedCall
<1>16. ASSUME NEW w \in Workers, PromoteNoStep(w) PROVE Pipeline!Next \/
   UNCHANGED Pipeline!vars
  <2> DEFINE wf == job[w]
  <2>1. CASE update_workflow_status_if_owned(w, wf, "Promoted") /\
     UNCHANGED lastStep
    <3>1. /\ Phase(row[wf]) = "open" /\ Phase(row'[wf]) = "Promoted"
          /\ OthersKept(wf) /\ row'[wf].attempt = row[wf].attempt
      BY <1>16, <2>1, StatusFacts DEF PromoteNoStep, Phase, Status
    <3>2. Pipeline!Finish(wf)
      BY <1>16, <2>1, <3>1, PhaseMoves DEF PromoteNoStep, Pipeline!Finish
    <3>3. QED
      BY <3>2 DEF Pipeline!Next
  <2>2. CASE UNCHANGED storeVars
    BY <2>2, <1>0
  <2>3. QED
    BY <1>16, <2>1, <2>2 DEF PromoteNoStep, OwnedCall
<1>17. ASSUME NEW w \in Workers, ReleaseLease(w) PROVE Kept
  BY <1>17, ReleaseFacts DEF ReleaseLease, Phase
<1>18. ASSUME NEW w \in Workers, Heartbeat(w) PROVE Kept
  BY <1>18, RenewFacts DEF Heartbeat, Phase
<1>19. ASSUME NEW w \in Workers, Crash(w) PROVE Kept
  BY <1>19 DEF Crash, Phase
<1>20. ASSUME NEW wf \in Workflows, Enqueue(wf) PROVE Pipeline!Next \/
   UNCHANGED Pipeline!vars
  <2>1. /\ Phase(row[wf]) = "absent" /\ Phase(row'[wf]) = "open"
        /\ OthersKept(wf) /\ row'[wf].attempt = row[wf].attempt
    BY <1>20, EnqueueFacts DEF Enqueue, Phase
  <2>2. Pipeline!Submit(wf)
    BY <1>20, <2>1, PhaseMoves DEF Enqueue, Pipeline!Submit
  <2>3. QED
    BY <2>2 DEF Pipeline!Next
<1>21. ASSUME NEW wf \in Workflows, Cancel(wf) PROVE Pipeline!Next \/
   UNCHANGED Pipeline!vars
  <2>1. /\ Phase(row[wf]) = "open" /\ Phase(row'[wf]) = "Cancelled"
        /\ OthersKept(wf) /\ row'[wf].attempt = row[wf].attempt
    BY <1>21, CancelFacts DEF Cancel, Phase
  <2>2. Pipeline!Withdraw(wf)
    BY <1>21, <2>1, PhaseMoves DEF Cancel, Pipeline!Withdraw
  <2>3. QED
    BY <2>2 DEF Pipeline!Next
<1>22. ASSUME NEW wf \in Workflows, UnattendedLeaseRunsOut(wf) PROVE Kept
  BY <1>22, LeaseOutFacts DEF UnattendedLeaseRunsOut, Phase
<1>23. ASSUME NEW wf \in Workflows, AttendedLeaseRunsOut(wf) PROVE Kept
  BY <1>23, LeaseOutFacts DEF AttendedLeaseRunsOut, Phase
<1>24. CASE UNCHANGED vars
  BY <1>24, <1>0 DEF vars
<1>. QED
  BY <1>0, <1>1, <1>2, <1>3, <1>4, <1>5, <1>6, <1>7, <1>8, <1>9, <1>10,
     <1>11, <1>12, <1>13, <1>14, <1>15, <1>16, <1>17, <1>18, <1>19, <1>20,
        <1>21, <1>22, <1>23, <1>24 DEF Next, Tick

\* The workers implement the pipeline for every number of workers, workflows and
\* steps: leases, stalls, crashes, recovery and retries are invisible in it.
THEOREM Refinement == Spec => ImplementsPipeline
<1>1. Init => Pipeline!Init
  BY DEF Init, StoreInit, Pipeline!Init, phaseBar, attemptsBar
<1>2. QED
  BY <1>1, PipelineStep, Invariance, PTL DEF Spec, ImplementsPipeline, Pipeline!Spec
=============================================================================
