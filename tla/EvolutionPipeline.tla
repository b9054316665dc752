-------------------------- MODULE EvolutionPipeline --------------------------
(***************************************************************************)
(* What a capability evolution promises, with no worker, lease or crash in *)
(* sight: an ordered list of steps, each completed once; a failure charges *)
(* one attempt and keeps the progress; promotion needs every step; and an  *)
(* attempt is charged only to a workflow that still has work to do.        *)
(***************************************************************************)
EXTENDS Naturals

CONSTANTS Workflows, NumSteps, MaxAttempts

VARIABLES
    phase,      \* "absent", "open", "Promoted" or "Cancelled"
    progress,   \* steps completed
    attempts    \* failures charged

vars == <<phase, progress, attempts>>

Init ==
    /\ phase = [wf \in Workflows |-> "absent"]
    /\ progress = [wf \in Workflows |-> 0]
    /\ attempts = [wf \in Workflows |-> 0]

Submit(wf) ==
    /\ phase[wf] = "absent"
    /\ phase' = [phase EXCEPT ![wf] = "open"]
    /\ UNCHANGED <<progress, attempts>>

\* An open workflow whose next step may still be tried.
Runnable(wf) ==
    /\ phase[wf] = "open"
    /\ attempts[wf] < MaxAttempts
    /\ progress[wf] < NumSteps

Advance(wf) ==
    /\ Runnable(wf)
    /\ progress' = [progress EXCEPT ![wf] = @ + 1]
    /\ UNCHANGED <<phase, attempts>>

ChargeFailure(wf) ==
    /\ Runnable(wf)
    /\ attempts' = [attempts EXCEPT ![wf] = @ + 1]
    /\ UNCHANGED <<phase, progress>>

Finish(wf) ==
    /\ phase[wf] = "open"
    /\ progress[wf] = NumSteps
    /\ phase' = [phase EXCEPT ![wf] = "Promoted"]
    /\ UNCHANGED <<progress, attempts>>

Withdraw(wf) ==
    /\ phase[wf] = "open"
    /\ phase' = [phase EXCEPT ![wf] = "Cancelled"]
    /\ UNCHANGED <<progress, attempts>>

Next == \E wf \in Workflows :
    Submit(wf) \/ Advance(wf) \/ ChargeFailure(wf) \/ Finish(wf) \/ Withdraw(wf)

Spec == Init /\ [][Next]_vars
=============================================================================
