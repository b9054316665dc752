--------------------------- MODULE EvolutionStore ---------------------------
(***************************************************************************)
(* The SQLite workflow table of crates/storage/src/evolution_workflow.rs.  *)
(* Each store method is one statement or one IMMEDIATE transaction, so it  *)
(* is one atomic operator here; whatever a worker does between two calls   *)
(* is a separate action of the module that uses them.                      *)
(*                                                                         *)
(* Wall-clock time appears only through lease_until.  A row's lease is     *)
(* "none" (SQL NULL), "live" (lease_until in the future) or "expired"      *)
(* (lease_until < now).  Any positive lease or backoff length is covered:  *)
(* LeaseRunsOut may happen at any moment.                                  *)
(***************************************************************************)
EXTENDS Naturals

CONSTANTS
    Workflows,     \* workflow ids the run may create
    Workers,       \* worker ids; a restarted process draws a new uuid
    NoWorker,      \* lease_owner IS NULL
    MaxAttempts    \* the max_attempts column; only its DEFAULT, 3, writes it

ASSUME StoreAssumption ==
    /\ NoWorker \notin Workers
    /\ MaxAttempts \in 1..3

VARIABLES
    row,           \* evo_workflows
    lastStep       \* evo_workflow_steps: the step completed last, 0 if none

storeVars == <<row, lastStep>>

Status == {"absent", "Requested", "Claimed", "RetryScheduled", "Observing",
           "Promoted", "Failed", "Cancelled", "Blocked"}
Lease  == {"none", "live", "expired"}

WorkflowRecord == [status  : Status,
                   attempt : Nat,
                   owner   : Workers \cup {NoWorker},
                   lease   : Lease]

\* CREATE TABLE: no row yet.
StoreInit ==
    /\ row = [wf \in Workflows |->
                [status |-> "absent", attempt |-> 0,
                 owner |-> NoWorker, lease |-> "none"]]
    /\ lastStep = [wf \in Workflows |-> 0]

Owns(w, wf) == row[wf].owner = w

Released(r) == [r EXCEPT !.owner = NoWorker, !.lease = "none"]

-----------------------------------------------------------------------------
(* Queue operations *)

enqueue(wf) ==
    /\ row[wf].status = "absent"
    /\ row' = [row EXCEPT ![wf].status = "Requested"]

\* The WHERE clause of claim_next, apart from its provider_kind filter.
Claimable(r) ==
    /\ r.status \in {"Requested", "RetryScheduled"}
    /\ r.attempt < MaxAttempts
    /\ r.lease # "live"

claim_next(w, wf) ==
    /\ Claimable(row[wf])
    /\ row' = [row EXCEPT ![wf] =
                 [@ EXCEPT !.status = "Claimed", !.owner = w, !.lease = "live"]]

\* Mutant of Recovered: the first UPDATE, for expired claims, is missing.
Recovered_BackoffOnly(r) ==
    IF r.status = "RetryScheduled" /\ r.lease # "live" THEN Released(r) ELSE r

\* Both UPDATEs of the recovery transaction, applied to one row.
Recovered(r) ==
    IF \/ r.status = "Claimed" /\ r.lease = "expired"
       \/ r.status = "RetryScheduled" /\ r.lease # "live"
    THEN [Released(r) EXCEPT !.status = IF @ = "Claimed" THEN "Requested" ELSE @]
    ELSE r

recover_expired_leases == row' = [wf \in Workflows |-> Recovered(row[wf])]

cancel_workflow(wf) ==
    /\ row[wf].status \notin {"absent", "Promoted", "Failed", "Cancelled", "Blocked"}
    /\ row' = [row EXCEPT ![wf] = [Released(@) EXCEPT !.status = "Cancelled"]]

retry_workflow(wf) ==
    /\ row[wf].status \in {"Failed", "Blocked"}
    /\ row' = [row EXCEPT ![wf] =
                 [Released(@) EXCEPT !.status = "Requested", !.attempt = 0]]

-----------------------------------------------------------------------------
(* Operations of the worker that holds, or once held, the lease.  None of   *)
(* them looks at lease_until: ownership alone fences a worker out.          *)

renew_lease(w, wf) ==
    /\ Owns(w, wf)
    /\ row' = [row EXCEPT ![wf].lease = "live"]

release_lease(w, wf) ==
    row' = [row EXCEPT ![wf] = IF @.owner = w THEN Released(@) ELSE @]

\* Mutant of complete_step_if_owned: complete_step, without the EXISTS clause.
complete_step(w, wf, s) ==
    lastStep' = [lastStep EXCEPT ![wf] = s]

complete_step_if_owned(w, wf, s) ==
    /\ Owns(w, wf)
    /\ lastStep' = [lastStep EXCEPT ![wf] = s]

\* Mutant of the next one: update_workflow_status, which checks no owner.
update_workflow_status(w, wf, new) ==
    row' = [row EXCEPT ![wf].status = new]

update_workflow_status_if_owned(w, wf, new) ==
    /\ Owns(w, wf)
    /\ row' = [row EXCEPT ![wf].status = new]

\* Mutant of schedule_retry_if_owned: schedule_retry, which checks no owner.
schedule_retry(w, wf) ==
    row' = [row EXCEPT ![wf] =
              [status |-> "RetryScheduled", attempt |-> @.attempt + 1,
               owner |-> NoWorker, lease |-> "live"]]

\* attempt + 1; a backoff of 1, 5 and 30 minutes for attempts 1, 2 and 3, and
\* Blocked from the fourth on.
schedule_retry_if_owned(w, wf) ==
    /\ Owns(w, wf)
    /\ LET n == row[wf].attempt + 1
       IN  row' = [row EXCEPT ![wf] =
                     [status  |-> IF n \in 1..3 THEN "RetryScheduled" ELSE "Blocked",
                      attempt |-> n,
                      owner   |-> NoWorker,
                      lease   |-> IF n \in 1..3 THEN "live" ELSE "none"]]

\* A backoff that leaves attempt alone.
defer_workflow_if_owned(w, wf) ==
    /\ Owns(w, wf)
    /\ row' = [row EXCEPT ![wf] =
                 [@ EXCEPT !.status = "RetryScheduled", !.owner = NoWorker, !.lease = "live"]]

-----------------------------------------------------------------------------
\* The clock passes lease_until.
LeaseRunsOut(wf) ==
    /\ row[wf].lease = "live"
    /\ row' = [row EXCEPT ![wf].lease = "expired"]

StoreTypeOK ==
    /\ row \in [Workflows -> WorkflowRecord]
    /\ lastStep \in [Workflows -> Nat]
=============================================================================
