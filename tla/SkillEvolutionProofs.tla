------------------------- MODULE SkillEvolutionProofs -------------------------
(***************************************************************************)
(* Proofs about SkillEvolution, for any number of workers, reporters,      *)
(* workflows and evolutions.                                               *)
(*                                                                         *)
(* Most steps of the system are of one of four shapes, and each shape is   *)
(* shown to keep the invariant once: a worker's step that leaves records   *)
(* and skill alone, a step of its pipeline that rewrites one record, a     *)
(* reporter's step, and a step of the user or the clock.  Deploying,       *)
(* observing and judging, which change the skill, are proved one by one.   *)
(***************************************************************************)
EXTENDS SkillEvolution, FiniteSetTheorems, WellFoundedInduction, NaturalsInduction, TLAPS

\* A nonempty set of numbers has a smallest element.
LEMMA Smallest ==
    ASSUME NEW S \in SUBSET Nat, S # {}
    PROVE  \E x \in S : \A y \in S : x =< y
<1> DEFINE less == {ss \in Nat \X Nat : ss[1] < ss[2]}
<1>1. IsWellFoundedOn(less, Nat)
  BY NatLessThanWellFounded DEF OpToRel
<1>2. PICK x \in S : \A y \in S : <<y, x>> \notin less
  BY <1>1, WFMin
<1>3. \A y \in Nat : <<y, x>> \notin less => x =< y
  OBVIOUS
<1>. QED
  BY <1>2, <1>3

LEMMA MinMember ==
    ASSUME NEW S \in SUBSET Nat, S # {}
    PROVE  Min(S) \in S
  BY Smallest DEF Min

\* And a largest one, when it is bounded.
LEMMA MaxMember ==
    ASSUME NEW n \in Nat, NEW S \in SUBSET (0..n), S # {}
    PROVE  Max(S) \in S
<1> DEFINE T == {k \in Nat : \E x \in S : k = n - x}
<1>1. T # {}
  <2>1. PICK x \in S : TRUE
    OBVIOUS
  <2>2. n - x \in T
    BY <2>1
  <2>. QED
    BY <2>2
<1>2. PICK k \in T : \A y \in T : k =< y
  BY <1>1, Smallest
<1>3. PICK x \in S : k = n - x
  BY <1>2
<1>4. \A y \in S : x >= y
  <2> TAKE y \in S
  <2>1. n - y \in T
    OBVIOUS
  <2>. QED
    BY <2>1, <1>2, <1>3
<1>. QED
  BY <1>4 DEF Max

-----------------------------------------------------------------------------
(* The workflow table *)

\* What a step may do to the rows: none disappears or changes its evolution, a
\* new one is of an evolution that was triggered, and only a completed evolution
\* promotes one.
RowStep ==
    /\ StoreTypeOK'
    /\ of' \in [Workflows -> 0..MaxEvos]
    /\ \A wf \in Workflows : row[wf].status # "absent" =>
         row'[wf].status # "absent" /\ of'[wf] = of[wf]
    /\ \A wf \in Workflows : row[wf].status = "absent" /\ row'[wf].status # "absent" =>
         Started(of'[wf])
    /\ \A wf \in Workflows : row'[wf].status = "Promoted" =>
         /\ row[wf].status # "absent"
         /\ row[wf].status = "Promoted" \/ rec[of[wf]].status = "Completed"

\* Every operation of the store that is no enqueue is such a step.
LEMMA StoreStep ==
    ASSUME TypeOK, UNCHANGED <<of, lastStep>>,
           NEW w \in Workers, NEW wf \in Workflows, NEW new \in {"Observing", "Failed"},
           row[wf].status # "absent",
           \/ UNCHANGED row
           \/ claim_next(w, wf) \/ renew_lease(w, wf) \/ release_lease(w, wf)
           \/ update_workflow_status_if_owned(w, wf, new)
           \/ defer_workflow_if_owned(w, wf) \/ schedule_retry_if_owned(w, wf)
    PROVE  RowStep
<1>1. /\ row' \in [Workflows -> WorkflowRecord]
      /\ \A x \in Workflows \ {wf} : row'[x] = row[x]
      /\ row'[wf].status # "absent" /\ (row'[wf].status = "Promoted" => row[wf].status = "Promoted")
  <2>1. row \in [Workflows -> WorkflowRecord] /\ NoWorker \notin Workers
    BY StoreAssumption DEF TypeOK, StoreTypeOK
  <2> USE <2>1 DEF WorkflowRecord, Status, Lease
  <2>2. CASE UNCHANGED row
    BY <2>2
  <2>3. CASE claim_next(w, wf)
    BY <2>3 DEF claim_next
  <2>4. CASE renew_lease(w, wf)
    BY <2>4, SMTT(30) DEF renew_lease
  <2>5. CASE release_lease(w, wf)
    BY <2>5 DEF release_lease, Released
  <2>6. CASE update_workflow_status_if_owned(w, wf, new)
    BY <2>6 DEF update_workflow_status_if_owned
  <2>7. CASE defer_workflow_if_owned(w, wf)
    BY <2>7 DEF defer_workflow_if_owned
  <2>8. CASE schedule_retry_if_owned(w, wf)
    BY <2>8 DEF schedule_retry_if_owned
  <2>. QED
    BY <2>2, <2>3, <2>4, <2>5, <2>6, <2>7, <2>8
<1>. QED
  BY <1>1 DEF RowStep, TypeOK, StoreTypeOK

\* And so are the operations of the user and of the clock.
LEMMA UserRowStep ==
    ASSUME TypeOK, UNCHANGED <<of, lastStep>>, NEW wf \in Workflows,
           cancel_workflow(wf) \/ retry_workflow(wf) \/ LeaseRunsOut(wf)
    PROVE  RowStep
<1>1. /\ row' \in [Workflows -> WorkflowRecord]
      /\ \A x \in Workflows \ {wf} : row'[x] = row[x]
      /\ row'[wf].status = "absent" <=> row[wf].status = "absent"
      /\ row'[wf].status = "Promoted" => row[wf].status = "Promoted"
  <2>1. row \in [Workflows -> WorkflowRecord]
    BY DEF TypeOK, StoreTypeOK
  <2> USE <2>1 DEF WorkflowRecord, Status, Lease
  <2>2. CASE cancel_workflow(wf)
    BY <2>2 DEF cancel_workflow, Released
  <2>3. CASE retry_workflow(wf)
    BY <2>3 DEF retry_workflow, Released
  <2>4. CASE LeaseRunsOut(wf)
    BY <2>4 DEF LeaseRunsOut
  <2>. QED
    BY <2>2, <2>3, <2>4
<1>. QED
  BY <1>1 DEF RowStep, TypeOK, StoreTypeOK

LEMMA RecoverStep ==
    ASSUME TypeOK, UNCHANGED <<of, lastStep>>, recover_expired_leases
    PROVE  RowStep
<1>1. \A wf \in Workflows :
        /\ row'[wf] \in WorkflowRecord
        /\ row'[wf].status = "absent" <=> row[wf].status = "absent"
        /\ row'[wf].status = "Promoted" => row[wf].status = "Promoted"
  BY StoreAssumption DEF TypeOK, StoreTypeOK, WorkflowRecord, Status, Lease,
     recover_expired_leases, Recovered, Released
<1>2. row' \in [Workflows -> WorkflowRecord]
  BY <1>1 DEF recover_expired_leases
<1>. QED
  BY <1>1, <1>2 DEF RowStep, TypeOK, StoreTypeOK

-----------------------------------------------------------------------------
(* The version history *)

LEMMA HasJobs == Pipeline \subseteq HasJob /\ "deployed" \in Pipeline
  BY DEF Pipeline, HasJob, At

\* Versions are well formed, and so is what is live.
LEMMA VersionFacts ==
    ASSUME TypeOK, HistoryIsATree
    PROVE  /\ skill.live \in Content /\ skill.live.evo \in 0..MaxEvos
           /\ skill.live.evo # 0 => skill.live.evo \in Evos /\ skill.versions # <<>>
           /\ skill.versions \in Seq(Version)
           /\ \A k \in DOMAIN skill.versions :
                /\ skill.versions[k] \in Version
                /\ skill.versions[k].parent \in DOMAIN skill.versions
                /\ skill.versions[k].content.evo # 0 => skill.versions[k].content.evo \in Evos
<1>1. /\ skill.versions \in Seq(Version)
      /\ \A k \in DOMAIN skill.versions : skill.versions[k] \in Version
  BY DEF TypeOK
<1>2. \A k \in DOMAIN skill.versions : skill.versions[k].parent \in 1..k
  BY DEF HistoryIsATree
<1>3. DOMAIN skill.versions = 1..Len(skill.versions) /\ Len(skill.versions) \in Nat
  BY <1>1
<1>4. \A k \in DOMAIN skill.versions : skill.versions[k].parent \in DOMAIN skill.versions
  BY <1>2, <1>3
<1>5. \A c \in Content : c.evo \in 0..MaxEvos /\ (c.evo # 0 => c.evo \in Evos)
  BY SkillAssumption DEF Content, Evos
<1>6. \A k \in DOMAIN skill.versions : skill.versions[k].content \in Content
  BY <1>1 DEF Version
<1>7. skill.live \in Content
  BY DEF TypeOK
<1>8. skill.live.evo # 0 => skill.versions # <<>>
  BY DEF HistoryIsATree, Baseline, Missing
<1>. QED
  BY <1>1, <1>4, <1>5, <1>6, <1>7, <1>8

\* What is said of the history survives a step that deploys, observes and
\* judges nothing.
LEMMA HistoryStays ==
    ASSUME SkillInv, OneWorker, OneReporter, Torn = {}, UNCHANGED skill,
           \A e : Deploying(e)' <=> Deploying(e),
           \A e \in Evos :
             /\ rec'[e].status = "Observing" <=> rec[e].status = "Observing"
             /\ rec[e].status = "Completed" => rec'[e].status = "Completed"
    PROVE  HistoryIsSettled'
<1>1. \A e \in Evos : rec'[e].status = "Observing" \/ Deploying(e)'
         => skill'.live.evo = e /\ skill'.current = Len(skill'.versions)
  BY DEF SkillInv, HistoryIsSettled
<1>2. (skill.live.evo # 0 => \/ rec[skill.live.evo].status \in {"Observing", "Completed"}
                             \/ Deploying(skill.live.evo))'
  <2>1. ASSUME NEW e \in Evos, e = skill.live.evo
        PROVE  rec'[e].status \in {"Observing", "Completed"} \/ Deploying(e)'
    BY <2>1, SkillAssumption DEF SkillInv, HistoryIsSettled, Evos
  <2>. QED
    BY <2>1, VersionFacts DEF SkillInv, Deploying
<1>3. ASSUME NEW k \in DOMAIN skill.versions, NEW parent, parent = skill.versions[k].parent, parent # k,
             NEW below, below = skill.versions[parent].content.evo, below # 0
      PROVE  rec'[below].status = "Completed"
  <2>1. rec[below].status = "Completed"
    BY <1>3 DEF SkillInv, HistoryIsSettled
  <2>2. below \in Evos
    BY <1>3, VersionFacts DEF SkillInv
  <2>. QED
    BY <2>1, <2>2
<1>4. \A k \in DOMAIN skill'.versions :
        LET parent == skill'.versions[k].parent
            below  == skill'.versions[parent].content.evo
        IN  parent # k /\ below # 0 => rec'[below].status = "Completed"
  BY <1>3
<1>. QED
  BY <1>1, <1>2, <1>4 DEF HistoryIsSettled, Deploying

-----------------------------------------------------------------------------
(* Steps that leave the records and the skill as they are *)

\* The evolution of a tick does not change under it.
LEMMA JobStays ==
    ASSUME NamesAreKnown, RowStep, NEW w \in Workers, worker[w].at \in HasJob,
           worker'[w].job = worker[w].job
    PROVE  /\ Job(w)' = Job(w) /\ Started(Job(w))
           /\ row'[worker'[w].job].status # "absent"
  BY DEF NamesAreKnown, Known, RowStep, Job

LEMMA QuietStep ==
    ASSUME SkillInv, TypeOK', RowStep, UNCHANGED <<rec, skill>>,
           \A w \in Workers :
             \/ worker'[w] = worker[w]
             \/ /\ Known(w)' /\ AuditIsReal(worker'[w].copy)
                /\ worker'[w].at \notin Pipeline
                /\ worker[w].at = "deployed" => "deploy" \in Torn,
           OneWorker => \A v, w \in Workers : Alive(v)' /\ Alive(w)' => v = w,
           \A i \in Reporters :
             /\ reporter'[i].at = "save" => Started(reporter'[i].evo)
             /\ reporter'[i].at = "trigger" => reporter[i].at = "trigger" \/ InProgress = {},
           disturbed' + Cardinality(Triggering') <= Cardinality(Fresh)
    PROVE  SkillInv'
<1>1. AuditsAreReal'
  BY DEF SkillInv, AuditsAreReal, AuditIsReal
<1>2. HistoryIsATree'
  BY DEF SkillInv, HistoryIsATree
<1>3. NamesAreKnown'
  <2>1. \A wf \in Workflows : row'[wf].status # "absent" => Started(of'[wf])
    BY DEF SkillInv, NamesAreKnown, RowStep
  <2>2. \A w \in Workers : Known(w)'
    BY DEF SkillInv, NamesAreKnown, RowStep, Known, Started
  <2>. QED
    BY <2>1, <2>2 DEF NamesAreKnown, Started, Fresh
<1>4. \A w \in Workers : worker'[w].at \in Pipeline => worker'[w] = worker[w] /\ Job(w)' = Job(w)
  BY JobStays DEF SkillInv, Pipeline, HasJob, At
<1>5. RunIsAlone'
  <2>1. ASSUME OneWorker, "call" \notin Torn PROVE PromotedWasCompleted'
    BY <2>1 DEF SkillInv, RunIsAlone, PromotedWasCompleted, RowStep
  <2>2. ASSUME OneWorker, "call" \notin Torn, NEW w \in Workers PROVE Undisturbed(w)'
    BY <2>2, <1>4 DEF SkillInv, RunIsAlone, Undisturbed, Pipeline
  <2>. QED
    BY <2>1, <2>2 DEF RunIsAlone, OneWorker
<1>6. OneEvolution'
  BY DEF SkillInv, OneEvolution, InProgress, OneWorker, OneReporter
<1>7. HistoryIsSettled'
  <2> SUFFICES ASSUME OneWorker, OneReporter, Torn = {}
               PROVE  HistoryIsSettled'
    BY DEF HistoryIsSettled, OneWorker, OneReporter
  <2>1. \A e : Deploying(e)' <=> Deploying(e)
    BY <1>4, JobStays DEF Deploying, SkillInv, Pipeline, HasJob, At
  <2>. QED
    BY <2>1 DEF SkillInv, HistoryIsSettled
<1>. QED
  BY <1>1, <1>2, <1>3, <1>5, <1>6, <1>7 DEF SkillInv
-----------------------------------------------------------------------------
(* A worker's steps outside its pipeline *)

\* The records a step of worker w builds.
LEMMA GotoFacts ==
    ASSUME TypeOK, NEW w \in Workers, NEW at \in At
    PROVE  /\ Goto(w, at) \in WorkerRecord
           /\ Goto(w, at).at = at /\ Goto(w, at).job = worker[w].job
           /\ Goto(w, at).copy = worker[w].copy /\ Goto(w, at).active = worker[w].active
  BY DEF TypeOK, WorkerRecord, Goto

LEMMA NoAudit == AuditIsReal(NoRecord) /\ NoRecord \in EvolutionRecord
  BY DEF AuditIsReal, NoRecord, EvolutionRecord

LEMMA RestingFacts ==
    ASSUME NEW at \in At, NEW llm \in BOOLEAN
    PROVE  [Resting EXCEPT !.at = at] \in WorkerRecord /\ [Resting EXCEPT !.llm = llm] \in WorkerRecord
<1>1. "idle" \in At /\ 0 \in 0..MaxRetries + 2 /\ {} \in SUBSET Evos /\ 0 \in 0..MaxEvos
  BY SkillAssumption DEF At
<1>. QED
  BY <1>1, NoAudit DEF WorkerRecord, Resting

LEMMA RestedFacts ==
    ASSUME TypeOK, NEW w \in Workers
    PROVE  /\ Rested(w) \in WorkerRecord
           /\ Rested(w).at = "idle" /\ Rested(w).copy = NoRecord
           /\ Rested(w).active = worker[w].active
<1>1. /\ worker[w] \in WorkerRecord /\ "idle" \in At /\ 0 \in 0..MaxRetries + 2 /\ {} \in SUBSET Evos
      /\ 0 \in 0..MaxEvos
  BY SkillAssumption DEF TypeOK, At
<1>. QED
  BY <1>1, NoAudit DEF WorkerRecord, Rested, Resting

LEMMA FreshFacts ==
    /\ IsFiniteSet(Fresh) /\ Cardinality(Fresh) \in Nat /\ Cardinality(Fresh) <= MaxEvos
    /\ IsFiniteSet(Triggering) /\ Cardinality(Triggering) \in Nat
    /\ IsFiniteSet(Workers)
<1>1. IsFiniteSet(1..MaxEvos) /\ Cardinality(1..MaxEvos) = MaxEvos
  BY SkillAssumption, FS_Interval
<1>2. Fresh \in SUBSET (1..MaxEvos)
  BY DEF Fresh, Evos
<1>3. IsFiniteSet(Fresh) /\ Cardinality(Fresh) <= MaxEvos
  BY <1>1, <1>2, FS_Subset
<1>4. IsFiniteSet(Reporters) /\ Triggering \in SUBSET Reporters
  BY SkillAssumption DEF Triggering
<1>5. IsFiniteSet(Triggering)
  BY <1>4, FS_Subset
<1>. QED
  BY <1>3, <1>5, FS_CardinalityType, SkillAssumption

\* A live worker's step that leaves records and skill alone.
LEMMA WorkerQuiet ==
    ASSUME SkillInv, NEW w \in Workers, NEW n \in WorkerRecord, works(w, n),
           RowStep, UNCHANGED <<rec, skill, elapsed>>, cooldowns' \subseteq cooldowns,
           worker[w].at = "deployed" => "deploy" \in Torn,
           Alive(w), n.at \notin Pipeline,
           AuditIsReal(n.copy),
           n.active # 0 => Started(n.active),
           n.at = "enqueue" => n.active # 0,
           n.at \in HasJob => n.job \in Workflows /\ row'[n.job].status # "absent"
    PROVE  SkillInv'
<1>1. worker' = [worker EXCEPT ![w] = n] /\ UNCHANGED <<reporter, disturbed>>
  BY DEF works
<1>2. /\ worker'[w] = n
      /\ \A v \in Workers \ {w} : worker'[v] = worker[v]
      /\ worker' \in [Workers -> WorkerRecord]
  BY <1>1 DEF SkillInv, TypeOK
<1>3. TypeOK'
  BY <1>1, <1>2 DEF SkillInv, TypeOK, RowStep
<1>4. Known(w)'
  BY <1>2 DEF Known, Started
<1>5. OneWorker => \A v, u \in Workers : Alive(v)' /\ Alive(u)' => v = u
  BY <1>2 DEF SkillInv, RunIsAlone, Alive
<1>6. Triggering' = Triggering
  BY <1>1 DEF Triggering
<1>. QED
  BY <1>1, <1>2, <1>3, <1>4, <1>5, <1>6, QuietStep DEF SkillInv, NamesAreKnown

LEMMA NoRowStep ==
    ASSUME TypeOK, UNCHANGED <<row, of, lastStep>>
    PROVE  RowStep
  BY DEF TypeOK, StoreTypeOK, RowStep

LEMMA RecoverKeeps ==
    ASSUME SkillInv, NEW w \in Workers, Recover(w)
    PROVE  SkillInv'
<1> DEFINE n == Goto(w, "list")
<1>1. RowStep
  BY RecoverStep DEF Recover, works, SkillInv
<1>2. /\ n \in WorkerRecord /\ n.at = "list" /\ n.active = worker[w].active /\ n.copy = worker[w].copy
      /\ works(w, n) /\ Alive(w) /\ UNCHANGED <<rec, skill, elapsed, cooldowns>>
  BY GotoFacts DEF Recover, keepsRecords, SkillInv, Alive, At, Pipeline
<1> HIDE DEF n
<1>3. worker[w].at = "idle"
  BY DEF Recover
<1>. QED
  BY <1>1, <1>2, <1>3, WorkerQuiet DEF SkillInv, AuditsAreReal, NamesAreKnown, Known, Pipeline, HasJob, At

LEMMA AdoptedFacts ==
    ASSUME SkillInv, NEW w \in Workers, NEW e \in Adopted(w)
    PROVE  e \in 0..MaxEvos /\ (e # 0 => Started(e) /\ e \in Evos)
  BY SkillAssumption DEF SkillInv, TypeOK, WorkerRecord, NamesAreKnown, Known, Adopted, Started, InProgress,
     InProgressStatus, Runnable, Evos

LEMMA ListKeeps ==
    ASSUME SkillInv, NEW w \in Workers, ListPending(w)
    PROVE  SkillInv'
<1>1. PICK e \in Adopted(w), at \in {"enqueue", "claim"} :
        works(w, [worker[w] EXCEPT !.active = e, !.at = at]) /\ (at = "enqueue" => e # 0)
  BY DEF ListPending
<1> DEFINE n == [worker[w] EXCEPT !.active = e, !.at = at]
<1>2. /\ n \in WorkerRecord /\ n.at = at /\ n.active = e /\ n.copy = worker[w].copy
      /\ e # 0 => Started(e)
  BY <1>1, AdoptedFacts DEF SkillInv, TypeOK, WorkerRecord, At
<1>3. works(w, n)
  BY <1>1
<1> HIDE DEF n
<1>4. RowStep /\ worker[w].at = "list" /\ UNCHANGED <<rec, skill, elapsed, cooldowns>>
  BY <1>1, NoRowStep DEF ListPending, keepsRecords, works, SkillInv
<1>. QED
  BY <1>1, <1>2, <1>3, <1>4, WorkerQuiet DEF SkillInv, AuditsAreReal, Alive, Pipeline, HasJob, At

LEMMA EnqueueKeeps ==
    ASSUME SkillInv, NEW w \in Workers, Enqueue(w)
    PROVE  SkillInv'
<1> DEFINE free == {r \in Workflows : row[r].status = "absent"}
           wf == Min(free)
           n == Goto(w, "claim")
<1>1. wf \in Workflows /\ row[wf].status = "absent"
  <2>1. free \in SUBSET Nat /\ free # {}
    BY SkillAssumption DEF Enqueue
  <2>2. wf \in free
    BY <2>1, MinMember
  <2>. QED
    BY <2>2
<1>2. /\ enqueue(wf) /\ of' = [of EXCEPT ![wf] = worker[w].active]
      /\ works(w, n) /\ worker[w].at = "enqueue" /\ UNCHANGED <<rec, skill, elapsed, cooldowns>>
  BY DEF Enqueue, keepsRecords
<1>3. n \in WorkerRecord /\ n.at = "claim" /\ n.active = worker[w].active /\ n.copy = worker[w].copy
  BY GotoFacts DEF SkillInv, At
<1> HIDE DEF wf, n
<1>4. Started(worker[w].active) /\ worker[w].active \in 0..MaxEvos
  BY <1>2 DEF SkillInv, NamesAreKnown, Known, TypeOK, WorkerRecord
<1>5. /\ row' \in [Workflows -> WorkflowRecord] /\ row'[wf].status = "Requested"
      /\ of' \in [Workflows -> 0..MaxEvos] /\ of'[wf] = worker[w].active
      /\ \A x \in Workflows \ {wf} : row'[x] = row[x] /\ of'[x] = of[x]
  BY <1>1, <1>2, <1>4 DEF SkillInv, TypeOK, StoreTypeOK, WorkflowRecord, Status, enqueue
<1>6. RowStep
  BY <1>1, <1>2, <1>4, <1>5 DEF RowStep, SkillInv, TypeOK, StoreTypeOK, works, Started
<1>. QED
  BY <1>2, <1>3, <1>4, <1>6, WorkerQuiet DEF SkillInv, AuditsAreReal, Alive, Pipeline, HasJob, At
LEMMA ClaimKeeps ==
    ASSUME SkillInv, NEW w \in Workers, ClaimNext(w)
    PROVE  SkillInv'
<1>1. /\ worker[w].at = "claim" /\ UNCHANGED <<of, rec, skill, elapsed, cooldowns>>
      /\ TypeOK /\ Alive(w) /\ AuditIsReal(worker[w].copy)
      /\ worker[w].active # 0 => Started(worker[w].active)
  BY DEF ClaimNext, keepsRecords, SkillInv, Alive, AuditsAreReal, NamesAreKnown, Known
<1>2. ASSUME NEW wf \in Workflows, claim_next(w, wf),
             works(w, [worker[w] EXCEPT !.at = "renew", !.job = wf])
      PROVE  SkillInv'
  <2> DEFINE n == [worker[w] EXCEPT !.at = "renew", !.job = wf]
  <2>1. /\ n \in WorkerRecord /\ n.at = "renew" /\ n.job = wf
        /\ n.active = worker[w].active /\ n.copy = worker[w].copy
    BY <1>1 DEF TypeOK, WorkerRecord, At
  <2>2. works(w, n)
    BY <1>2
  <2> HIDE DEF n
  <2>3. row[wf].status # "absent"
    BY <1>2 DEF claim_next, Claimable
  <2>4. RowStep
    BY <1>1, <1>2, <2>3, StoreStep DEF works
  <2>5. row'[wf].status # "absent"
    BY <2>3, <2>4 DEF RowStep
  <2>. QED
    BY <1>1, <2>1, <2>2, <2>4, <2>5, WorkerQuiet DEF Pipeline
<1>3. ASSUME works(w, Goto(w, "tick")), UNCHANGED row
      PROVE  SkillInv'
  <2> DEFINE n == Goto(w, "tick")
  <2>1. /\ n \in WorkerRecord /\ n.at = "tick"
        /\ n.active = worker[w].active /\ n.copy = worker[w].copy
    BY <1>1, GotoFacts DEF At
  <2>2. works(w, n)
    BY <1>3
  <2> HIDE DEF n
  <2>3. RowStep
    BY <1>1, <1>3, NoRowStep DEF works
  <2>. QED
    BY <1>1, <2>1, <2>2, <2>3, WorkerQuiet DEF Pipeline, HasJob
<1>. QED
  BY <1>2, <1>3 DEF ClaimNext

\* A worker that has claimed a workflow moves on in its tick, or ends it.
LEMMA TickMoves ==
    ASSUME SkillInv, NEW w \in Workers, NEW n \in WorkerRecord, works(w, n),
           worker[w].at \in HasJob \ {"deployed"}, RowStep,
           UNCHANGED <<rec, skill, elapsed, cooldowns>>,
           n.at \notin Pipeline, n.at # "enqueue",
           n.job = worker[w].job \/ n.at \notin HasJob,
           AuditIsReal(n.copy), n.active = worker[w].active
    PROVE  SkillInv'
<1>1. /\ worker[w].job \in Workflows /\ row'[worker[w].job].status # "absent"
      /\ worker[w].active # 0 => Started(worker[w].active)
  BY DEF SkillInv, NamesAreKnown, Known, RowStep
<1>2. Alive(w)
  BY DEF Alive, HasJob
<1>. QED
  BY <1>1, <1>2, WorkerQuiet

LEMMA JobIsKnown ==
    ASSUME SkillInv, NEW w \in Workers, worker[w].at \in HasJob
    PROVE  /\ worker[w].job \in Workflows /\ row[worker[w].job].status # "absent"
           /\ Started(Job(w)) /\ Job(w) \in Evos /\ AuditIsReal(worker[w].copy)
           /\ AuditIsReal(rec[Job(w)]) /\ rec[Job(w)] \in EvolutionRecord
           /\ rec[Job(w)].status # "absent"
  BY DEF SkillInv, NamesAreKnown, Known, Started, Job, AuditsAreReal, TypeOK

LEMMA RenewKeeps ==
    ASSUME SkillInv, NEW w \in Workers, RenewLease(w)
    PROVE  SkillInv'
<1>1. /\ worker[w].at \in {"renew", "renewAfter"} /\ UNCHANGED <<of, rec, skill, elapsed, cooldowns>>
      /\ worker[w].at \in HasJob \ {"deployed"} /\ TypeOK
  BY DEF RenewLease, keepsRecords, HasJob, At, SkillInv
<1>2. PICK at \in {"process", "complete", "idle"} :
        \/ renew_lease(w, worker[w].job) /\ works(w, Goto(w, at))
        \/ works(w, Rested(w)) /\ UNCHANGED row
  BY DEF RenewLease
<1>3. RowStep
  BY <1>1, <1>2, JobIsKnown, StoreStep DEF works
<1>4. PICK n \in WorkerRecord :
        /\ works(w, n) /\ n.at \notin Pipeline /\ n.at # "enqueue" /\ n.active = worker[w].active
        /\ n.job = worker[w].job \/ n.at \notin HasJob
        /\ AuditIsReal(n.copy)
  BY <1>1, <1>2, JobIsKnown, GotoFacts, RestedFacts, NoAudit DEF At, Pipeline, HasJob
<1>. QED
  BY <1>1, <1>3, <1>4, TickMoves

LEMMA LostKeeps ==
    ASSUME SkillInv, NEW w \in Workers, LeaseLost(w)
    PROVE  SkillInv'
<1> DEFINE n == Rested(w)
<1>1. /\ worker[w].at \in {"gen", "regen", "audit"} /\ UNCHANGED <<row, of, rec, skill, elapsed, cooldowns>>
      /\ TypeOK /\ works(w, n)
  BY DEF LeaseLost, drives, SkillInv
<1>4. worker[w].at \in HasJob \ {"deployed"}
  BY <1>1 DEF HasJob, At, Pipeline
<1>2. RowStep
  BY <1>1, NoRowStep DEF works
<1>3. /\ n \in WorkerRecord /\ n.at = "idle" /\ AuditIsReal(n.copy) /\ n.active = worker[w].active
  BY <1>1, RestedFacts, NoAudit
<1> HIDE DEF n
<1>. QED
  BY <1>1, <1>2, <1>3, <1>4, TickMoves DEF Pipeline, HasJob

LEMMA CompleteKeeps ==
    ASSUME SkillInv, NEW w \in Workers, CompleteStep(w)
    PROVE  SkillInv'
<1>1. /\ worker[w].at = "complete" /\ UNCHANGED <<row, of, rec, skill, elapsed, cooldowns>>
      /\ worker[w].at \in HasJob \ {"deployed"} /\ TypeOK
      /\ works(w, Goto(w, "status")) \/ works(w, Rested(w))
  BY DEF CompleteStep, keepsRecords, HasJob, At, SkillInv
<1>2. RowStep
  BY <1>1, NoRowStep DEF works
<1>3. PICK n \in WorkerRecord :
        /\ works(w, n) /\ n.at \notin Pipeline /\ n.at # "enqueue" /\ n.active = worker[w].active
        /\ n.job = worker[w].job \/ n.at \notin HasJob
        /\ AuditIsReal(n.copy)
  BY <1>1, JobIsKnown, GotoFacts, RestedFacts, NoAudit DEF At, Pipeline, HasJob
<1>. QED
  BY <1>1, <1>2, <1>3, TickMoves

LEMMA UpdateKeeps ==
    ASSUME SkillInv, NEW w \in Workers, UpdateStatus(w)
    PROVE  SkillInv'
<1> DEFINE n == Goto(w, "release")
<1>1. /\ worker[w].at = "status" /\ UNCHANGED <<of, rec, skill, elapsed, cooldowns>>
      /\ worker[w].at \in HasJob \ {"deployed"} /\ TypeOK /\ works(w, n)
  BY DEF UpdateStatus, keepsRecords, HasJob, At, SkillInv
<1>2. PICK new \in {"Observing", "Failed"} :
        \/ UNCHANGED row
        \/ update_workflow_status_if_owned(w, worker[w].job, new)
        \/ defer_workflow_if_owned(w, worker[w].job)
        \/ schedule_retry_if_owned(w, worker[w].job)
  BY DEF UpdateStatus, StatusFor
<1>3. RowStep
  BY <1>1, <1>2, JobIsKnown, StoreStep DEF works
<1>4. /\ n \in WorkerRecord /\ n.at = "release" /\ n.job = worker[w].job /\ AuditIsReal(n.copy)
      /\ n.active = worker[w].active
  BY <1>1, GotoFacts, JobIsKnown DEF At
<1> HIDE DEF n
<1>. QED
  BY <1>1, <1>3, <1>4, TickMoves DEF Pipeline

LEMMA ReleaseKeeps ==
    ASSUME SkillInv, NEW w \in Workers, Release(w)
    PROVE  SkillInv'
<1> DEFINE n == [Rested(w) EXCEPT !.at = "tick"]
<1>1. /\ worker[w].at = "release" /\ UNCHANGED <<of, rec, skill, elapsed, cooldowns>>
      /\ worker[w].at \in HasJob \ {"deployed"} /\ TypeOK /\ works(w, n)
      /\ release_lease(w, worker[w].job)
  BY DEF Release, keepsRecords, HasJob, At, SkillInv
<1>2. RowStep
  BY <1>1, JobIsKnown, StoreStep DEF works
<1>3. /\ n \in WorkerRecord /\ n.at = "tick" /\ n.copy = NoRecord /\ n.active = worker[w].active
  BY <1>1, RestedFacts DEF WorkerRecord, At
<1> HIDE DEF n
<1>. QED
  BY <1>1, <1>2, <1>3, NoAudit, TickMoves DEF Pipeline, HasJob

\* A row is promoted only when its evolution is recorded as completed.
LEMMA FinalizeKeeps ==
    ASSUME SkillInv, NEW w \in Workers, Finalize(w)
    PROVE  SkillInv'
<1> DEFINE n == Rested(w)
<1>1. /\ worker[w].at = "finalize" /\ UNCHANGED <<of, rec, skill, elapsed, cooldowns, lastStep>>
      /\ TypeOK /\ works(w, n) /\ Alive(w)
      /\ worker[w].active # 0 => Started(worker[w].active)
  BY DEF Finalize, keepsRecords, SkillInv, works, Alive, NamesAreKnown, Known
<1>2. \A wf \in Workflows :
        /\ row'[wf] \in WorkflowRecord
        /\ row'[wf].status = "absent" <=> row[wf].status = "absent"
        /\ row'[wf].status = "Promoted" =>
             row[wf].status # "absent" /\ (row[wf].status = "Promoted" \/ rec[of[wf]].status = "Completed")
  BY <1>1 DEF Finalize, TypeOK, StoreTypeOK, WorkflowRecord, Status
<1>3. RowStep
  <2>1. row' \in [Workflows -> WorkflowRecord]
    BY <1>2 DEF Finalize
  <2>. QED
    BY <1>1, <1>2, <2>1 DEF RowStep, TypeOK, StoreTypeOK
<1>4. n \in WorkerRecord /\ n.at = "idle" /\ n.copy = NoRecord /\ n.active = worker[w].active
  BY <1>1, RestedFacts
<1> HIDE DEF n
<1>. QED
  BY <1>1, <1>3, <1>4, NoAudit, WorkerQuiet DEF Pipeline, HasJob

\* A process that dies forgets everything, unless it is between the version and
\* the record.
LEMMA CrashKeeps ==
    ASSUME SkillInv, NEW w \in Workers, Crash(w)
    PROVE  SkillInv'
<1> DEFINE n == [Resting EXCEPT !.at = "dead"]
<1>1. /\ UNCHANGED <<row, of, rec, skill, elapsed, lastStep>> /\ cooldowns' \subseteq cooldowns
      /\ worker[w].at = "deployed" => "deploy" \in Torn
      /\ works(w, n) /\ Alive(w) /\ TypeOK
  BY DEF Crash, SkillInv, works
<1>2. RowStep
  BY <1>1, NoRowStep
<1>3. n \in WorkerRecord /\ n.at = "dead" /\ n.copy = NoRecord /\ n.active = 0
  BY RestingFacts DEF At, Resting
<1> HIDE DEF n
<1>. QED
  BY <1>1, <1>2, <1>3, NoAudit, WorkerQuiet DEF Pipeline, HasJob

\* A process starts only when fewer than MaxLive are alive.
LEMMA RestartKeeps ==
    ASSUME SkillInv, NEW w \in Workers, Restart(w)
    PROVE  SkillInv'
<1>1. PICK llm \in BOOLEAN : works(w, [Resting EXCEPT !.llm = llm])
  BY DEF Restart
<1> DEFINE n == [Resting EXCEPT !.llm = llm]
<1>2. /\ UNCHANGED <<row, of, rec, skill, elapsed, cooldowns, lastStep, reporter, disturbed>>
      /\ worker[w].at = "down" /\ TypeOK /\ worker' = [worker EXCEPT ![w] = n]
  BY <1>1 DEF Restart, SkillInv, works, keepsRecords
<1>3. RowStep
  BY <1>2, NoRowStep
<1>4. n \in WorkerRecord /\ n.at = "idle" /\ n.copy = NoRecord /\ n.active = 0
  BY RestingFacts DEF At, Resting
<1> HIDE DEF n
<1>5. /\ worker'[w] = n
      /\ \A v \in Workers \ {w} : worker'[v] = worker[v]
      /\ worker' \in [Workers -> WorkerRecord]
  BY <1>2, <1>4 DEF TypeOK
<1>6. TypeOK'
  BY <1>2, <1>3, <1>5 DEF TypeOK, RowStep
<1>7. Known(w)'
  BY <1>4, <1>5 DEF Known, HasJob
<1>8. OneWorker => \A v \in Workers : ~Alive(v)
  <2> DEFINE live == {v \in Workers : Alive(v)}
  <2>1. Cardinality(live) < MaxLive
    BY DEF Restart
  <2>2. IsFiniteSet(live)
    BY FreshFacts, FS_Subset
  <2>3. Cardinality(live) \in Nat
    BY <2>2, FS_CardinalityType
  <2>4. OneWorker => Cardinality(live) = 0
    BY <2>1, <2>3 DEF OneWorker
  <2>. QED
    BY <2>2, <2>4, FS_EmptySet
<1>9. OneWorker => \A v, u \in Workers : Alive(v)' /\ Alive(u)' => v = u
  BY <1>5, <1>8 DEF Alive
<1>10. Triggering' = Triggering
  BY <1>2 DEF Triggering
<1>. QED
  BY <1>2, <1>3, <1>4, <1>5, <1>6, <1>7, <1>9, <1>10, NoAudit, QuietStep
     DEF SkillInv, NamesAreKnown, Pipeline
-----------------------------------------------------------------------------
(* The user, the clock and the reporters *)

LEMMA EnvironmentKeeps ==
    ASSUME SkillInv, RowStep, UNCHANGED <<worker, reporter, rec, skill>>,
           cooldowns' \subseteq cooldowns, elapsed' \subseteq Evos,
           disturbed' = disturbed \/ (disturbed' = disturbed + 1 /\ Room)
    PROVE  SkillInv'
<1>1. /\ disturbed \in 0..MaxEvos
      /\ disturbed + Cardinality(Triggering) <= Cardinality(Fresh)
  BY DEF SkillInv, TypeOK, NamesAreKnown
<1>2. /\ disturbed' \in 0..MaxEvos
      /\ disturbed' + Cardinality(Triggering) <= Cardinality(Fresh)
  BY <1>1, FreshFacts, SkillAssumption DEF Room, Triggering
<1>3. TypeOK'
  BY <1>2 DEF SkillInv, TypeOK, RowStep
<1>4. Triggering' = Triggering
  BY DEF Triggering
<1>5. \A i \in Reporters : reporter[i].at = "save" => Started(reporter[i].evo)
  BY DEF SkillInv, NamesAreKnown
<1>6. OneWorker => \A v, w \in Workers : Alive(v)' /\ Alive(w)' => v = w
  BY DEF SkillInv, RunIsAlone, Alive
<1>. QED
  BY <1>2, <1>3, <1>4, <1>5, <1>6, QuietStep

LEMMA HeartbeatKeeps ==
    ASSUME SkillInv, NEW w \in Workers, Heartbeat(w)
    PROVE  SkillInv'
<1>1. worker[w].at \in HasJob /\ TypeOK
  BY DEF Heartbeat, SkillInv, HasJob, At, Pipeline
<1>2. RowStep
  BY <1>1, JobIsKnown, StoreStep DEF Heartbeat
<1>3. elapsed \subseteq Evos
  BY <1>1 DEF TypeOK
<1>. QED
  BY <1>2, <1>3, EnvironmentKeeps DEF Heartbeat, keepsRecords

LEMMA UserKeeps ==
    ASSUME SkillInv, NEW wf \in Workflows, Cancel(wf) \/ Retry(wf) \/ LeaseExpires(wf)
    PROVE  SkillInv'
<1>1. RowStep
  BY UserRowStep DEF Cancel, Retry, LeaseExpires, onlyRow, SkillInv
<1>2. elapsed \subseteq Evos
  BY DEF SkillInv, TypeOK
<1>. QED
  BY <1>1, <1>2, EnvironmentKeeps DEF Cancel, Retry, LeaseExpires, onlyRow, keepsRecords

LEMMA ClockKeeps ==
    ASSUME SkillInv, CooldownEnds \/ \E e \in Evos : WindowElapses(e)
    PROVE  SkillInv'
<1>1. RowStep
  BY NoRowStep DEF CooldownEnds, WindowElapses, storeVars, SkillInv
<1>2. elapsed' \subseteq Evos /\ cooldowns' \subseteq cooldowns
  BY DEF SkillInv, TypeOK, CooldownEnds, WindowElapses
<1>. QED
  BY <1>1, <1>2, EnvironmentKeeps DEF CooldownEnds, WindowElapses

\* A reporter's step that leaves the records alone.
LEMMA ReporterKeeps ==
    ASSUME SkillInv, NEW i \in Reporters, NEW n \in ReporterRecord, reports(i, n), UNCHANGED rec,
           reporter[i].at = "trigger" => n.at = "trigger",
           n.at = "trigger" => reporter[i].at = "trigger" \/ (Room /\ InProgress = {}),
           n.at = "save" => Started(n.evo)
    PROVE  SkillInv'
<1>1. /\ reporter' = [reporter EXCEPT ![i] = n]
      /\ UNCHANGED <<row, lastStep, of, skill, worker, cooldowns, elapsed, disturbed>>
  BY DEF reports, storeVars
<1>2. /\ reporter'[i] = n
      /\ \A j \in Reporters \ {i} : reporter'[j] = reporter[j]
      /\ reporter' \in [Reporters -> ReporterRecord]
  BY <1>1 DEF SkillInv, TypeOK
<1>3. RowStep
  BY <1>1, NoRowStep DEF SkillInv
<1>4. TypeOK'
  BY <1>1, <1>2 DEF SkillInv, TypeOK, StoreTypeOK
<1>5. disturbed' + Cardinality(Triggering') <= Cardinality(Fresh)
  <2>1. /\ disturbed \in Nat /\ disturbed' = disturbed
        /\ disturbed + Cardinality(Triggering) <= Cardinality(Fresh)
    BY <1>1 DEF SkillInv, TypeOK, NamesAreKnown
  <2>2. CASE n.at = "trigger" /\ reporter[i].at # "trigger"
    <3>1. Triggering' = Triggering \cup {i} /\ i \notin Triggering
      BY <1>2, <2>2 DEF Triggering
    <3>2. Cardinality(Triggering') = Cardinality(Triggering) + 1
      BY <3>1, FreshFacts, FS_AddElement
    <3>. QED
      BY <2>1, <2>2, <3>2, FreshFacts DEF Room, Triggering
  <2>3. CASE n.at = "trigger" <=> reporter[i].at = "trigger"
    <3>1. Triggering' = Triggering
      BY <1>2, <2>3 DEF Triggering
    <3>. QED
      BY <2>1, <3>1
  <2>. QED
    BY <2>2, <2>3
<1>6. OneWorker => \A v, w \in Workers : Alive(v)' /\ Alive(w)' => v = w
  BY <1>1 DEF SkillInv, RunIsAlone, Alive
<1>7. \A j \in Reporters :
        /\ reporter'[j].at = "save" => Started(reporter'[j].evo)
        /\ reporter'[j].at = "trigger" => reporter[j].at = "trigger" \/ InProgress = {}
  BY <1>2 DEF SkillInv, NamesAreKnown
<1>. QED
  BY <1>1, <1>3, <1>4, <1>5, <1>6, <1>7, QuietStep

LEMMA OnDiskFacts == OnDisk \in 0..MaxEvos
<1>1. CASE InProgress = {}
  BY <1>1, SkillAssumption DEF OnDisk
<1>2. CASE InProgress # {}
  <2>1. InProgress \in SUBSET (0..MaxEvos)
    BY DEF InProgress, Evos
  <2>2. Max(InProgress) \in InProgress
    BY <1>2, <2>1, MaxMember, SkillAssumption
  <2>. QED
    BY <1>2, <2>1, <2>2 DEF OnDisk
<1>. QED
  BY <1>1, <1>2

LEMMA ReportErrorKeeps ==
    ASSUME SkillInv, NEW i \in Reporters, ReportError(i)
    PROVE  SkillInv'
<1> DEFINE triggers == record_error(i)
           starts == triggers /\ InProgress = {}
           n == [at |-> IF starts THEN "trigger" ELSE "call", evo |-> 0, error |-> TRUE,
                 active |-> OnDisk, triggered |-> reporter[i].triggered \/ triggers]
<1>1. reporter[i].triggered \in BOOLEAN
  BY DEF SkillInv, TypeOK, ReporterRecord
<1>2. (reporter[i].triggered \/ triggers) \in BOOLEAN
  OBVIOUS
<1>3. n \in ReporterRecord
  BY <1>2, OnDiskFacts, SkillAssumption DEF ReporterRecord
<1>4. /\ n.at = "trigger" => Room /\ InProgress = {}
      /\ n.at # "save" /\ reporter[i].at = "idle" /\ reports(i, n) /\ UNCHANGED rec
  BY DEF ReportError
<1> HIDE DEF n
<1>. QED
  BY <1>3, <1>4, ReporterKeeps

LEMMA RequestKeeps ==
    ASSUME SkillInv, NEW i \in Reporters, RequestEvolution(i) \/ ErrorWindowPasses(i)
    PROVE  SkillInv'
<1>1. reporter[i] \in ReporterRecord /\ (reporter[i].at = "save" => Started(reporter[i].evo))
  BY DEF SkillInv, TypeOK, NamesAreKnown
<1>4. 0 \in 0..MaxEvos
  BY SkillAssumption
<1>2. CASE RequestEvolution(i)
  <2> DEFINE n == [reporter[i] EXCEPT !.at = "trigger", !.active = 0]
  <2>1. n \in ReporterRecord /\ n.at = "trigger"
    BY <1>1, <1>4 DEF ReporterRecord
  <2>2. reports(i, n) /\ UNCHANGED rec /\ Room /\ InProgress = {} /\ reporter[i].at = "idle"
    BY <1>2 DEF RequestEvolution
  <2> HIDE DEF n
  <2>. QED
    BY <2>1, <2>2, ReporterKeeps
<1>3. CASE ErrorWindowPasses(i)
  <2> DEFINE n == [reporter[i] EXCEPT !.triggered = FALSE]
  <2>1. n \in ReporterRecord /\ n.at = reporter[i].at /\ n.evo = reporter[i].evo
    BY <1>1 DEF ReporterRecord
  <2>2. reports(i, n) /\ UNCHANGED rec
    BY <1>3 DEF ErrorWindowPasses
  <2> HIDE DEF n
  <2>. QED
    BY <1>1, <2>1, <2>2, ReporterKeeps
<1>. QED
  BY <1>2, <1>3
LEMMA CountKeeps ==
    ASSUME SkillInv, NEW i \in Reporters, CountCall(i)
    PROVE  SkillInv'
<1> DEFINE e == IF reporter[i].active # 0 THEN reporter[i].active ELSE OnDisk
           counts == e # 0 /\ rec[e].status = "Observing"
           n == [reporter[i] EXCEPT !.at = IF counts THEN "save" ELSE "idle",
                                    !.active = e,
                                    !.evo = IF counts THEN e ELSE 0,
                                    !.error = counts /\ reporter[i].at = "call"]
<1>1. reporter[i] \in ReporterRecord /\ e \in 0..MaxEvos /\ 0 \in 0..MaxEvos
  BY OnDiskFacts, SkillAssumption DEF SkillInv, TypeOK, ReporterRecord
<1>2. (counts /\ reporter[i].at = "call") \in BOOLEAN
  OBVIOUS
<1>3. counts => Started(e)
  BY <1>1, SkillAssumption DEF Started, Evos
<1>4. reporter[i].at # "trigger" /\ reports(i, n) /\ UNCHANGED rec
  BY DEF CountCall
<1> HIDE DEF e
<1>5. n \in ReporterRecord
  BY <1>1, <1>2 DEF ReporterRecord
<1>6. n.at # "trigger" /\ (n.at = "save" => counts /\ n.evo = e)
  BY <1>1 DEF ReporterRecord
<1> HIDE DEF n
<1>. QED
  BY <1>3, <1>4, <1>5, <1>6, ReporterKeeps

\* A record appears for the trigger that waits for it, and there is one left.
LEMMA TriggerKeeps ==
    ASSUME SkillInv, NEW i \in Reporters, TriggerEvolution(i)
    PROVE  SkillInv'
<1> DEFINE e == Min(Fresh)
           n == [reporter[i] EXCEPT !.at = IF reporter[i].error THEN "call" ELSE "idle", !.active = e]
<1>1. e \in Fresh /\ e \in Evos /\ e \in 0..MaxEvos
  <2>1. i \in Triggering
    BY DEF TriggerEvolution, Triggering
  <2>2. Cardinality(Triggering) # 0
    BY <2>1, FreshFacts, FS_EmptySet
  <2>3. Cardinality(Fresh) # 0
    BY <2>2, FreshFacts DEF SkillInv, TypeOK, NamesAreKnown
  <2>4. Fresh # {} /\ Fresh \in SUBSET Nat
    BY <2>3, FS_EmptySet DEF Fresh, Evos
  <2>5. Min(Fresh) \in Fresh
    BY <2>4, MinMember
  <2>. QED
    BY <2>5, SkillAssumption DEF Fresh, Evos
<1>2. /\ reports(i, n) /\ reporter[i].at = "trigger"
      /\ rec' = [rec EXCEPT ![e].status = "Triggered"]
  BY DEF TriggerEvolution
<1> HIDE DEF e
<1>3. /\ reporter' = [reporter EXCEPT ![i] = n]
      /\ UNCHANGED <<row, lastStep, of, skill, worker, cooldowns, elapsed, disturbed>>
  BY <1>2 DEF reports, storeVars
<1>4. n \in ReporterRecord /\ n.at \in {"call", "idle"}
  BY <1>1 DEF SkillInv, TypeOK, ReporterRecord
<1> HIDE DEF n
<1>5. /\ reporter'[i] = n
      /\ \A j \in Reporters \ {i} : reporter'[j] = reporter[j]
      /\ reporter' \in [Reporters -> ReporterRecord]
  BY <1>3, <1>4 DEF SkillInv, TypeOK
<1>6. /\ \A f \in Evos \ {e} : rec'[f] = rec[f]
      /\ rec' \in [Evos -> EvolutionRecord]
      /\ rec[e].status = "absent" /\ rec'[e].status = "Triggered"
      /\ rec'[e].audit = rec[e].audit /\ rec'[e].patch = rec[e].patch
  BY <1>1, <1>2 DEF SkillInv, TypeOK, EvolutionRecord, InProgressStatus, Runnable, Fresh
<1>7. TypeOK'
  BY <1>3, <1>5, <1>6 DEF SkillInv, TypeOK, StoreTypeOK
<1>8. AuditsAreReal'
  BY <1>1, <1>3, <1>6 DEF SkillInv, AuditsAreReal, AuditIsReal
<1>9. HistoryIsATree'
  BY <1>3 DEF SkillInv, HistoryIsATree
<1>10. \A f : Started(f) => Started(f)' /\ f # e /\ rec'[f] = rec[f]
  BY <1>6 DEF Started
<1>11. NamesAreKnown'
  <2>1. Fresh' = Fresh \ {e} /\ e \in Fresh
    BY <1>1, <1>6 DEF Fresh
  <2>2. Triggering' = Triggering \ {i} /\ i \in Triggering
    BY <1>2, <1>4, <1>5 DEF Triggering
  <2>3. Cardinality(Fresh') = Cardinality(Fresh) - 1 /\ Cardinality(Triggering') = Cardinality(Triggering) - 1
    BY <2>1, <2>2, FreshFacts, FS_RemoveElement
  <2>4. disturbed' + Cardinality(Triggering') <= Cardinality(Fresh')
    BY <1>3, <2>3, FreshFacts DEF SkillInv, TypeOK, NamesAreKnown
  <2>5. \A w \in Workers : Known(w)'
    BY <1>3, <1>10 DEF SkillInv, NamesAreKnown, Known
  <2>. QED
    BY <1>3, <1>4, <1>5, <1>10, <2>4, <2>5 DEF SkillInv, NamesAreKnown
<1>12. \A w \in Workers : worker[w].at \in HasJob => Job(w)' = Job(w) /\ Started(Job(w))
  BY <1>3, JobIsKnown DEF Job
<1>13. RunIsAlone'
  <2>1. ASSUME OneWorker, "call" \notin Torn PROVE PromotedWasCompleted'
    BY <1>3, <1>10, <2>1 DEF SkillInv, NamesAreKnown, RunIsAlone, PromotedWasCompleted
  <2>2. ASSUME OneWorker, "call" \notin Torn, NEW w \in Workers PROVE Undisturbed(w)'
    <3>1. worker'[w] = worker[w] /\ Undisturbed(w)
      BY <1>3, <2>2 DEF SkillInv, RunIsAlone
    <3>2. worker[w].at \in Pipeline => Job(w)' = Job(w) /\ rec'[Job(w)] = rec[Job(w)]
      BY <1>10, <1>12 DEF Pipeline, HasJob, At
    <3>. QED
      BY <3>1, <3>2 DEF Undisturbed, Pipeline
  <2>. QED
    BY <1>3, <2>1, <2>2 DEF SkillInv, RunIsAlone, OneWorker, Alive
<1>14. OneEvolution'
  BY <1>2, <1>4, <1>5, <1>6 DEF SkillInv, OneEvolution, InProgress, OneWorker, OneReporter
<1>15. HistoryIsSettled'
  <2> SUFFICES ASSUME OneWorker, OneReporter, Torn = {}
               PROVE  HistoryIsSettled'
    BY DEF HistoryIsSettled, OneWorker, OneReporter
  <2>1. \A f : Deploying(f)' <=> Deploying(f)
    BY <1>3, <1>12, HasJobs DEF Deploying
  <2>2. \A f \in Evos :
          /\ rec'[f].status = "Observing" <=> rec[f].status = "Observing"
          /\ rec[f].status = "Completed" => rec'[f].status = "Completed"
    BY <1>6
  <2>. QED
    BY <1>3, <2>1, <2>2, HistoryStays
<1>. QED
  BY <1>7, <1>8, <1>9, <1>11, <1>13, <1>14, <1>15 DEF SkillInv
\* A counted call changes the failure rate, and only the rate unless the
\* observation can end while it is counted.
LEMMA SaveKeeps ==
    ASSUME SkillInv, NEW i \in Reporters, SaveCall(i)
    PROVE  SkillInv'
<1> DEFINE e == reporter[i].evo
           n == [reporter[i] EXCEPT !.at = "idle", !.evo = 0, !.error = FALSE]
<1>1. reports(i, n) /\ reporter[i].at = "save" /\ Started(e) /\ e \in Evos
  BY DEF SaveCall, SkillInv, NamesAreKnown, Started
<1>2. n \in ReporterRecord /\ n.at = "idle"
  <2>1. 0 \in 0..MaxEvos
    BY SkillAssumption
  <2>. QED
    BY <2>1 DEF SkillInv, TypeOK, ReporterRecord
<1>3. CASE UNCHANGED rec
  <2> HIDE DEF n
  <2>. QED
    BY <1>1, <1>2, <1>3, ReporterKeeps
<1>4. ASSUME NEW rate \in {"low", "high"},
             rec' = [rec EXCEPT ![e].rate = rate, ![e].status = "Observing"],
             rec[e].status = "Observing" \/ "call" \in Torn
      PROVE  SkillInv'
  <2> HIDE DEF e, n
  <2>1. /\ \A f \in Evos \ {e} : rec'[f] = rec[f]
        /\ rec' \in [Evos -> EvolutionRecord]
        /\ rec'[e].status = "Observing" /\ rec[e].status # "absent"
        /\ "call" \notin Torn => rec[e].status = "Observing"
        /\ rec'[e].audit = rec[e].audit /\ rec'[e].patch = rec[e].patch
    BY <1>1, <1>4 DEF SkillInv, TypeOK, EvolutionRecord, InProgressStatus, Started
  <2>2. /\ reporter' = [reporter EXCEPT ![i] = n]
        /\ UNCHANGED <<row, lastStep, of, skill, worker, cooldowns, elapsed, disturbed>>
    BY <1>1 DEF reports, storeVars
  <2>3. /\ reporter'[i] = n
        /\ \A j \in Reporters \ {i} : reporter'[j] = reporter[j]
        /\ reporter' \in [Reporters -> ReporterRecord]
    BY <1>2, <2>2 DEF SkillInv, TypeOK
  <2>4. TypeOK'
    BY <2>1, <2>2, <2>3 DEF SkillInv, TypeOK, StoreTypeOK
  <2>5. AuditsAreReal'
    BY <2>1, <2>2 DEF SkillInv, AuditsAreReal, AuditIsReal
  <2>6. HistoryIsATree'
    BY <2>2 DEF SkillInv, HistoryIsATree
  <2>7. NamesAreKnown'
    <3>1. Fresh' = Fresh /\ Triggering' = Triggering
      BY <1>1, <1>2, <2>1, <2>3 DEF Fresh, Triggering
    <3>2. \A f : Started(f) => Started(f)'
      BY <2>1 DEF Started
    <3>3. \A w \in Workers : Known(w)'
      BY <2>2, <3>2 DEF SkillInv, NamesAreKnown, Known
    <3>. QED
      BY <1>2, <2>2, <2>3, <3>1, <3>2, <3>3 DEF SkillInv, NamesAreKnown
  <2>8. \A w \in Workers : worker[w].at \in Pipeline => Job(w)' = Job(w) /\ Job(w) \in Evos
    BY <2>2, JobIsKnown, HasJobs DEF Job
  <2>9. RunIsAlone'
    <3>1. ASSUME OneWorker, "call" \notin Torn PROVE PromotedWasCompleted'
      BY <2>1, <2>2, <3>1 DEF SkillInv, NamesAreKnown, Started, RunIsAlone, PromotedWasCompleted
    <3>2. ASSUME OneWorker, "call" \notin Torn, NEW w \in Workers PROVE Undisturbed(w)'
      <4>1. Undisturbed(w) /\ worker'[w] = worker[w]
        BY <2>2, <3>2 DEF SkillInv, RunIsAlone
      <4>2. worker[w].at \in Pipeline => Job(w)' = Job(w) /\ rec'[Job(w)] = rec[Job(w)]
        BY <2>1, <2>8, <3>2, <4>1 DEF Undisturbed, Runnable
      <4>. QED
        BY <4>1, <4>2 DEF Undisturbed, Pipeline
    <3>. QED
      BY <2>2, <3>1, <3>2 DEF SkillInv, RunIsAlone, OneWorker, Alive
  <2>10. OneEvolution'
    <3>1. "call" \notin Torn => InProgress' = InProgress
      BY <2>1 DEF InProgress
    <3>. QED
      BY <1>2, <2>3, <3>1 DEF SkillInv, OneEvolution, OneWorker, OneReporter
  <2>11. HistoryIsSettled'
    <3> SUFFICES ASSUME OneWorker, OneReporter, Torn = {}
                 PROVE  HistoryIsSettled'
      BY DEF HistoryIsSettled, OneWorker, OneReporter
    <3>1. \A f : Deploying(f)' <=> Deploying(f)
      BY <2>2, <2>8, HasJobs DEF Deploying
    <3>2. \A f \in Evos : rec'[f].status = rec[f].status
      BY <2>1
    <3>. QED
      BY <2>2, <3>1, <3>2, HistoryStays
  <2>. QED
    BY <2>4, <2>5, <2>6, <2>7, <2>9, <2>10, <2>11 DEF SkillInv
<1>5. rec[e].rate \in {"none", "low", "high"}
  BY <1>1 DEF SkillInv, TypeOK, EvolutionRecord
<1>6. RateAfter(rec[e].rate, reporter[i].error) \subseteq {"low", "high"}
  BY <1>5 DEF RateAfter
<1>. QED
  BY <1>3, <1>4, <1>6 DEF SaveCall

-----------------------------------------------------------------------------
(* The pipeline *)

\* ensure_baseline records what is live, and changes nothing else.
LEMMA BaselineFacts ==
    ASSUME SkillInv, NEW s, s = WithBaseline(skill)
    PROVE  \/ s = skill
           \/ /\ skill.versions = <<>> /\ skill.live = Baseline
              /\ s = [live |-> Baseline, current |-> 1,
                      versions |-> <<[content |-> Baseline, parent |-> 1]>>]
<1>1. CASE skill.versions = <<>> /\ skill.live # Missing
  <2>1. skill.live = Baseline /\ skill.current = 1
    BY <1>1 DEF SkillInv, HistoryIsATree
  <2>2. s = Versioned(skill, skill.live)
    BY <1>1 DEF WithBaseline
  <2>3. Append(<<>>, [content |-> Baseline, parent |-> 1]) = <<[content |-> Baseline, parent |-> 1]>>
    OBVIOUS
  <2>4. Len(<<>>) + 1 = 1
    OBVIOUS
  <2>. QED
    BY <1>1, <2>1, <2>2, <2>3, <2>4 DEF Versioned
<1>2. CASE ~(skill.versions = <<>> /\ skill.live # Missing)
  BY <1>2 DEF WithBaseline
<1>. QED
  BY <1>1, <1>2

\* A step of the pipeline rewrites the record of its evolution and may record
\* the baseline, but deploys nothing.
LEMMA PipelineKeeps ==
    ASSUME SkillInv, NEW w \in Workers, NEW n \in WorkerRecord, drives(w, n),
           UNCHANGED skill \/ skill' = WithBaseline(skill),
           worker[w].at \in (Pipeline \cup {"process"}) \ {"deployed"},
           worker[w].at = "process" => rec[Job(w)].status \in Runnable,
           n.at \in HasJob \ {"deployed"}, n.at # "enqueue", n.job = worker[w].job,
           n.active \in {0, worker[w].active}, AuditIsReal(n.copy),
           NEW r \in EvolutionRecord, rec' = [rec EXCEPT ![Job(w)] = r],
           r.status # "absent", AuditIsReal(r),
           rec[Job(w)].status \in Runnable =>
             /\ r.status \in Runnable \cup {"Failed"}
             /\ n.at \in Pipeline => r.status \in Runnable
             /\ n.at \in {"gen", "regen", "audit"} => n.copy = r
    PROVE  SkillInv'
<1> DEFINE e == Job(w)
<1>1. /\ worker' = [worker EXCEPT ![w] = n]
      /\ UNCHANGED <<lastStep, reporter, disturbed, row, of, cooldowns, elapsed>>
  BY DEF drives, works
<1>2. /\ worker'[w] = n
      /\ \A v \in Workers \ {w} : worker'[v] = worker[v]
      /\ worker' \in [Workers -> WorkerRecord]
  BY <1>1 DEF SkillInv, TypeOK
<1>3. worker[w].at \in HasJob
  BY HasJobs DEF HasJob, At
<1>4. e \in Evos /\ rec[e].status # "absent" /\ worker[w].job \in Workflows
      /\ row[worker[w].job].status # "absent"
  BY <1>3, JobIsKnown
<1>5. /\ rec'[e] = r
      /\ \A f \in Evos \ {e} : rec'[f] = rec[f]
      /\ rec' \in [Evos -> EvolutionRecord]
  BY <1>4 DEF SkillInv, TypeOK
<1> DEFINE vs == <<[content |-> Baseline, parent |-> 1]>>
<1>6. \/ skill' = skill
      \/ /\ skill.versions = <<>> /\ skill.live = Baseline
         /\ skill' = [live |-> Baseline, current |-> 1, versions |-> vs]
  BY BaselineFacts
<1>7. /\ DOMAIN vs = {1} /\ vs[1].content = Baseline /\ vs[1].parent = 1 /\ Len(vs) = 1
      /\ vs \in Seq(Version) /\ vs # <<>> /\ Baseline \in Content /\ Baseline.patch # "new" /\ Baseline.evo = 0
  <2>1. Baseline \in Content /\ Baseline.patch # "new" /\ Baseline.evo = 0
    BY SkillAssumption DEF Baseline, Content
  <2>2. [content |-> Baseline, parent |-> 1] \in Version
    BY <2>1 DEF Version
  <2>. QED
    BY <2>1, <2>2
<1> HIDE DEF vs
<1>8. \/ skill' = skill
      \/ /\ skill.versions = <<>> /\ skill.live = Baseline
         /\ skill'.live = Baseline /\ skill'.current = 1 /\ skill'.versions = vs
         /\ skill' \in [live : Content, versions : Seq(Version), current : Nat]
  BY <1>6, <1>7
<1> HIDE DEF e
<1>9. TypeOK'
  BY <1>1, <1>2, <1>5, <1>8 DEF SkillInv, TypeOK, StoreTypeOK
<1>10. AuditsAreReal'
  BY <1>2, <1>5, <1>7, <1>8 DEF SkillInv, AuditsAreReal, AuditIsReal
<1>11. HistoryIsATree'
  <2>1. CASE skill' = skill
    BY <2>1 DEF SkillInv, HistoryIsATree
  <2>2. CASE skill' # skill
    BY <1>7, <1>8, <2>2 DEF HistoryIsATree
  <2>. QED
    BY <2>1, <2>2
<1>12. \A f : Started(f) => Started(f)'
  BY <1>5 DEF Started
<1>13. NamesAreKnown'
  <2>1. Fresh' = Fresh /\ Triggering' = Triggering
    BY <1>1, <1>4, <1>5 DEF Fresh, Triggering
  <2>2. Known(w)'
    BY <1>1, <1>2, <1>4, <1>12 DEF SkillInv, NamesAreKnown, Known
  <2>3. \A v \in Workers \ {w} : Known(v)'
    BY <1>1, <1>2, <1>12 DEF SkillInv, NamesAreKnown, Known
  <2>. QED
    BY <1>1, <1>12, <2>1, <2>2, <2>3 DEF SkillInv, NamesAreKnown
<1>14. Job(w)' = e /\ \A v \in Workers \ {w} : Job(v)' = Job(v)
  BY <1>1, <1>2 DEF Job, e
<1>15. Alive(w)
  BY <1>3 DEF Alive, HasJob
<1>16. ASSUME OneWorker, "call" \notin Torn PROVE rec[e].status \in Runnable
  BY <1>16 DEF SkillInv, RunIsAlone, Undisturbed, e
<1>17. OneWorker => \A v \in Workers \ {w} : worker[v].at \notin Pipeline /\ ~Alive(v)
  BY <1>15 DEF SkillInv, RunIsAlone, Alive, Pipeline
<1>18. RunIsAlone'
  <2>1. ASSUME OneWorker, "call" \notin Torn PROVE PromotedWasCompleted'
    <3>1. rec[e].status # "Completed"
      BY <1>16, <2>1 DEF Runnable
    <3>. QED
      BY <1>1, <1>5, <2>1, <3>1 DEF SkillInv, NamesAreKnown, Started, RunIsAlone, PromotedWasCompleted
  <2>2. ASSUME OneWorker, "call" \notin Torn, NEW v \in Workers PROVE Undisturbed(v)'
    <3>1. CASE v = w
      BY <1>2, <1>5, <1>14, <1>16, <2>2, <3>1 DEF Undisturbed, e
    <3>2. CASE v # w
      BY <1>2, <1>17, <2>2, <3>2 DEF Undisturbed, Pipeline
    <3>. QED
      BY <3>1, <3>2
  <2>3. OneWorker => \A v, u \in Workers : Alive(v)' /\ Alive(u)' => v = u
    BY <1>2, <1>17 DEF Alive
  <2>. QED
    BY <2>1, <2>2, <2>3 DEF RunIsAlone, OneWorker
<1>19. OneEvolution'
  <2>1. ASSUME OneWorker, "call" \notin Torn PROVE InProgress' \subseteq InProgress
    BY <1>5, <1>16, <2>1 DEF InProgress, InProgressStatus
  <2>. QED
    BY <1>1, <2>1 DEF SkillInv, OneEvolution, OneWorker, OneReporter
<1>20. HistoryIsSettled'
  <2> SUFFICES ASSUME OneWorker, OneReporter, Torn = {}
               PROVE  HistoryIsSettled'
    BY DEF HistoryIsSettled, OneWorker, OneReporter
  <2>1. \A f : ~Deploying(f) /\ ~Deploying(f)'
    BY <1>2, <1>17, HasJobs DEF Deploying
  <2>2. \A f \in Evos : /\ rec'[f].status = "Observing" <=> rec[f].status = "Observing"
                        /\ rec[f].status = "Completed" => rec'[f].status = "Completed"
    <3>1. rec[e].status \in Runnable /\ rec'[e].status \in Runnable \cup {"Failed"}
      BY <1>5, <1>16 DEF e
    <3>. QED
      BY <1>5, <3>1 DEF Runnable
  <2>3. CASE skill' = skill
    BY <2>1, <2>2, <2>3, HistoryStays
  <2>4. CASE skill' # skill
    <3>1. \A f \in Evos : rec[f].status # "Observing"
      BY <1>7, <1>8, <2>4 DEF SkillInv, HistoryIsSettled, Evos
    <3>. QED
      BY <1>7, <1>8, <2>1, <2>2, <2>4, <3>1 DEF HistoryIsSettled
  <2>. QED
    BY <2>3, <2>4
<1>. QED
  BY <1>9, <1>10, <1>11, <1>13, <1>18, <1>19, <1>20 DEF SkillInv
\* The checkpoints a record is set to: an in-progress status keeps its audit.
LEMMA RecordFacts ==
    ASSUME NEW r \in EvolutionRecord, AuditIsReal(r), r.status # "absent",
           NEW status \in InProgressStatus \cup Terminal
    PROVE  /\ [r EXCEPT !.status = status] \in EvolutionRecord
           /\ [r EXCEPT !.status = status].status = status
           /\ AuditIsReal([r EXCEPT !.status = status])
           /\ Normalized(r) \in EvolutionRecord /\ AuditIsReal(Normalized(r))
           /\ r.status \in Runnable => Normalized(r).status \in Runnable
           /\ Normalized(r).status # "absent"
           /\ CleanedUp(r) \in EvolutionRecord /\ AuditIsReal(CleanedUp(r))
           /\ r.status \in Runnable => CleanedUp(r).status = "Failed"
           /\ CleanedUp(r).status # "absent"
           /\ NewPatch(r) \in EvolutionRecord /\ AuditIsReal(NewPatch(r))
           /\ NewPatch(r).status = "Generated"
<1> USE DEF EvolutionRecord, AuditIsReal
<1>1. /\ [r EXCEPT !.status = status] \in EvolutionRecord
      /\ [r EXCEPT !.status = status].status = status
      /\ AuditIsReal([r EXCEPT !.status = status])
  OBVIOUS
<1>2. /\ Normalized(r) \in EvolutionRecord /\ AuditIsReal(Normalized(r))
      /\ r.status \in Runnable => Normalized(r).status \in Runnable
      /\ Normalized(r).status # "absent"
  BY DEF Normalized, InProgressStatus, Runnable
<1>3. /\ CleanedUp(r) \in EvolutionRecord /\ AuditIsReal(CleanedUp(r))
      /\ r.status \in Runnable => CleanedUp(r).status = "Failed"
      /\ CleanedUp(r).status # "absent"
  BY DEF CleanedUp, InProgressStatus, Runnable, Terminal
<1>4. /\ NewPatch(r) \in EvolutionRecord /\ AuditIsReal(NewPatch(r))
      /\ NewPatch(r).status = "Generated"
  BY DEF NewPatch, InProgressStatus, Runnable
<1>. QED
  BY <1>1, <1>2, <1>3, <1>4

LEMMA ReturnedFacts ==
    ASSUME TypeOK, NEW w \in Workers, NEW result \in {"none", "done", "running", "failed"},
           NEW x \in {"none", "done", "running", "failed"}
    PROVE  LET n == [Returned(w, result) EXCEPT !.result = x]
           IN  /\ n \in WorkerRecord /\ n.at = "renewAfter" /\ n.job = worker[w].job
               /\ n.copy = NoRecord /\ n.active \in {0, worker[w].active}
<1>1. /\ worker[w] \in WorkerRecord /\ "renewAfter" \in At /\ 0 \in 0..MaxRetries + 2 /\ 0 \in 0..MaxEvos
  BY SkillAssumption DEF TypeOK, At
<1>. QED
  BY <1>1, NoAudit DEF WorkerRecord, Returned

\* What PipelineKeeps asks of the place a pipeline step is taken at.
LEMMA FailsKeeps ==
    ASSUME SkillInv, NEW w \in Workers, worker[w].at \in Pipeline \ {"deployed"}, PipelineFails(w),
           UNCHANGED skill \/ skill' = WithBaseline(skill)
    PROVE  SkillInv'
<1>1. PICK x \in {"none", "done", "running", "failed"} :
        drives(w, [Returned(w, "failed") EXCEPT !.result = x])
  <2> DEFINE rr == rec[Job(w)]
  <2>1. drives(w, [Returned(w, "failed") EXCEPT !.result =
                     IF rr.status \in {"Observing", "Completed"} THEN "done" ELSE "failed"])
    BY DEF PipelineFails, Returned
  <2>. QED
    BY <2>1
<1>2. rec' = [rec EXCEPT ![Job(w)] = CleanedUp(rec[Job(w)])]
  BY DEF PipelineFails
<1> DEFINE n == [Returned(w, "failed") EXCEPT !.result = x]
           r == CleanedUp(rec[Job(w)])
<1>3. /\ n \in WorkerRecord /\ n.at = "renewAfter" /\ n.job = worker[w].job
      /\ AuditIsReal(n.copy) /\ n.active \in {0, worker[w].active}
  BY ReturnedFacts, NoAudit DEF SkillInv
<1>4. /\ r \in EvolutionRecord /\ AuditIsReal(r) /\ r.status # "absent"
      /\ rec[Job(w)].status \in Runnable => r.status = "Failed"
  BY JobIsKnown, HasJobs, RecordFacts DEF Terminal
<1>5. drives(w, n) /\ rec' = [rec EXCEPT ![Job(w)] = r]
  BY <1>1, <1>2
<1>6. "renewAfter" \in HasJob /\ "renewAfter" \notin Pipeline
  BY DEF HasJob, At, Pipeline
<1> HIDE DEF n, r
<1>. QED
  BY <1>3, <1>4, <1>5, <1>6, PipelineKeeps DEF Pipeline

\* A step that saves r, and awaits the LLM with r as its copy.
LEMMA AwaitKeeps ==
    ASSUME SkillInv, NEW w \in Workers, NEW new \in WorkerRecord, UNCHANGED skill,
           worker[w].at \in (Pipeline \cup {"process"}) \ {"deployed"},
           worker[w].at = "process" => rec[Job(w)].status \in Runnable,
           new.job = worker[w].job, new.active = worker[w].active,
           NEW r \in EvolutionRecord, AuditIsReal(r), r.status \in Runnable,
           NEW at \in {"gen", "regen", "audit"}, Awaits(w, new, r, at)
    PROVE  SkillInv'
<1> DEFINE n == [new EXCEPT !.at = at, !.copy = r]
<1>1. drives(w, n) /\ rec' = [rec EXCEPT ![Job(w)] = r]
  BY DEF Awaits
<1>2. at \in At /\ at \in HasJob
  BY DEF At, HasJob, Pipeline
<1>3. n \in WorkerRecord /\ n.at = at /\ n.copy = r /\ n.job = new.job /\ n.active = new.active
  BY <1>2 DEF WorkerRecord
<1> HIDE DEF n
<1>4. r.status # "absent"
  BY DEF Runnable
<1>. QED
  BY <1>1, <1>2, <1>3, <1>4, PipelineKeeps DEF Pipeline

\* A step that moves the pipeline on, with no LLM to wait for.
LEMMA MoveKeeps ==
    ASSUME SkillInv, NEW w \in Workers, NEW n \in WorkerRecord, drives(w, n), UNCHANGED skill,
           worker[w].at \in (Pipeline \cup {"process"}) \ {"deployed"},
           worker[w].at = "process" => rec[Job(w)].status \in Runnable,
           n.at \in {"loop", "compile", "deploy", "renewAfter"}, n.job = worker[w].job,
           n.active = worker[w].active, n.copy = NoRecord \/ n.copy = worker[w].copy,
           NEW r \in EvolutionRecord, AuditIsReal(r), r.status # "absent",
           rec[Job(w)].status \in Runnable => r.status \in Runnable,
           rec' = [rec EXCEPT ![Job(w)] = r]
    PROVE  SkillInv'
<1>1. n.at \in HasJob \ {"deployed"} /\ n.at # "enqueue" /\ n.at \notin {"gen", "regen", "audit"}
  BY DEF HasJob, At, Pipeline
<1>2. worker[w].at \in HasJob
  BY HasJobs DEF HasJob, At
<1>3. AuditIsReal(n.copy)
  BY <1>2, JobIsKnown, NoAudit
<1>. QED
  BY <1>1, <1>3, PipelineKeeps

\* Nothing is saved, as far as the record goes.
LEMMA SameRecord ==
    ASSUME SkillInv, NEW w \in Workers, worker[w].at \in HasJob, UNCHANGED rec
    PROVE  rec' = [rec EXCEPT ![Job(w)] = rec[Job(w)]]
  BY JobIsKnown DEF SkillInv, TypeOK

LEMMA GeneratedKeeps ==
    ASSUME SkillInv, NEW w \in Workers, Generated(w)
    PROVE  SkillInv'
<1>1. worker[w].at \in {"gen", "regen"} /\ UNCHANGED skill /\ worker[w].at \in HasJob /\ TypeOK
  BY HasJobs DEF Generated, SkillInv, Pipeline
<1>2. CASE PipelineFails(w)
  BY <1>1, <1>2, FailsKeeps DEF Pipeline
<1>3. CASE /\ rec' = [rec EXCEPT ![Job(w)] = NewPatch(worker[w].copy)]
           /\ drives(w, [worker[w] EXCEPT !.at = "loop", !.copy = NoRecord])
  <2> DEFINE n == [worker[w] EXCEPT !.at = "loop", !.copy = NoRecord]
             r == NewPatch(worker[w].copy)
  <2>1. /\ n \in WorkerRecord /\ n.at = "loop" /\ n.copy = NoRecord
        /\ n.job = worker[w].job /\ n.active = worker[w].active
    <3>1. worker[w] \in WorkerRecord /\ "loop" \in At
      BY <1>1 DEF TypeOK, At, Pipeline
    <3>. QED
      BY <3>1, NoAudit DEF WorkerRecord
  <2>2. r \in EvolutionRecord /\ AuditIsReal(r) /\ r.status = "Generated"
    <3>1. worker[w].copy \in EvolutionRecord
      BY <1>1 DEF TypeOK, WorkerRecord
    <3>. QED
      BY <3>1 DEF NewPatch, EvolutionRecord, AuditIsReal, InProgressStatus, Runnable
  <2>3. drives(w, n) /\ rec' = [rec EXCEPT ![Job(w)] = r]
    BY <1>3
  <2> HIDE DEF n, r
  <2>. QED
    BY <1>1, <2>1, <2>2, <2>3, MoveKeeps DEF Pipeline, Runnable
<1>. QED
  BY <1>2, <1>3 DEF Generated

LEMMA ProcessKeeps ==
    ASSUME SkillInv, NEW w \in Workers, ProcessPending(w)
    PROVE  SkillInv'
<1> DEFINE e == Job(w)
           r == Normalized(rec[e])
           started == [worker[w] EXCEPT !.locks = @ \cup {e}]
<1>1. worker[w].at = "process" /\ UNCHANGED skill /\ worker[w].at \in HasJob /\ TypeOK
  BY DEF ProcessPending, SkillInv, HasJob, At
<1>2. /\ e \in Evos /\ rec[e] \in EvolutionRecord /\ AuditIsReal(rec[e]) /\ rec[e].status # "absent"
      /\ AuditIsReal(worker[w].copy)
  BY <1>1, JobIsKnown
<1>3. /\ r \in EvolutionRecord /\ AuditIsReal(r) /\ r.status # "absent"
      /\ rec[e].status \in Runnable => r.status \in Runnable
  BY <1>2, RecordFacts DEF Terminal
<1>4. ASSUME NEW res \in {"done", "failed", "running"}
      PROVE  LET n == [worker[w] EXCEPT !.at = "renewAfter", !.result = res]
             IN  /\ n \in WorkerRecord /\ n.at = "renewAfter" /\ n.job = worker[w].job
                 /\ n.active = worker[w].active /\ n.copy = worker[w].copy
  BY <1>1 DEF TypeOK, WorkerRecord, At
<1>5. started \in WorkerRecord /\ started.job = worker[w].job /\ started.active = worker[w].active
      /\ started.copy = worker[w].copy
  BY <1>1, <1>2 DEF TypeOK, WorkerRecord
<1> HIDE DEF r
<1>6. ASSUME NEW res \in {"done", "failed", "running"}, NEW x \in EvolutionRecord,
             drives(w, [worker[w] EXCEPT !.at = "renewAfter", !.result = res]),
             rec' = [rec EXCEPT ![e] = x], AuditIsReal(x), x.status # "absent",
             rec[e].status \in Runnable, x.status \in Runnable
      PROVE  SkillInv'
  <2> DEFINE n == [worker[w] EXCEPT !.at = "renewAfter", !.result = res]
  <2>1. /\ n \in WorkerRecord /\ n.at = "renewAfter" /\ n.job = worker[w].job
        /\ n.active = worker[w].active /\ n.copy = worker[w].copy
    BY <1>4
  <2>2. drives(w, n)
    BY <1>6
  <2> HIDE DEF n
  <2>. QED
    BY <1>1, <1>6, <2>1, <2>2, MoveKeeps
<1>7. CASE rec[e].status \notin Runnable
  <2>1. PICK res \in {"done", "failed"} :
          drives(w, [worker[w] EXCEPT !.at = "renewAfter", !.result = res]) /\ UNCHANGED rec
    BY <1>7 DEF ProcessPending
  <2> DEFINE n == [worker[w] EXCEPT !.at = "renewAfter", !.result = res]
  <2>2. /\ n \in WorkerRecord /\ n.at = "renewAfter" /\ n.job = worker[w].job
        /\ n.active = worker[w].active /\ n.copy = worker[w].copy
    BY <1>4
  <2>3. works(w, n) /\ UNCHANGED <<row, of, rec, skill, elapsed, cooldowns>>
    BY <1>1, <2>1 DEF drives
  <2> HIDE DEF n
  <2>4. RowStep
    BY <1>1, <2>3, NoRowStep DEF works
  <2>. QED
    BY <1>1, <1>2, <2>2, <2>3, <2>4, TickMoves DEF Pipeline
<1>8. CASE rec[e].status \in Runnable /\ ~worker[w].llm
  <2> DEFINE x == [r EXCEPT !.status = "Generating"]
  <2>1. x \in EvolutionRecord /\ x.status = "Generating" /\ AuditIsReal(x) /\ "Generating" \in Runnable
    BY <1>3, RecordFacts DEF InProgressStatus, Runnable
  <2>2. /\ drives(w, [worker[w] EXCEPT !.at = "renewAfter", !.result = "running"])
        /\ rec' = [rec EXCEPT ![e] = x]
    BY <1>8 DEF ProcessPending, r
  <2> HIDE DEF x
  <2>. QED
    BY <1>6, <1>8, <2>1, <2>2
<1>9. CASE rec[e].status \in Runnable /\ worker[w].llm /\ e \in worker[w].locks
  <2>1. /\ drives(w, [worker[w] EXCEPT !.at = "renewAfter", !.result = "running"])
        /\ rec' = [rec EXCEPT ![e] = r]
    BY <1>9 DEF ProcessPending, r
  <2>. QED
    BY <1>3, <1>6, <1>9, <2>1
<1>10. CASE /\ rec[e].status \in Runnable
            /\ Awaits(w, started, [r EXCEPT !.status = "Generating"], "gen")
  <2> DEFINE x == [r EXCEPT !.status = "Generating"]
  <2>1. x \in EvolutionRecord /\ x.status = "Generating" /\ AuditIsReal(x) /\ "Generating" \in Runnable
    BY <1>3, RecordFacts DEF InProgressStatus, Runnable
  <2>2. Awaits(w, started, x, "gen")
    BY <1>10
  <2> HIDE DEF x, started
  <2>. QED
    BY <1>1, <1>5, <1>10, <2>1, <2>2, AwaitKeeps
<1>11. CASE /\ rec[e].status \in Runnable
            /\ rec' = [rec EXCEPT ![e] = r]
            /\ drives(w, [started EXCEPT !.at = "loop"])
  <2> DEFINE n == [started EXCEPT !.at = "loop"]
  <2> HIDE DEF started
  <2>1. /\ n \in WorkerRecord /\ n.at = "loop" /\ n.job = worker[w].job
        /\ n.active = worker[w].active /\ n.copy = worker[w].copy
    BY <1>5 DEF WorkerRecord, At, Pipeline
  <2>2. drives(w, n)
    BY <1>11
  <2> HIDE DEF n
  <2>. QED
    BY <1>1, <1>3, <1>11, <2>1, <2>2, MoveKeeps
<1>. QED
  BY <1>7, <1>8, <1>9, <1>10, <1>11 DEF ProcessPending, r
\* regenerate_with_feedback, up to its await.
LEMMA RegenerateKeeps ==
    ASSUME SkillInv, NEW w \in Workers, NEW new \in WorkerRecord, UNCHANGED skill,
           worker[w].at \in Pipeline \ {"deployed"},
           new.job = worker[w].job, new.active = worker[w].active,
           NEW r \in EvolutionRecord, AuditIsReal(r), r.status # "absent", Regenerate(w, new, r)
    PROVE  SkillInv'
<1> DEFINE x == [r EXCEPT !.status = "Generating"]
<1>1. x \in EvolutionRecord /\ x.status = "Generating" /\ AuditIsReal(x) /\ "Generating" \in Runnable
  BY RecordFacts DEF InProgressStatus, Runnable
<1>2. Awaits(w, new, x, "regen") /\ worker[w].at # "process"
  BY DEF Regenerate, Pipeline
<1> HIDE DEF x
<1>. QED
  BY <1>1, <1>2, AwaitKeeps

LEMMA AttemptKeeps ==
    ASSUME SkillInv, NEW w \in Workers, NextAttempt(w)
    PROVE  SkillInv'
<1> DEFINE r == rec[Job(w)]
           next == [worker[w] EXCEPT !.tries = @ + 1]
<1>1. /\ worker[w].at = "loop" /\ UNCHANGED skill /\ TypeOK
      /\ worker[w].at \in Pipeline \ {"deployed"} /\ worker[w].at \in HasJob
  BY HasJobs DEF NextAttempt, SkillInv, Pipeline
<1>2. /\ r \in EvolutionRecord /\ AuditIsReal(r) /\ r.status # "absent"
  BY <1>1, JobIsKnown
<1> HIDE DEF r
<1>3. CASE PipelineFails(w)
  BY <1>1, <1>3, FailsKeeps
<1>4. ASSUME worker[w].tries <= MaxRetries
      PROVE  /\ next \in WorkerRecord /\ next.job = worker[w].job /\ next.active = worker[w].active
             /\ next.copy = worker[w].copy
  <2>1. worker[w] \in WorkerRecord /\ worker[w].tries \in 0..MaxRetries + 2
    BY <1>1 DEF TypeOK, WorkerRecord
  <2>2. worker[w].tries + 1 \in 0..MaxRetries + 2
    BY <1>4, <2>1, SkillAssumption
  <2>. QED
    BY <2>1, <2>2 DEF WorkerRecord
<1>5. CASE worker[w].tries <= MaxRetries /\ Regenerate(w, next, r)
  <2> HIDE DEF next
  <2>. QED
    BY <1>1, <1>2, <1>4, <1>5, RegenerateKeeps
<1>6. CASE worker[w].tries <= MaxRetries /\ Awaits(w, next, [r EXCEPT !.status = "Auditing"], "audit")
  <2> DEFINE x == [r EXCEPT !.status = "Auditing"]
  <2>1. x \in EvolutionRecord /\ x.status = "Auditing" /\ AuditIsReal(x) /\ "Auditing" \in Runnable
    BY <1>2, RecordFacts DEF InProgressStatus, Runnable
  <2>2. Awaits(w, next, x, "audit")
    BY <1>6
  <2> HIDE DEF next, x
  <2>. QED
    BY <1>1, <1>4, <1>6, <2>1, <2>2, AwaitKeeps
<1>7. ASSUME NEW at \in {"compile", "deploy"}, worker[w].tries <= MaxRetries,
             drives(w, [next EXCEPT !.at = at]), UNCHANGED rec
      PROVE  SkillInv'
  <2> DEFINE n == [next EXCEPT !.at = at]
  <2>1. at \in At
    BY DEF At, Pipeline
  <2>2. drives(w, n)
    BY <1>7
  <2> HIDE DEF next
  <2>3. /\ n \in WorkerRecord /\ n.at = at /\ n.job = worker[w].job /\ n.active = worker[w].active
        /\ n.copy = worker[w].copy
    BY <1>4, <1>7, <2>1 DEF WorkerRecord
  <2> HIDE DEF n
  <2>4. rec' = [rec EXCEPT ![Job(w)] = r]
    BY <1>1, <1>7, SameRecord DEF r
  <2>5. rec[Job(w)].status \in Runnable => r.status \in Runnable
    BY DEF r
  <2>. QED
    BY <1>1, <1>2, <2>2, <2>3, <2>4, <2>5, MoveKeeps
<1>. QED
  BY <1>3, <1>5, <1>6, <1>7 DEF NextAttempt, r

LEMMA AuditedKeeps ==
    ASSUME SkillInv, NEW w \in Workers, Audited(w)
    PROVE  SkillInv'
<1> DEFINE r == worker[w].copy
<1>1. /\ worker[w].at = "audit" /\ UNCHANGED skill /\ TypeOK
      /\ worker[w].at \in Pipeline \ {"deployed"} /\ worker[w].at \in HasJob
      /\ worker[w] \in WorkerRecord /\ r \in EvolutionRecord
  BY HasJobs DEF Audited, SkillInv, Pipeline, TypeOK, WorkerRecord
<1>2. CASE PipelineFails(w)
  BY <1>1, <1>2, FailsKeeps
<1>3. CASE Regenerate(w, worker[w], [r EXCEPT !.audit = FALSE])
  <2> DEFINE x == [r EXCEPT !.audit = FALSE]
  <2>1. x \in EvolutionRecord /\ AuditIsReal(x) /\ x.status = r.status
    BY <1>1 DEF EvolutionRecord, AuditIsReal
  <2>2. CASE r.status # "absent"
    <3> HIDE DEF x
    <3>. QED
      BY <1>1, <1>3, <2>1, <2>2, RegenerateKeeps DEF x
  <2>3. CASE r.status = "absent"
    <3> DEFINE y == [x EXCEPT !.status = "Generating"]
    <3>1. y \in EvolutionRecord /\ y.status = "Generating" /\ AuditIsReal(y) /\ "Generating" \in Runnable
      BY <1>1 DEF EvolutionRecord, AuditIsReal, InProgressStatus, Runnable
    <3>2. Awaits(w, worker[w], y, "regen")
      BY <1>3 DEF Regenerate
    <3> HIDE DEF y, x
    <3>. QED
      BY <1>1, <3>1, <3>2, AwaitKeeps
  <2>. QED
    BY <2>2, <2>3
<1>4. CASE /\ rec' = [rec EXCEPT ![Job(w)] =
                        [r EXCEPT !.status = "AuditPassed", !.patch = "audited", !.audit = TRUE]]
           /\ drives(w, [worker[w] EXCEPT !.at = "compile", !.copy = NoRecord])
  <2> DEFINE n == [worker[w] EXCEPT !.at = "compile", !.copy = NoRecord]
             x == [r EXCEPT !.status = "AuditPassed", !.patch = "audited", !.audit = TRUE]
  <2>1. x \in EvolutionRecord /\ AuditIsReal(x) /\ x.status = "AuditPassed"
    BY <1>1 DEF EvolutionRecord, AuditIsReal, InProgressStatus, Runnable
  <2>2. "compile" \in At
    BY DEF At, Pipeline
  <2>3. /\ n \in WorkerRecord /\ n.at = "compile" /\ n.copy = NoRecord
        /\ n.job = worker[w].job /\ n.active = worker[w].active
    BY <1>1, <2>2, NoAudit DEF WorkerRecord
  <2>4. drives(w, n) /\ rec' = [rec EXCEPT ![Job(w)] = x]
    BY <1>4
  <2> HIDE DEF n, x
  <2>. QED
    BY <1>1, <2>1, <2>3, <2>4, MoveKeeps DEF Runnable
<1>. QED
  BY <1>2, <1>3, <1>4 DEF Audited

LEMMA CompileKeeps ==
    ASSUME SkillInv, NEW w \in Workers, CompileCheck(w)
    PROVE  SkillInv'
<1> DEFINE r == rec[Job(w)]
           n == Goto(w, "deploy")
<1>1. /\ worker[w].at = "compile" /\ UNCHANGED skill /\ TypeOK
      /\ worker[w].at \in Pipeline \ {"deployed"} /\ worker[w].at \in HasJob
      /\ worker[w] \in WorkerRecord
  BY HasJobs DEF CompileCheck, SkillInv, Pipeline, TypeOK
<1>2. r \in EvolutionRecord /\ AuditIsReal(r) /\ r.status # "absent"
  BY <1>1, JobIsKnown
<1>3. n \in WorkerRecord /\ n.at = "deploy" /\ n.job = worker[w].job /\ n.active = worker[w].active
      /\ n.copy = worker[w].copy
  BY <1>1, GotoFacts DEF At, Pipeline
<1>4. CASE Regenerate(w, worker[w], r)
  <2> HIDE DEF r
  <2>. QED
    BY <1>1, <1>2, <1>4, RegenerateKeeps
<1>5. CASE drives(w, n) /\ rec' = [rec EXCEPT ![Job(w)].status = "CompilePassed"]
  <2> DEFINE x == [r EXCEPT !.status = "CompilePassed"]
  <2>1. x \in EvolutionRecord /\ AuditIsReal(x) /\ x.status = "CompilePassed"
    BY <1>2, RecordFacts DEF InProgressStatus, Runnable
  <2>2. rec' = [rec EXCEPT ![Job(w)] = x]
    BY <1>5
  <2> HIDE DEF n, x
  <2>. QED
    BY <1>1, <1>3, <1>5, <2>1, <2>2, MoveKeeps DEF Runnable
<1>6. CASE drives(w, n) /\ UNCHANGED rec
  <2>1. rec' = [rec EXCEPT ![Job(w)] = r]
    BY <1>1, <1>6, SameRecord
  <2> HIDE DEF n
  <2>. QED
    BY <1>1, <1>2, <1>3, <1>6, <2>1, MoveKeeps
<1>. QED
  BY <1>4, <1>5, <1>6 DEF CompileCheck
-----------------------------------------------------------------------------
(* Deploying, observing and judging *)

\* The history a new version is put on top of.
LEMMA BaseFacts ==
    ASSUME SkillInv, NEW b, b = WithBaseline(skill)
    PROVE  /\ b \in [live : Content, versions : Seq(Version), current : Nat]
           /\ b.live = skill.live
           /\ b.versions = <<>> => b.current = 1
           /\ b.versions # <<>> => /\ b.current \in DOMAIN b.versions
                                   /\ b.versions[b.current].content = b.live
           /\ \A k \in DOMAIN b.versions :
                /\ b.versions[k].parent \in 1..k
                /\ b.versions[k].parent = k => k = 1
                /\ b.versions[k].content.patch # "new"
           /\ OneWorker /\ OneReporter /\ Torn = {} =>
                \A k \in DOMAIN b.versions :
                  LET parent == b.versions[k].parent
                      below  == b.versions[parent].content.evo
                  IN  parent # k /\ below # 0 => rec[below].status = "Completed"
<1>1. CASE b = skill
  BY <1>1 DEF SkillInv, TypeOK, HistoryIsATree, AuditsAreReal, HistoryIsSettled
<1> DEFINE vs == <<[content |-> Baseline, parent |-> 1]>>
<1>2. CASE /\ skill.versions = <<>> /\ skill.live = Baseline
           /\ b = [live |-> Baseline, current |-> 1, versions |-> vs]
  <2>1. Baseline \in Content /\ Baseline.patch # "new" /\ Baseline.evo = 0
    BY SkillAssumption DEF Baseline, Content
  <2>2. [content |-> Baseline, parent |-> 1] \in Version
    BY <2>1 DEF Version
  <2>3. /\ DOMAIN vs = {1} /\ vs[1].content = Baseline /\ vs[1].parent = 1
        /\ vs \in Seq(Version) /\ vs # <<>>
    BY <2>2
  <2> HIDE DEF vs
  <2>. QED
    BY <1>2, <2>1, <2>3
<1>3. \/ b = skill
      \/ /\ skill.versions = <<>> /\ skill.live = Baseline
         /\ b = [live |-> Baseline, current |-> 1, versions |-> vs]
  BY BaselineFacts
<1>. QED
  BY <1>1, <1>2, <1>3

LEMMA DeployKeeps ==
    ASSUME SkillInv, NEW w \in Workers, Deploy(w)
    PROVE  SkillInv'
<1> DEFINE e == Job(w)
           r == rec[e]
           content == [evo |-> e, patch |-> r.patch]
           b == WithBaseline(skill)
<1>1. /\ worker[w].at = "deploy" /\ TypeOK
      /\ worker[w].at \in Pipeline \ {"deployed"} /\ worker[w].at \in HasJob
      /\ worker[w] \in WorkerRecord
  BY HasJobs DEF Deploy, SkillInv, Pipeline, TypeOK
<1>2. /\ e \in Evos /\ r \in EvolutionRecord /\ AuditIsReal(r) /\ r.status # "absent"
      /\ worker[w].job \in Workflows /\ row[worker[w].job].status # "absent"
  BY <1>1, JobIsKnown
<1>3. CASE PipelineFails(w) /\ (UNCHANGED skill \/ skill' = WithBaseline(skill))
  BY <1>1, <1>3, FailsKeeps
<1>4. CASE Regenerate(w, worker[w], r) /\ UNCHANGED skill
  <2> HIDE DEF r
  <2>. QED
    BY <1>1, <1>2, <1>4, RegenerateKeeps
<1>5. CASE drives(w, Returned(w, "done")) /\ UNCHANGED <<rec, skill>>
  <2> DEFINE n == Returned(w, "done")
  <2>1. /\ n \in WorkerRecord /\ n.at = "renewAfter" /\ n.job = worker[w].job
        /\ n.active = worker[w].active /\ n.copy = NoRecord
    <3>1. "renewAfter" \in At /\ 0 \in 0..MaxRetries + 2
      BY SkillAssumption DEF At
    <3>. QED
      BY <1>1, <3>1, NoAudit DEF WorkerRecord, Returned
  <2>2. rec' = [rec EXCEPT ![Job(w)] = r]
    BY <1>1, <1>5, SameRecord
  <2>3. /\ drives(w, n) /\ UNCHANGED skill
        /\ rec[Job(w)].status \in Runnable => r.status \in Runnable
    BY <1>5
  <2> HIDE DEF n, r
  <2>. QED
    BY <1>1, <1>2, <2>1, <2>2, <2>3, MoveKeeps
<1>6. ASSUME r.status = "CompilePassed", r.audit, skill' = Versioned(b, content), UNCHANGED rec,
             drives(w, [worker[w] EXCEPT !.at = "deployed", !.copy = r])
      PROVE  SkillInv'
  <2> DEFINE n == [worker[w] EXCEPT !.at = "deployed", !.copy = r]
             vs == Append(b.versions, [content |-> content, parent |-> b.current])
             l == Len(b.versions)
  <2>1. /\ n \in WorkerRecord /\ n.at = "deployed" /\ n.copy = r
        /\ n.job = worker[w].job /\ n.active = worker[w].active
    <3>1. "deployed" \in At
      BY DEF At, Pipeline
    <3>. QED
      BY <1>1, <1>2, <3>1 DEF WorkerRecord
  <2>2. /\ worker' = [worker EXCEPT ![w] = n]
        /\ UNCHANGED <<row, lastStep, of, rec, reporter, disturbed, cooldowns, elapsed>>
    BY <1>6 DEF drives, works
  <2> HIDE DEF n
  <2>3. /\ worker'[w] = n
        /\ \A v \in Workers \ {w} : worker'[v] = worker[v]
        /\ worker' \in [Workers -> WorkerRecord]
    BY <1>1, <2>1, <2>2 DEF TypeOK
  <2>4. skill' = [live |-> content, versions |-> vs, current |-> l + 1]
    BY <1>6 DEF Versioned
  <2>5. content \in Content /\ content.evo = e /\ content.patch = "audited"
    <3>1. e \in 0..MaxEvos
      BY <1>2, SkillAssumption DEF Evos
    <3>. QED
      BY <1>2, <1>6, <3>1 DEF Content, AuditIsReal, EvolutionRecord
  <2> HIDE DEF content, b, e
  <2>6. /\ b.versions \in Seq(Version) /\ b.current \in Nat /\ l \in Nat /\ b.live = skill.live
    BY BaseFacts DEF b
  <2>7. [content |-> content, parent |-> b.current] \in Version
    BY <2>5, <2>6 DEF Version
  <2>8. /\ vs \in Seq(Version) /\ Len(vs) = l + 1 /\ DOMAIN vs = 1..(l + 1) /\ DOMAIN b.versions = 1..l
        /\ \A k \in 1..l : vs[k] = b.versions[k]
        /\ vs[l + 1].content = content /\ vs[l + 1].parent = b.current /\ vs # <<>>
    BY <2>6, <2>7
  <2> HIDE DEF vs, l
  <2>9. /\ skill'.live = content /\ skill'.versions = vs /\ skill'.current = l + 1
        /\ skill' \in [live : Content, versions : Seq(Version), current : Nat]
    BY <2>4, <2>5, <2>6, <2>8
  <2>10. /\ l = 0 => b.current = 1
         /\ l # 0 => b.current \in 1..l /\ b.versions[b.current].content = skill.live
    <3>1. l = 0 <=> b.versions = <<>>
      BY <2>6, <2>8 DEF l
    <3>. QED
      BY <2>6, <2>8, <3>1, BaseFacts DEF b
  <2>11. TypeOK'
    BY <2>2, <2>3, <2>9 DEF SkillInv, TypeOK, StoreTypeOK
  <2>12. \A k \in 1..l :
           /\ b.versions[k].parent \in 1..k
           /\ b.versions[k].parent = k => k = 1
           /\ b.versions[k].content.patch # "new"
    BY <2>8, BaseFacts DEF b
  <2>13. AuditsAreReal'
    <3>1. \A k \in 1..(l + 1) : vs[k].content.patch # "new"
      <4> TAKE k \in 1..(l + 1)
      <4>1. k \in 1..l \/ k = l + 1
        BY <2>6
      <4>. QED
        BY <2>5, <2>8, <2>12, <4>1
    <3>. QED
      BY <1>2, <2>1, <2>2, <2>3, <2>5, <2>8, <2>9, <3>1 DEF SkillInv, AuditsAreReal
  <2>14. HistoryIsATree'
    <3>1. \A k \in 1..(l + 1) : vs[k].parent \in 1..k /\ (vs[k].parent = k => k = 1)
      <4> TAKE k \in 1..(l + 1)
      <4>1. CASE k \in 1..l
        BY <2>8, <2>12, <4>1
      <4>2. CASE k = l + 1
        BY <2>6, <2>8, <2>10, <4>2
      <4>. QED
        BY <2>6, <4>1, <4>2
    <3>2. l + 1 \in 1..(l + 1)
      BY <2>6
    <3>. QED
      BY <2>8, <2>9, <3>1, <3>2 DEF HistoryIsATree
  <2>15. NamesAreKnown'
    <3>1. Fresh' = Fresh /\ Triggering' = Triggering /\ \A f : Started(f) => Started(f)'
      BY <2>2 DEF Fresh, Triggering, Started
    <3>2. Known(w)'
      BY <1>2, <2>1, <2>2, <2>3, <3>1 DEF SkillInv, NamesAreKnown, Known
    <3>3. \A v \in Workers \ {w} : Known(v)'
      BY <2>2, <2>3, <3>1 DEF SkillInv, NamesAreKnown, Known
    <3>. QED
      BY <2>2, <3>1, <3>2, <3>3 DEF SkillInv, NamesAreKnown
  <2>16. Job(w)' = e
    BY <2>1, <2>2, <2>3 DEF Job, e
  <2>17. OneWorker => \A v \in Workers \ {w} : worker[v].at \notin Pipeline /\ ~Alive(v)
    BY <1>1 DEF SkillInv, RunIsAlone, Alive, Pipeline
  <2>18. RunIsAlone'
    <3>1. ASSUME OneWorker, "call" \notin Torn PROVE PromotedWasCompleted'
      BY <2>2, <3>1 DEF SkillInv, RunIsAlone, PromotedWasCompleted
    <3>2. ASSUME OneWorker, "call" \notin Torn, NEW v \in Workers PROVE Undisturbed(v)'
      <4>1. CASE v = w
        BY <1>6, <2>1, <2>2, <2>3, <2>16, <4>1 DEF Undisturbed, e, Runnable
      <4>2. CASE v # w
        BY <2>3, <2>17, <3>2, <4>2 DEF Undisturbed, Pipeline
      <4>. QED
        BY <4>1, <4>2
    <3>3. OneWorker => \A v, u \in Workers : Alive(v)' /\ Alive(u)' => v = u
      BY <2>3, <2>17 DEF Alive
    <3>. QED
      BY <3>1, <3>2, <3>3 DEF RunIsAlone, OneWorker
  <2>19. OneEvolution'
    BY <2>2 DEF SkillInv, OneEvolution, OneWorker, OneReporter, InProgress
  <2>20. HistoryIsSettled'
    <3> SUFFICES ASSUME OneWorker, OneReporter, Torn = {}
                 PROVE  HistoryIsSettled'
      BY DEF HistoryIsSettled, OneWorker, OneReporter
    <3>1. \A f : ~Deploying(f) /\ (Deploying(f)' <=> f = e)
      BY <1>1, <2>1, <2>3, <2>16, <2>17, HasJobs DEF Deploying
    <3>2. \A f \in Evos : rec[f].status = "Observing" => f = e
      BY <1>2, <1>6 DEF SkillInv, OneEvolution, InProgress, InProgressStatus, Runnable, e
    <3>3. \A f \in Evos : rec[f].status # "Observing"
      BY <1>6, <3>2 DEF e
    <3>4. skill.live.evo # 0 => rec[skill.live.evo].status = "Completed"
      BY <3>1, <3>3, VersionFacts DEF SkillInv, HistoryIsSettled
    <3>5. \A f \in Evos : rec'[f].status = "Observing" \/ Deploying(f)'
            => skill'.live.evo = f /\ skill'.current = Len(skill'.versions)
      BY <2>2, <2>5, <2>8, <2>9, <3>1, <3>3
    <3>6. \A k \in 1..l :
            LET parent == b.versions[k].parent
                below  == b.versions[parent].content.evo
            IN  parent # k /\ below # 0 => rec[below].status = "Completed"
      BY <2>8, BaseFacts DEF b
    <3>7. ASSUME NEW k \in 1..(l + 1), NEW parent, parent = vs[k].parent, parent # k,
                 NEW below, below = vs[parent].content.evo, below # 0
          PROVE  rec[below].status = "Completed"
      <4>1. CASE k \in 1..l
        <5>1. parent = b.versions[k].parent /\ parent \in 1..l
          BY <2>6, <2>8, <2>12, <3>7, <4>1
        <5>2. below = b.versions[parent].content.evo
          BY <2>8, <3>7, <5>1
        <5>. QED
          BY <3>7, <3>6, <4>1, <5>1, <5>2
      <4>2. CASE k = l + 1
        <5>1. parent = b.current /\ l # 0 /\ parent \in 1..l
          BY <2>6, <2>8, <2>10, <3>7, <4>2
        <5>2. below = skill.live.evo
          BY <2>8, <2>10, <3>7, <5>1
        <5>. QED
          BY <3>4, <3>7, <5>2
      <4>. QED
        BY <2>6, <4>1, <4>2
    <3>8. \A k \in DOMAIN skill'.versions :
            LET parent == skill'.versions[k].parent
                below  == skill'.versions[parent].content.evo
            IN  parent # k /\ below # 0 => rec'[below].status = "Completed"
      BY <2>2, <2>8, <2>9, <3>7
    <3>9. (skill.live.evo # 0 => \/ rec[skill.live.evo].status \in {"Observing", "Completed"}
                                 \/ Deploying(skill.live.evo))'
      BY <2>5, <2>9, <3>1 DEF Deploying
    <3>. QED
      BY <3>5, <3>8, <3>9 DEF HistoryIsSettled, Deploying
  <2>. QED
    BY <2>11, <2>13, <2>14, <2>15, <2>18, <2>19, <2>20 DEF SkillInv
<1>. QED
  BY <1>3, <1>4, <1>5, <1>6 DEF Deploy
LEMMA ObserveKeeps ==
    ASSUME SkillInv, NEW w \in Workers, StartObserving(w)
    PROVE  SkillInv'
<1> DEFINE e == Job(w)
           n == Returned(w, "done")
           r == [worker[w].copy EXCEPT !.status = "Observing", !.rate = "none"]
<1>1. /\ worker[w].at = "deployed" /\ TypeOK /\ UNCHANGED skill
      /\ worker[w].at \in Pipeline /\ worker[w].at \in HasJob
      /\ worker[w] \in WorkerRecord
      /\ rec' = [rec EXCEPT ![e] = r] /\ drives(w, n)
  BY HasJobs DEF StartObserving, SkillInv, TypeOK
<1>2. /\ e \in Evos /\ rec[e].status # "absent" /\ AuditIsReal(worker[w].copy)
      /\ worker[w].job \in Workflows /\ row[worker[w].job].status # "absent"
  BY <1>1, JobIsKnown
<1>3. r \in EvolutionRecord /\ AuditIsReal(r) /\ r.status = "Observing"
  BY <1>1, <1>2 DEF WorkerRecord, EvolutionRecord, AuditIsReal, InProgressStatus
<1>4. /\ n \in WorkerRecord /\ n.at = "renewAfter" /\ n.job = worker[w].job
      /\ n.active = worker[w].active /\ n.copy = NoRecord
  <2>1. "renewAfter" \in At /\ 0 \in 0..MaxRetries + 2
    BY SkillAssumption DEF At
  <2>. QED
    BY <1>1, <2>1, NoAudit DEF WorkerRecord, Returned
<1>5. /\ worker' = [worker EXCEPT ![w] = n]
      /\ UNCHANGED <<row, lastStep, of, skill, reporter, disturbed, cooldowns, elapsed>>
  BY <1>1 DEF drives, works
<1> HIDE DEF n, r
<1>6. /\ worker'[w] = n
      /\ \A v \in Workers \ {w} : worker'[v] = worker[v]
      /\ worker' \in [Workers -> WorkerRecord]
  BY <1>1, <1>4, <1>5 DEF TypeOK
<1> HIDE DEF e
<1>7. /\ rec'[e] = r
      /\ \A f \in Evos \ {e} : rec'[f] = rec[f]
      /\ rec' \in [Evos -> EvolutionRecord]
  BY <1>1, <1>2, <1>3 DEF TypeOK
<1>8. TypeOK'
  BY <1>5, <1>6, <1>7 DEF SkillInv, TypeOK, StoreTypeOK
<1>9. AuditsAreReal'
  BY <1>3, <1>4, <1>5, <1>6, <1>7, NoAudit DEF SkillInv, AuditsAreReal
<1>10. HistoryIsATree'
  BY <1>5 DEF SkillInv, HistoryIsATree
<1>11. NamesAreKnown'
  <2>1. Fresh' = Fresh /\ Triggering' = Triggering /\ \A f : Started(f) => Started(f)'
    BY <1>2, <1>3, <1>5, <1>7 DEF Fresh, Triggering, Started
  <2>2. Known(w)'
    BY <1>2, <1>4, <1>5, <1>6, <2>1 DEF SkillInv, NamesAreKnown, Known
  <2>3. \A v \in Workers \ {w} : Known(v)'
    BY <1>5, <1>6, <2>1 DEF SkillInv, NamesAreKnown, Known
  <2>. QED
    BY <1>5, <2>1, <2>2, <2>3 DEF SkillInv, NamesAreKnown
<1>12. OneWorker => \A v \in Workers \ {w} : worker[v].at \notin Pipeline /\ ~Alive(v)
  BY <1>1 DEF SkillInv, RunIsAlone, Alive, Pipeline
<1>13. OneWorker /\ "call" \notin Torn => rec[e].status = "CompilePassed"
  BY <1>1 DEF SkillInv, RunIsAlone, Undisturbed, e
<1>14. n.at \notin Pipeline
  BY <1>4 DEF Pipeline
<1>15. RunIsAlone'
  <2>1. ASSUME OneWorker, "call" \notin Torn PROVE PromotedWasCompleted'
    BY <1>5, <1>7, <1>13, <2>1 DEF SkillInv, NamesAreKnown, Started, RunIsAlone, PromotedWasCompleted
  <2>2. ASSUME OneWorker, NEW v \in Workers PROVE Undisturbed(v)'
    BY <1>6, <1>12, <1>14, <2>2 DEF Undisturbed, Pipeline
  <2>3. OneWorker => \A v, u \in Workers : Alive(v)' /\ Alive(u)' => v = u
    BY <1>6, <1>12 DEF Alive
  <2>. QED
    BY <2>1, <2>2, <2>3 DEF RunIsAlone, OneWorker
<1>16. OneEvolution'
  <2>1. ASSUME OneWorker, "call" \notin Torn PROVE InProgress' \subseteq InProgress
    BY <1>7, <1>13, <2>1 DEF InProgress, InProgressStatus, Runnable
  <2>. QED
    BY <1>5, <2>1 DEF SkillInv, OneEvolution, OneWorker, OneReporter
<1>17. HistoryIsSettled'
  <2> SUFFICES ASSUME OneWorker, OneReporter, Torn = {}
               PROVE  HistoryIsSettled'
    BY DEF HistoryIsSettled, OneWorker, OneReporter
  <2>1. \A f : ~Deploying(f)'
    BY <1>6, <1>12, <1>14, HasJobs DEF Deploying
  <2>2. Deploying(e)
    BY <1>1 DEF Deploying, e
  <2>3. skill.live.evo = e /\ skill.current = Len(skill.versions)
    BY <1>2, <2>2 DEF SkillInv, HistoryIsSettled
  <2>4. \A f \in Evos : rec[f].status = "Observing" => f = e
    BY <1>2, <1>13 DEF SkillInv, OneEvolution, InProgress, InProgressStatus, Runnable
  <2>5. \A f \in Evos : rec[f].status = "Completed" => rec'[f].status = "Completed"
    BY <1>7, <1>13
  <2>6. \A f \in Evos : rec'[f].status = "Observing" \/ Deploying(f)'
          => skill'.live.evo = f /\ skill'.current = Len(skill'.versions)
    BY <1>5, <1>7, <2>1, <2>3, <2>4
  <2>7. ASSUME NEW k \in DOMAIN skill.versions, NEW parent, parent = skill.versions[k].parent, parent # k,
               NEW below, below = skill.versions[parent].content.evo, below # 0
        PROVE  rec'[below].status = "Completed"
    <3>1. rec[below].status = "Completed"
      BY <2>7 DEF SkillInv, HistoryIsSettled
    <3>2. below \in Evos
      BY <2>7, VersionFacts DEF SkillInv
    <3>. QED
      BY <2>5, <3>1, <3>2
  <2>8. \A k \in DOMAIN skill'.versions :
          LET parent == skill'.versions[k].parent
              below  == skill'.versions[parent].content.evo
          IN  parent # k /\ below # 0 => rec'[below].status = "Completed"
    BY <1>5, <2>7
  <2>9. (skill.live.evo # 0 => \/ rec[skill.live.evo].status \in {"Observing", "Completed"}
                               \/ Deploying(skill.live.evo))'
    BY <1>3, <1>5, <1>7, <2>3
  <2>. QED
    BY <2>6, <2>8, <2>9 DEF HistoryIsSettled, Deploying
<1>. QED
  BY <1>8, <1>9, <1>10, <1>11, <1>15, <1>16, <1>17 DEF SkillInv

\* What rollback leaves: a version of the history, or no skill at all.
LEMMA RolledBackFacts ==
    ASSUME SkillInv, NEW s, s = RolledBack(skill)
    PROVE  \/ s = [live |-> Missing, versions |-> <<>>, current |-> 1]
           \/ /\ Len(skill.versions) >= 2 /\ s.versions = skill.versions
              /\ s.current \in DOMAIN skill.versions
              /\ s.current = skill.versions[skill.current].parent
              /\ s.live = skill.versions[s.current].content
              /\ s \in [live : Content, versions : Seq(Version), current : Nat]
              /\ skill.current \in DOMAIN skill.versions
<1>1. CASE Len(skill.versions) < 2
  BY <1>1 DEF RolledBack
<1>2. CASE ~(Len(skill.versions) < 2)
  <2> DEFINE back == skill.versions[skill.current].parent
  <2>1. s = [skill EXCEPT !.live = skill.versions[back].content, !.current = back]
    BY <1>2 DEF RolledBack
  <2>2. skill.versions \in Seq(Version) /\ Len(skill.versions) \in Nat /\ skill.versions # <<>>
        /\ skill \in [live : Content, versions : Seq(Version), current : Nat]
    BY <1>2, VersionFacts DEF SkillInv, TypeOK
  <2>3. skill.current \in DOMAIN skill.versions
    BY <2>2 DEF SkillInv, HistoryIsATree
  <2>4. back \in DOMAIN skill.versions /\ back \in Nat /\ skill.versions[back].content \in Content
    BY <2>2, <2>3, VersionFacts DEF SkillInv, Version
  <2> HIDE DEF back
  <2>5. /\ s.versions = skill.versions /\ s.current = back /\ s.live = skill.versions[back].content
        /\ s \in [live : Content, versions : Seq(Version), current : Nat]
    BY <2>1, <2>2, <2>4
  <2>. QED
    BY <1>2, <2>2, <2>3, <2>4, <2>5 DEF back
<1>. QED
  BY <1>1, <1>2
\* Judging an observation: the skill is rolled back, the evolution completes, or
\* the observation goes on.
LEMMA ObservationsKeep ==
    ASSUME SkillInv, NEW w \in Workers, TickObservations(w)
    PROVE  SkillInv'
<1>1. PICK e \in Adopted(w) :
        LET r == IF e = 0 THEN NoRecord ELSE rec[e]
            rollback == r.status = "Observing" /\ r.rate = "high"
            complete == r.status = "Observing" /\ r.rate # "high" /\ e \in elapsed
            ends == rollback \/ complete \/ r.status \in Terminal
        IN  /\ works(w, [worker[w] EXCEPT !.at = "finalize", !.active = IF ends THEN 0 ELSE e])
            /\ rec' = IF rollback THEN [rec EXCEPT ![e].status = "RolledBack"]
                      ELSE IF complete THEN [rec EXCEPT ![e].status = "Completed"] ELSE rec
            /\ skill' = IF rollback THEN RolledBack(skill) ELSE skill
            /\ cooldowns' = IF rollback THEN cooldowns \cup {w} ELSE cooldowns
            /\ elapsed' = IF ends THEN elapsed \ {e} ELSE elapsed
  BY DEF TickObservations
<1>2. PICK a \in {0, e} :
        /\ works(w, [worker[w] EXCEPT !.at = "finalize", !.active = a])
        /\ cooldowns' \in {cooldowns, cooldowns \cup {w}} /\ elapsed' \subseteq elapsed
        /\ \/ UNCHANGED <<rec, skill>>
           \/ /\ e # 0 /\ rec[e].status = "Observing"
              /\ \/ rec' = [rec EXCEPT ![e].status = "Completed"] /\ UNCHANGED skill
                 \/ rec' = [rec EXCEPT ![e].status = "RolledBack"] /\ skill' = RolledBack(skill)
  BY <1>1 DEF NoRecord
<1> DEFINE n == [worker[w] EXCEPT !.at = "finalize", !.active = a]
<1>3. /\ worker[w].at = "tick" /\ TypeOK /\ worker[w] \in WorkerRecord
      /\ UNCHANGED <<row, of, lastStep, reporter, disturbed>>
  BY <1>2 DEF TickObservations, SkillInv, TypeOK, works
<1>4. a \in 0..MaxEvos /\ (a # 0 => Started(a)) /\ (e # 0 => e \in Evos)
  BY <1>2, AdoptedFacts, SkillAssumption
<1>5. /\ n \in WorkerRecord /\ n.at = "finalize" /\ n.active = a /\ n.copy = worker[w].copy
  BY <1>3, <1>4 DEF WorkerRecord, At
<1>6. worker' = [worker EXCEPT ![w] = n]
  BY <1>2 DEF works
<1> HIDE DEF n
<1>7. /\ worker'[w] = n
      /\ \A v \in Workers \ {w} : worker'[v] = worker[v]
      /\ worker' \in [Workers -> WorkerRecord]
  BY <1>3, <1>5, <1>6 DEF TypeOK
<1>8. Alive(w) /\ n.at \notin Pipeline /\ n.at \notin HasJob /\ AuditIsReal(n.copy)
  BY <1>3, <1>5 DEF Alive, Pipeline, HasJob, SkillInv, AuditsAreReal
<1>9. OneWorker => \A v \in Workers : worker'[v].at \notin Pipeline /\ (Alive(v)' => v = w)
  BY <1>7, <1>8 DEF SkillInv, RunIsAlone, Alive, Pipeline
<1>10. \A f : OneWorker => ~Deploying(f) /\ ~Deploying(f)'
  <2>1. OneWorker => \A v \in Workers : worker[v].at \notin Pipeline
    BY <1>3, <1>8 DEF SkillInv, RunIsAlone, Alive, Pipeline
  <2>. QED
    BY <1>9, <2>1, HasJobs DEF Deploying
<1>11. cooldowns' \subseteq Workers \cup Reporters /\ elapsed' \subseteq Evos
  BY <1>2, <1>3 DEF TypeOK
<1>12. ASSUME NEW status \in {"Completed", "RolledBack"}, e # 0, rec[e].status = "Observing",
              rec' = [rec EXCEPT ![e].status = status],
              skill' \in [live : Content, versions : Seq(Version), current : Nat],
              skill'.live.patch # "new",
              \A k \in DOMAIN skill'.versions : skill'.versions[k].content.patch # "new",
              HistoryIsATree',
              OneWorker /\ OneReporter /\ Torn = {} => HistoryIsSettled'
       PROVE  SkillInv'
  <2>1. /\ \A f \in Evos \ {e} : rec'[f] = rec[f]
        /\ rec' \in [Evos -> EvolutionRecord] /\ rec'[e].status = status
        /\ rec'[e].audit = rec[e].audit /\ rec'[e].patch = rec[e].patch
    BY <1>3, <1>4, <1>12 DEF TypeOK, EvolutionRecord, Terminal
  <2>2. TypeOK'
    BY <1>3, <1>7, <1>11, <1>12, <2>1 DEF TypeOK, StoreTypeOK
  <2>3. AuditsAreReal'
    BY <1>4, <1>7, <1>8, <1>12, <2>1 DEF SkillInv, AuditsAreReal, AuditIsReal
  <2>4. NamesAreKnown'
    <3>1. Fresh' = Fresh /\ Triggering' = Triggering /\ \A f : Started(f) => Started(f)'
      BY <1>3, <1>12, <2>1 DEF Fresh, Triggering, Started
    <3>2. Known(w)'
      BY <1>4, <1>5, <1>7, <1>8, <3>1 DEF Known
    <3>3. \A v \in Workers \ {w} : Known(v)'
      BY <1>3, <1>7, <3>1 DEF SkillInv, NamesAreKnown, Known
    <3>. QED
      BY <1>3, <3>1, <3>2, <3>3 DEF SkillInv, NamesAreKnown
  <2>5. RunIsAlone'
    <3>1. ASSUME OneWorker, "call" \notin Torn PROVE PromotedWasCompleted'
      BY <1>3, <1>12, <2>1, <3>1 DEF SkillInv, NamesAreKnown, Started, RunIsAlone, PromotedWasCompleted
    <3>2. ASSUME OneWorker, NEW v \in Workers PROVE Undisturbed(v)'
      BY <1>9, <3>2 DEF Undisturbed, Pipeline
    <3>. QED
      BY <1>9, <3>1, <3>2 DEF RunIsAlone, OneWorker
  <2>6. OneEvolution'
    <3>1. InProgress' \subseteq InProgress
      BY <1>12, <2>1 DEF InProgress, InProgressStatus, Runnable
    <3>. QED
      BY <1>3, <3>1 DEF SkillInv, OneEvolution, OneWorker, OneReporter
  <2>7. HistoryIsSettled'
    BY <1>12 DEF HistoryIsSettled, OneWorker, OneReporter
  <2>. QED
    BY <1>12, <2>2, <2>3, <2>4, <2>5, <2>6, <2>7 DEF SkillInv
<1>13. CASE UNCHANGED <<rec, skill>>
  <2>1. RowStep
    BY <1>3, NoRowStep
  <2>2. TypeOK'
    BY <1>3, <1>7, <1>11, <1>13 DEF TypeOK, StoreTypeOK
  <2>3. Known(w)'
    BY <1>4, <1>5, <1>7, <1>8, <1>13 DEF Known, Started
  <2>4. Triggering' = Triggering
    BY <1>3 DEF Triggering
  <2>5. OneWorker => \A v, u \in Workers : Alive(v)' /\ Alive(u)' => v = u
    BY <1>9
  <2>6. \A v \in Workers :
          \/ worker'[v] = worker[v]
          \/ /\ Known(v)' /\ AuditIsReal(worker'[v].copy)
             /\ worker'[v].at \notin Pipeline
             /\ worker[v].at = "deployed" => "deploy" \in Torn
    BY <1>3, <1>7, <1>8, <2>3
  <2>7. /\ \A i \in Reporters :
             /\ reporter'[i].at = "save" => Started(reporter'[i].evo)
             /\ reporter'[i].at = "trigger" => reporter[i].at = "trigger" \/ InProgress = {}
        /\ disturbed' + Cardinality(Triggering') <= Cardinality(Fresh)
    BY <1>3, <2>4 DEF SkillInv, NamesAreKnown
  <2>. QED
    BY <1>13, <2>1, <2>2, <2>5, <2>6, <2>7, QuietStep
<1>14. CASE /\ e # 0 /\ rec[e].status = "Observing"
            /\ rec' = [rec EXCEPT ![e].status = "Completed"] /\ UNCHANGED skill
  <2>1. HistoryIsATree'
    BY <1>14 DEF SkillInv, HistoryIsATree
  <2>2. ASSUME OneWorker, OneReporter, Torn = {} PROVE HistoryIsSettled'
    <3>1. /\ \A f \in Evos \ {e} : rec'[f] = rec[f]
          /\ rec'[e].status = "Completed"
      BY <1>3, <1>4, <1>14 DEF TypeOK
    <3>2. \A f \in Evos : rec'[f].status # "Observing"
      BY <1>4, <1>14, <2>2, <3>1 DEF SkillInv, OneEvolution, InProgress, InProgressStatus
    <3>3. skill.live.evo = e
      BY <1>4, <1>14, <2>2 DEF SkillInv, HistoryIsSettled
    <3>4. ASSUME NEW k \in DOMAIN skill.versions, NEW parent, parent = skill.versions[k].parent, parent # k,
                 NEW below, below = skill.versions[parent].content.evo, below # 0
          PROVE  rec'[below].status = "Completed"
      <4>1. rec[below].status = "Completed"
        BY <2>2, <3>4 DEF SkillInv, HistoryIsSettled
      <4>2. below \in Evos
        BY <3>4, VersionFacts DEF SkillInv
      <4>. QED
        BY <3>1, <4>1, <4>2
    <3>5. \A k \in DOMAIN skill'.versions :
            LET parent == skill'.versions[k].parent
                below  == skill'.versions[parent].content.evo
            IN  parent # k /\ below # 0 => rec'[below].status = "Completed"
      BY <1>14, <3>4
    <3>6. (skill.live.evo # 0 => \/ rec[skill.live.evo].status \in {"Observing", "Completed"}
                                 \/ Deploying(skill.live.evo))'
      BY <1>14, <3>1, <3>3
    <3>7. \A f \in Evos : rec'[f].status = "Observing" \/ Deploying(f)'
            => skill'.live.evo = f /\ skill'.current = Len(skill'.versions)
      BY <1>10, <2>2, <3>2
    <3>. QED
      BY <3>5, <3>6, <3>7 DEF HistoryIsSettled, Deploying
  <2>3. /\ skill'.live.patch # "new"
        /\ \A k \in DOMAIN skill'.versions : skill'.versions[k].content.patch # "new"
        /\ skill' \in [live : Content, versions : Seq(Version), current : Nat]
    BY <1>3, <1>14 DEF SkillInv, AuditsAreReal, TypeOK
  <2>. QED
    BY <1>12, <1>14, <2>1, <2>2, <2>3
<1>15. CASE /\ e # 0 /\ rec[e].status = "Observing"
            /\ rec' = [rec EXCEPT ![e].status = "RolledBack"] /\ skill' = RolledBack(skill)
  <2>1. /\ \A f \in Evos \ {e} : rec'[f] = rec[f]
        /\ rec'[e].status = "RolledBack"
    BY <1>3, <1>4, <1>15 DEF TypeOK
  <2>2. ASSUME OneWorker, OneReporter, Torn = {}
        PROVE  /\ \A f \in Evos : rec'[f].status # "Observing" /\ ~Deploying(f)'
               /\ \A f \in Evos : rec[f].status = "Completed" => rec'[f].status = "Completed"
               /\ skill.current = Len(skill.versions)
    <3>1. \A f \in Evos : rec'[f].status # "Observing"
      BY <1>4, <1>15, <2>1, <2>2 DEF SkillInv, OneEvolution, InProgress, InProgressStatus
    <3>2. skill.current = Len(skill.versions)
      BY <1>4, <1>15, <2>2 DEF SkillInv, HistoryIsSettled
    <3>3. \A f \in Evos : rec[f].status = "Completed" => rec'[f].status = "Completed"
      BY <1>15, <2>1
    <3>. QED
      BY <1>10, <2>2, <3>1, <3>2, <3>3
  <2>3. CASE skill' = [live |-> Missing, versions |-> <<>>, current |-> 1]
    <3>1. /\ Missing \in Content /\ Missing.patch # "new" /\ Missing.evo = 0
          /\ <<>> \in Seq(Version) /\ DOMAIN <<>> = {}
      BY SkillAssumption DEF Missing, Content
    <3>2. /\ skill'.live = Missing /\ skill'.versions = <<>> /\ skill'.current = 1
          /\ skill' \in [live : Content, versions : Seq(Version), current : Nat]
      BY <2>3, <3>1
    <3>3. HistoryIsATree'
      BY <3>1, <3>2 DEF HistoryIsATree
    <3>4. ASSUME OneWorker, OneReporter, Torn = {} PROVE HistoryIsSettled'
      BY <2>2, <3>1, <3>2, <3>4 DEF HistoryIsSettled
    <3>. QED
      BY <1>12, <1>15, <3>1, <3>2, <3>3, <3>4
  <2>4. CASE /\ Len(skill.versions) >= 2 /\ skill'.versions = skill.versions
             /\ skill'.current \in DOMAIN skill.versions
             /\ skill'.current = skill.versions[skill.current].parent
             /\ skill'.live = skill.versions[skill'.current].content
             /\ skill' \in [live : Content, versions : Seq(Version), current : Nat]
             /\ skill.current \in DOMAIN skill.versions
    <3>1. HistoryIsATree'
      <4>1. skill'.versions # <<>>
        BY <2>4
      <4>. QED
        BY <2>4, <4>1 DEF SkillInv, HistoryIsATree
    <3>2. /\ skill'.live.patch # "new"
          /\ \A k \in DOMAIN skill'.versions : skill'.versions[k].content.patch # "new"
      BY <2>4 DEF SkillInv, AuditsAreReal
    <3>3. ASSUME OneWorker, OneReporter, Torn = {} PROVE HistoryIsSettled'
      <4>1. skill'.current # skill.current
        BY <2>2, <2>4, <3>3 DEF SkillInv, HistoryIsATree
      <4>2. ASSUME NEW k \in DOMAIN skill.versions, NEW parent, parent = skill.versions[k].parent, parent # k,
                   NEW below, below = skill.versions[parent].content.evo, below # 0
            PROVE  rec'[below].status = "Completed"
        <5>1. rec[below].status = "Completed"
          BY <3>3, <4>2 DEF SkillInv, HistoryIsSettled
        <5>2. below \in Evos
          BY <4>2, VersionFacts DEF SkillInv
        <5>. QED
          BY <2>2, <3>3, <5>1, <5>2
      <4>3. \A k \in DOMAIN skill'.versions :
              LET parent == skill'.versions[k].parent
                  below  == skill'.versions[parent].content.evo
              IN  parent # k /\ below # 0 => rec'[below].status = "Completed"
        BY <2>4, <4>2
      <4>4. (skill.live.evo # 0 => \/ rec[skill.live.evo].status \in {"Observing", "Completed"}
                                   \/ Deploying(skill.live.evo))'
        BY <2>4, <4>1, <4>2
      <4>5. \A f \in Evos : rec'[f].status = "Observing" \/ Deploying(f)'
              => skill'.live.evo = f /\ skill'.current = Len(skill'.versions)
        BY <2>2, <3>3
      <4>. QED
        BY <4>3, <4>4, <4>5 DEF HistoryIsSettled, Deploying
    <3>. QED
      BY <1>12, <1>15, <2>4, <3>1, <3>2, <3>3
  <2>. QED
    BY <1>15, <2>3, <2>4, RolledBackFacts
<1>. QED
  BY <1>2, <1>13, <1>14, <1>15

-----------------------------------------------------------------------------
(* The theorems *)

LEMMA InitSkillInv == Init => SkillInv
<1> SUFFICES ASSUME Init PROVE SkillInv
  OBVIOUS
<1> USE SkillAssumption, StoreAssumption
<1>1. /\ \A w \in Workers : worker[w] = [Resting EXCEPT !.at = "down"]
      /\ worker \in [Workers -> WorkerRecord]
  <2>1. "down" \in At
    BY DEF At
  <2>2. [Resting EXCEPT !.at = "down"] \in WorkerRecord
    BY <2>1, RestingFacts
  <2>. QED
    BY <2>2 DEF Init
<1>2. \A w \in Workers : worker[w].at = "down" /\ worker[w].copy = NoRecord /\ worker[w].active = 0
  BY <1>1 DEF Resting
<1>3. /\ skill.live \in {Baseline, Missing} /\ skill.versions = <<>> /\ skill.current = 1
      /\ skill \in [live : Content, versions : Seq(Version), current : Nat]
      /\ skill.live.evo = 0 /\ skill.live.patch # "new"
  <2>1. Baseline \in Content /\ Missing \in Content
    BY DEF Baseline, Missing, Content
  <2>2. <<>> \in Seq(Version)
    OBVIOUS
  <2>3. /\ skill.live \in {Baseline, Missing} /\ skill.versions = <<>> /\ skill.current = 1
        /\ skill \in [live : {Baseline, Missing}, versions : {<<>>}, current : {1}]
    BY DEF Init
  <2>4. skill \in [live : Content, versions : Seq(Version), current : Nat]
    <3>1. PICK l \in {Baseline, Missing} : skill = [live |-> l, versions |-> <<>>, current |-> 1]
      BY <2>3
    <3>2. l \in Content
      BY <2>1
    <3>. QED
      BY <2>2, <3>1, <3>2
  <2>. QED
    BY <2>3, <2>4 DEF Baseline, Missing
<1>4. /\ \A e \in Evos : rec[e] = NoRecord /\ rec[e].status = "absent"
      /\ rec \in [Evos -> EvolutionRecord]
  BY NoAudit DEF Init, NoRecord
<1>5. TypeOK
  <2>1. StoreTypeOK
    BY DEF Init, StoreInit, StoreTypeOK, WorkflowRecord, Status, Lease
  <2>2. 0 \in 0..MaxEvos
    OBVIOUS
  <2>3. of \in [Workflows -> 0..MaxEvos] /\ disturbed \in 0..MaxEvos
        /\ cooldowns \subseteq Workers \cup Reporters /\ elapsed \subseteq Evos
    BY <2>2 DEF Init
  <2>4. reporter \in [Reporters -> ReporterRecord]
    BY <2>2 DEF Init, ReporterRecord
  <2>. QED
    BY <1>1, <1>3, <1>4, <2>1, <2>3, <2>4 DEF TypeOK
<1>6. AuditsAreReal /\ HistoryIsATree
  BY <1>2, <1>3, <1>4, NoAudit DEF AuditsAreReal, HistoryIsATree
<1>7. NamesAreKnown
  <2>1. Fresh = 1..MaxEvos /\ Triggering = {} /\ disturbed = 0
    BY <1>4 DEF Fresh, Triggering, Evos, Init
  <2>2. Cardinality(Fresh) \in Nat /\ Cardinality(Triggering) = 0
    BY <2>1, FreshFacts, FS_EmptySet
  <2>3. \A w \in Workers : Known(w)
    BY <1>2 DEF Known, HasJob
  <2>4. /\ \A wf \in Workflows : row[wf].status = "absent"
        /\ \A i \in Reporters : reporter[i].at = "idle"
    BY DEF Init, StoreInit
  <2>5. disturbed + Cardinality(Triggering) <= Cardinality(Fresh)
    BY <2>1, <2>2
  <2>. QED
    BY <2>3, <2>4, <2>5 DEF NamesAreKnown
<1>8. RunIsAlone
  BY <1>2 DEF RunIsAlone, Alive, Undisturbed, Pipeline, PromotedWasCompleted, Init, StoreInit
<1>9. OneEvolution
  BY <1>4 DEF OneEvolution, InProgress, InProgressStatus, Runnable
<1>10. HistoryIsSettled
  <2>1. \A e : ~Deploying(e)
    BY <1>2 DEF Deploying
  <2>. QED
    BY <1>3, <1>4, <2>1 DEF HistoryIsSettled
<1>. QED
  BY <1>5, <1>6, <1>7, <1>8, <1>9, <1>10 DEF SkillInv

LEMMA SkillStep == SkillInv /\ [Next]_vars => SkillInv'
<1> SUFFICES ASSUME SkillInv, [Next]_vars PROVE SkillInv'
  OBVIOUS
<1>1. ASSUME NEW w \in Workers, Tick(w) \/ Restart(w) \/ Heartbeat(w) \/ Crash(w)
      PROVE  SkillInv'
  BY <1>1, RecoverKeeps, ListKeeps, EnqueueKeeps, ClaimKeeps, RenewKeeps, ProcessKeeps, GeneratedKeeps,
     AttemptKeeps, AuditedKeeps, CompileKeeps, DeployKeeps, ObserveKeeps, LostKeeps, CompleteKeeps,
     UpdateKeeps, ReleaseKeeps, ObservationsKeep, FinalizeKeeps, RestartKeeps, HeartbeatKeeps, CrashKeeps
     DEF Tick
<1>2. ASSUME NEW i \in Reporters, Reports(i) \/ TriggerEvolution(i) \/ SaveCall(i) \/ ErrorWindowPasses(i)
      PROVE  SkillInv'
  BY <1>2, ReportErrorKeeps, RequestKeeps, CountKeeps, TriggerKeeps, SaveKeeps DEF Reports
<1>3. CASE UNCHANGED vars
  <2>1. RowStep
    BY <1>3, NoRowStep DEF SkillInv, vars, storeVars
  <2>2. elapsed \subseteq Evos
    BY DEF SkillInv, TypeOK
  <2>. QED
    BY <1>3, <2>1, <2>2, EnvironmentKeeps DEF vars
<1>. QED
  BY <1>1, <1>2, <1>3, UserKeeps, ClockKeeps DEF Next

\* The invariant of the whole system: what a record says of its audit, what the
\* version history looks like and, with one process and one reporter, what is
\* live under which evolution.
THEOREM SkillInvariance == Spec => []SkillInv
  BY InitSkillInv, SkillStep, PTL DEF Spec

\* Whatever checkpoint a worker resumes from, however many processes run the
\* pipeline and whoever loses its lease, no patch goes live that no audit passed.
THEOREM DeployedWasAuditedHolds == Spec => []DeployedWasAudited
<1>1. SkillInv => DeployedWasAudited
  BY DEF SkillInv, AuditsAreReal, DeployedWasAudited
<1>. QED
  BY <1>1, SkillInvariance, PTL

\* With one worker process at a time and one instance that reports, a rollback
\* leaves nothing of the evolution live, if no process dies between the version
\* and the record and no observation ends while a call is being counted.
THEOREM RolledBackIsGoneHolds ==
    ASSUME OneWorker, OneReporter, Torn = {}
    PROVE  Spec => []RolledBackIsGone
<1>1. SkillInv => RolledBackIsGone
  <2> SUFFICES ASSUME SkillInv, NEW e \in Evos, rec[e].status = "RolledBack", skill.live.evo = e
               PROVE  FALSE
    BY DEF RolledBackIsGone
  <2>1. e # 0
    BY SkillAssumption DEF Evos
  <2>2. Deploying(e)
    BY <2>1 DEF SkillInv, HistoryIsSettled
  <2>3. rec[e].status = "CompilePassed"
    BY <2>2 DEF SkillInv, RunIsAlone, Undisturbed, Deploying
  <2>. QED
    BY <2>3
<1>. QED
  BY <1>1, SkillInvariance, PTL
-----------------------------------------------------------------------------
(* A settled evolution stays settled *)

Settles(e) == rec[e].status \in Terminal => rec'[e].status = rec[e].status

\* A worker's step rewrites no record but that of its pipeline or of the
\* evolution it judges.
LEMMA WorkerSettles ==
    ASSUME SkillInv, OneWorker, "call" \notin Torn,
           NEW w \in Workers, Tick(w) \/ Restart(w) \/ Heartbeat(w) \/ Crash(w),
           NEW e \in Evos
    PROVE  Settles(e)
<1>1. \/ UNCHANGED rec
      \/ worker[w].at \in Pipeline /\ \E x : rec' = [rec EXCEPT ![Job(w)] = x]
      \/ rec[Job(w)].status \in Runnable /\ \E x : rec' = [rec EXCEPT ![Job(w)] = x]
      \/ worker[w].at = "tick"
  <2>1. CASE Recover(w) \/ ListPending(w) \/ Enqueue(w) \/ ClaimNext(w) \/ RenewLease(w)
               \/ CompleteStep(w) \/ UpdateStatus(w) \/ Release(w) \/ Finalize(w) \/ LeaseLost(w)
               \/ Restart(w) \/ Heartbeat(w) \/ Crash(w)
    BY <2>1 DEF Recover, ListPending, Enqueue, ClaimNext, RenewLease, CompleteStep, UpdateStatus,
       Release, Finalize, LeaseLost, Restart, Heartbeat, Crash, keepsRecords
  <2>2. CASE ProcessPending(w)
    BY <2>2 DEF ProcessPending, Awaits
  <2>3. CASE Generated(w)
    BY <2>3 DEF Generated, PipelineFails, Pipeline
  <2>4. CASE NextAttempt(w)
    BY <2>4 DEF NextAttempt, PipelineFails, Regenerate, Awaits, Pipeline
  <2>5. CASE Audited(w)
    BY <2>5 DEF Audited, PipelineFails, Regenerate, Awaits, Pipeline
  <2>6. CASE CompileCheck(w)
    <3>1. worker[w].at \in Pipeline
      BY <2>6 DEF CompileCheck, Pipeline
    <3>2. [rec EXCEPT ![Job(w)].status = "CompilePassed"]
            = [rec EXCEPT ![Job(w)] = [rec[Job(w)] EXCEPT !.status = "CompilePassed"]]
      OBVIOUS
    <3>. QED
      BY <2>6, <3>1, <3>2 DEF CompileCheck, Regenerate, Awaits
  <2>7. CASE Deploy(w)
    BY <2>7 DEF Deploy, PipelineFails, Regenerate, Awaits, Pipeline
  <2>8. CASE StartObserving(w)
    BY <2>8 DEF StartObserving, Pipeline
  <2>9. CASE TickObservations(w)
    BY <2>9 DEF TickObservations
  <2>. QED
    BY <2>1, <2>2, <2>3, <2>4, <2>5, <2>6, <2>7, <2>8, <2>9 DEF Tick
<1>2. worker[w].at \in Pipeline => rec[Job(w)].status \in Runnable
  BY DEF SkillInv, RunIsAlone, Undisturbed
<1>3. rec \in [Evos -> EvolutionRecord]
  BY DEF SkillInv, TypeOK
<1>4. CASE worker[w].at # "tick"
  <2>1. CASE UNCHANGED rec
    BY <2>1 DEF Settles
  <2>2. ASSUME rec[Job(w)].status \in Runnable, NEW x, rec' = [rec EXCEPT ![Job(w)] = x]
        PROVE  Settles(e)
    BY <1>3, <2>2 DEF Settles, Runnable, Terminal
  <2>. QED
    BY <1>1, <1>2, <1>4, <2>1, <2>2
<1>5. CASE worker[w].at = "tick"
  <2>1. TickObservations(w) \/ UNCHANGED rec
    BY <1>5 DEF Tick, Recover, ListPending, Enqueue, ClaimNext, RenewLease, CompleteStep, UpdateStatus,
       Release, Finalize, LeaseLost, Restart, Heartbeat, Crash, keepsRecords, ProcessPending,
       Generated, NextAttempt, Audited, CompileCheck, Deploy, StartObserving
  <2>2. CASE TickObservations(w)
    <3>1. PICK f \in Adopted(w) :
            LET r == IF f = 0 THEN NoRecord ELSE rec[f]
                rollback == r.status = "Observing" /\ r.rate = "high"
                complete == r.status = "Observing" /\ r.rate # "high" /\ f \in elapsed
            IN  rec' = IF rollback THEN [rec EXCEPT ![f].status = "RolledBack"]
                       ELSE IF complete THEN [rec EXCEPT ![f].status = "Completed"] ELSE rec
      BY <2>2 DEF TickObservations
    <3>2. \/ UNCHANGED rec
          \/ /\ rec[f].status = "Observing"
             /\ \E status : rec' = [rec EXCEPT ![f].status = status]
      BY <3>1 DEF NoRecord
    <3>. QED
      BY <1>3, <3>2 DEF Settles, Terminal
  <2>. QED
    BY <2>1, <2>2 DEF Settles
<1>. QED
  BY <1>4, <1>5

LEMMA ReporterSettles ==
    ASSUME SkillInv, "call" \notin Torn, NEW i \in Reporters,
           Reports(i) \/ TriggerEvolution(i) \/ SaveCall(i) \/ ErrorWindowPasses(i),
           NEW e \in Evos
    PROVE  Settles(e)
<1>1. rec \in [Evos -> EvolutionRecord]
  BY DEF SkillInv, TypeOK
<1>2. CASE Reports(i) \/ ErrorWindowPasses(i)
  BY <1>2 DEF Reports, ReportError, RequestEvolution, CountCall, ErrorWindowPasses, Settles
<1>3. CASE TriggerEvolution(i)
  <2>1. i \in Triggering
    BY <1>3 DEF TriggerEvolution, Triggering
  <2>2. Cardinality(Triggering) # 0
    BY <2>1, FreshFacts, FS_EmptySet
  <2>3. Cardinality(Fresh) # 0
    BY <2>2, FreshFacts DEF SkillInv, TypeOK, NamesAreKnown
  <2>4. Fresh # {} /\ Fresh \in SUBSET Nat
    BY <2>3, FS_EmptySet DEF Fresh, Evos
  <2>5. Min(Fresh) \in Fresh
    BY <2>4, MinMember
  <2> DEFINE f == Min(Fresh)
  <2>6. rec' = [rec EXCEPT ![f].status = "Triggered"] /\ rec[f].status = "absent" /\ f \in Evos
    BY <1>3, <2>5 DEF TriggerEvolution, Fresh
  <2> HIDE DEF f
  <2>. QED
    BY <1>1, <2>6 DEF Settles, Terminal
<1>4. CASE SaveCall(i)
  <2> DEFINE f == reporter[i].evo
  <2>1. \/ UNCHANGED rec
        \/ /\ rec[f].status = "Observing"
           /\ \E rate : rec' = [rec EXCEPT ![f].rate = rate, ![f].status = "Observing"]
    BY <1>4 DEF SaveCall
  <2> HIDE DEF f
  <2>. QED
    BY <1>1, <2>1 DEF Settles, Terminal
<1>. QED
  BY <1>2, <1>3, <1>4

\* With one worker process at a time, an evolution that has completed, failed or
\* been rolled back is not reopened by a call counted late, a pipeline resumed
\* after a crash, a cancelled or retried workflow or a cleanup, if no observation
\* ends while a call is being counted.
THEOREM SettledStaysHolds ==
    ASSUME OneWorker, "call" \notin Torn
    PROVE  Spec => SettledStays
<1>1. SkillInv /\ [Next]_vars => [\A e \in Evos : rec[e].status \in Terminal => rec'[e].status = rec[e].status]_vars
  <2> SUFFICES ASSUME SkillInv, Next, NEW e \in Evos PROVE Settles(e)
    BY DEF Settles
  <2>1. CASE \E w \in Workers : Tick(w) \/ Restart(w) \/ Heartbeat(w) \/ Crash(w)
    BY <2>1, WorkerSettles
  <2>2. CASE \E i \in Reporters : Reports(i) \/ TriggerEvolution(i) \/ SaveCall(i) \/ ErrorWindowPasses(i)
    BY <2>2, ReporterSettles
  <2>3. CASE UNCHANGED rec
    BY <2>3 DEF Settles
  <2>. QED
    BY <2>1, <2>2, <2>3 DEF Next, Cancel, Retry, LeaseExpires, onlyRow, keepsRecords, WindowElapses, CooldownEnds
<1>. QED
  BY <1>1, SkillInvariance, PTL DEF SettledStays, Spec

\* And a workflow is promoted only when its evolution has outlived its
\* observation.
THEOREM PromotedWasCompletedHolds ==
    ASSUME OneWorker, "call" \notin Torn
    PROVE  Spec => []PromotedWasCompleted
<1>1. SkillInv => PromotedWasCompleted
  BY DEF SkillInv, RunIsAlone
<1>. QED
  BY <1>1, SkillInvariance, PTL
=============================================================================
