--------------------------- MODULE CronServiceProofs ---------------------------
(***************************************************************************)
(* Proofs about CronService, for any set of jobs, any clock and any number *)
(* of saves that fail and restarts.                                        *)
(*                                                                         *)
(* Every operation of the service changes its memory and then saves; what  *)
(* a save does to the invariant is said once, for any change that Edits    *)
(* allows, and each operation is shown to be such a change.                *)
(***************************************************************************)
EXTENDS CronService, TLAPS

\* What the file is after a save.
LEMMA MergedFacts ==
    ASSUME IsStore(disk), NEW mem, IsStore(mem), NEW added, NEW deleted
    PROVE  /\ DOMAIN Merged(mem, added, deleted) =
                (DOMAIN disk \cup (IF exists THEN DOMAIN mem \cap added ELSE DOMAIN mem)) \ deleted
           /\ \A j \in DOMAIN Merged(mem, added, deleted) :
                 Merged(mem, added, deleted)[j] = IF j \in DOMAIN mem THEN mem[j] ELSE disk[j]
           /\ IsStore(Merged(mem, added, deleted))
<1> DEFINE m == Merged(mem, added, deleted)
<1>1. /\ DOMAIN m = (DOMAIN disk \cup (IF exists THEN DOMAIN mem \cap added ELSE DOMAIN mem))
                       \ deleted
      /\ \A j \in DOMAIN m : m[j] = IF j \in DOMAIN mem THEN mem[j] ELSE disk[j]
  BY DEF Merged
<1>2. \A j \in DOMAIN m : j \in DOMAIN mem \/ j \in DOMAIN disk
  BY <1>1
<1>. QED
  BY <1>1, <1>2 DEF IsStore

\* The execution state of a record.
Same(a, b) == a.next = b.next /\ a.last = b.last

\* A change of the memory by an operation of the service: jobs are added with
\* new ids or removed because this was asked for, and no execution state changes.
Edits(mem, added, deleted) ==
    /\ IsStore(mem) /\ added \subseteq Jobs /\ deleted \subseteq Jobs
    /\ used \subseteq used' /\ used' \subseteq Jobs
    /\ asked \subseteq asked' /\ asked' \subseteq used'
    /\ listed' \subseteq used' /\ removed' \subseteq asked'
    /\ DOMAIN mem \cup added \subseteq used'
    /\ \A j \in DOMAIN mem : IF j \in DOMAIN jobs THEN Same(mem[j], jobs[j])
                             ELSE j \in added \ used /\ mem[j] = New
    /\ \A j \in DOMAIN jobs \ DOMAIN mem : j \in asked'
    /\ added \ pending_added_ids \subseteq used' \ used
    /\ pending_added_ids \ added \subseteq asked' \ DOMAIN mem
    /\ deleted \ pending_deleted_ids \subseteq asked'
    /\ pending_deleted_ids \ deleted \subseteq Jobs \ used

\* Around a save no execution is under way.
SaveFrame ==
    /\ phase \notin {"executing", "waiting"} /\ phase' \in {"idle", "executing"}
    /\ jobs_to_run' \subseteq jobs_to_run
    /\ running' = None /\ DOMAIN delivery_results' = {}
    /\ UNCHANGED <<now_ms, now, acked, lastTick>>
    /\ restarts' \in 0 .. MaxRestarts

\* A save that succeeds after such a change, or at the end of the process.
LEMMA EditSaved ==
    ASSUME CronInv, NEW mem, NEW added, NEW deleted, Edits(mem, added, deleted), SaveFrame,
           disk' = Merged(mem, added, deleted), exists' = TRUE, jobs' = disk', stale' \in BOOLEAN,
           has_unsaved_changes' = FALSE, pending_added_ids' = {}, pending_deleted_ids' = {},
           faults' = faults,
           listed' \ listed \subseteq DOMAIN mem \cap added, removed' \ removed \subseteq deleted
    PROVE  CronInv'
<1>1. /\ DOMAIN disk' = (DOMAIN disk \cup (IF exists THEN DOMAIN mem \cap added ELSE DOMAIN mem))
                           \ deleted
      /\ \A j \in DOMAIN disk' : disk'[j] = IF j \in DOMAIN mem THEN mem[j] ELSE disk[j]
      /\ IsStore(disk')
  <2>1. IsStore(disk) /\ IsStore(mem)
    BY DEF CronInv, TypeOK, Edits
  <2> DEFINE m == Merged(mem, added, deleted)
  <2>2. /\ DOMAIN m = (DOMAIN disk \cup (IF exists THEN DOMAIN mem \cap added ELSE DOMAIN mem))
                         \ deleted
        /\ \A j \in DOMAIN m : m[j] = IF j \in DOMAIN mem THEN mem[j] ELSE disk[j]
        /\ IsStore(m)
    BY <2>1, MergedFacts
  <2> HIDE DEF m
  <2>3. disk' = m
    BY DEF m
  <2>. QED
    BY <2>2, <2>3
<1>2. TypeOK'
  <2>1. jobs_to_run' \subseteq Jobs /\ DOMAIN delivery_results' \subseteq Jobs
    BY DEF CronInv, TypeOK, SaveFrame
  <2>2. (phase' = "waiting") = (running' # None)
    BY DEF SaveFrame
  <2>3. IsStore(jobs)'
    BY <1>1
  <2>4. now' \in 0..MaxNow /\ now_ms' \in 0..now' /\ faults' \in 0..MaxFaults
    BY DEF CronInv, TypeOK, SaveFrame
  <2>5. /\ acked' \in [Jobs -> {"no", "yes", "unsure"}]
        /\ lastTick' \in [Jobs -> 0..now' \cup {None}]
    BY DEF CronInv, TypeOK, SaveFrame
  <2>. QED
    BY <1>1, <2>1, <2>2, <2>3, <2>4, <2>5 DEF TypeOK, SaveFrame, Edits
<1>3. IdsKnown'
  BY <1>1 DEF CronInv, IdsKnown, TypeOK, Edits, SaveFrame
<1>4. InStep'
  BY <1>1 DEF InStep
<1>5. RecordsAreTrue'
  <2>1. \A j \in DOMAIN mem : mem[j].last => acked[j] # "no"
    BY DEF CronInv, RecordsAreTrue, Edits, Same, New
  <2>. QED
    BY <1>1, <2>1 DEF CronInv, RecordsAreTrue, SaveFrame
<1>6. NothingLost'
  BY <1>1 DEF CronInv, NothingLost, IdsKnown, Edits, SaveFrame
<1>7. RemovedStaysRemoved'
  BY <1>1 DEF CronInv, RemovedStaysRemoved, IdsKnown, TypeOK, Edits
<1>8. TickKnows'
  <2>1. ASSUME NEW j \in Jobs \ asked', Durable(j), j \in jobs_to_run'
        PROVE  j \in DOMAIN jobs'
    <3>1. j \in DOMAIN jobs /\ j \notin pending_deleted_ids /\ j \notin asked
      BY <2>1 DEF CronInv, TickKnows, Edits, SaveFrame
    <3>2. j \in DOMAIN mem /\ j \notin deleted
      BY <2>1, <3>1 DEF Edits
    <3>3. j \in DOMAIN disk \/ j \in added
      BY <2>1, <3>1 DEF CronInv, IdsKnown, Edits
    <3>. QED
      BY <1>1, <3>2, <3>3
  <2>. QED
    <3>1. running' \notin jobs_to_run' \cup DOMAIN delivery_results'
      BY CronAssumption DEF CronInv, TypeOK, SaveFrame
    <3>2. \A j \in Jobs \ asked' :
             j \in jobs_to_run' \cup {running'} \cup DOMAIN delivery_results' => j \in jobs_to_run'
      BY CronAssumption DEF SaveFrame
    <3>3. /\ \A j \in Jobs : lastTick'[j] # None => lastTick'[j] <= now_ms'
          /\ (DOMAIN delivery_results' \cup {running'}) \ {None} = {}
          /\ jobs_to_run' \cap DOMAIN delivery_results' = {}
      BY DEF CronInv, TickKnows, SaveFrame
    <3>. QED
      BY <2>1, <3>1, <3>2, <3>3 DEF TickKnows, SaveFrame, Durable
<1>9. RunsAreNoted'
  <2> SUFFICES ASSUME NEW j \in Jobs \ asked', Durable(j), Ran(j)'
               PROVE  /\ j \in jobs_to_run' => Kind[j] = "every" /\ now_ms' >= lastTick'[j] + Every
                      /\ Kind[j] = "at" => running' # j
                      /\ j \in DOMAIN jobs' => Noted(j, jobs[j])'
    BY <1>1 DEF RunsAreNoted, Durable
  <2>1. Ran(j) /\ j \notin asked
    BY DEF Ran, SaveFrame, Edits
  <2>2. j \in used
    BY <2>1 DEF CronInv, IdsKnown, Ran
  <2>3. /\ j \in jobs_to_run => Kind[j] = "every" /\ now_ms >= lastTick[j] + Every
        /\ j \in DOMAIN jobs => Noted(j, jobs[j])
        /\ j \notin DOMAIN jobs => j \notin DOMAIN disk \/ j \in pending_deleted_ids
    BY <2>1 DEF CronInv, RunsAreNoted, InTick, SaveFrame
  <2>4. ASSUME j \in DOMAIN jobs' PROVE Noted(j, jobs[j])'
    <3>1. CASE j \in DOMAIN mem
      <4>1. j \in DOMAIN jobs /\ Same(mem[j], jobs[j])
        BY <2>2, <3>1 DEF Edits
      <4>2. Noted(j, jobs[j])'
        <5>1. Noted(j, jobs[j]) /\ jobs'[j] = mem[j] /\ UNCHANGED lastTick
          BY <1>1, <2>3, <2>4, <3>1, <4>1 DEF SaveFrame
        <5>. QED
          BY <4>1, <5>1 DEF Noted, Same
      <4>. QED
        BY <4>2
    <3>2. CASE j \notin DOMAIN mem
      BY <1>1, <2>2, <2>3, <2>4, <3>2 DEF Edits
    <3>. QED
      BY <3>1, <3>2
  <2>5. running' # j
    BY CronAssumption DEF SaveFrame
  <2>. QED
    BY <2>3, <2>4, <2>5 DEF SaveFrame
<1>. QED
  BY <1>2, <1>3, <1>4, <1>5, <1>6, <1>7, <1>8, <1>9 DEF CronInv

\* A save that fails after such a change.
LEMMA EditNotSaved ==
    ASSUME CronInv, NEW mem, NEW added, NEW deleted, Edits(mem, added, deleted), SaveFrame,
           NotSaved(mem, added, deleted), listed' = listed, removed' = removed
    PROVE  CronInv'
<1>1. /\ jobs' = mem /\ disk' = disk /\ exists' = exists /\ stale' = stale
      /\ has_unsaved_changes' = TRUE
      /\ pending_added_ids' = added /\ pending_deleted_ids' = deleted
      /\ faults < MaxFaults /\ faults' = faults + 1
  BY DEF NotSaved, store
<1>0. MaxFaults # 0 /\ faults' \in 0..MaxFaults
  BY <1>1, CronAssumption DEF CronInv, TypeOK
<1>2. TypeOK'
  <2>1. jobs_to_run' \subseteq Jobs /\ DOMAIN delivery_results' \subseteq Jobs
    BY DEF CronInv, TypeOK, SaveFrame
  <2>2. (phase' = "waiting") = (running' # None)
    BY DEF SaveFrame
  <2>3. IsStore(jobs)' /\ IsStore(disk)'
    BY <1>1 DEF CronInv, TypeOK, Edits
  <2>4. now' \in 0..MaxNow /\ now_ms' \in 0..now'
    BY DEF CronInv, TypeOK, SaveFrame
  <2>5. /\ acked' \in [Jobs -> {"no", "yes", "unsure"}]
        /\ lastTick' \in [Jobs -> 0..now' \cup {None}]
    BY DEF CronInv, TypeOK, SaveFrame
  <2>6. exists' \in BOOLEAN /\ stale' \in BOOLEAN
    BY <1>1 DEF CronInv, TypeOK
  <2>. QED
    BY <1>0, <1>1, <2>1, <2>2, <2>3, <2>4, <2>5, <2>6 DEF TypeOK, SaveFrame, Edits
<1>3. IdsKnown'
  <2>1. ~exists => DOMAIN disk = {} /\ removed = {}
    BY DEF CronInv, IdsKnown
  <2>2. DOMAIN disk' \cup DOMAIN jobs' \cup pending_added_ids' \cup asked' \subseteq used'
    BY <1>1 DEF CronInv, IdsKnown, Edits
  <2>3. jobs_to_run' \cup ({running'} \ {None}) \subseteq used'
    BY DEF CronInv, IdsKnown, Edits, SaveFrame
  <2>4. \A j \in Jobs \ used' : acked'[j] = "no" /\ lastTick'[j] = None
    BY DEF CronInv, IdsKnown, Edits, SaveFrame
  <2>5. pending_added_ids' \cap (DOMAIN disk' \cup removed') = {}
    BY <1>1 DEF CronInv, IdsKnown, TypeOK, Edits
  <2>6. /\ DOMAIN jobs' \ asked' \subseteq DOMAIN disk' \cup pending_added_ids'
        /\ ~stale' => DOMAIN jobs' \subseteq DOMAIN disk' \cup pending_added_ids'
    BY <1>1 DEF CronInv, IdsKnown, Edits
  <2>7. pending_deleted_ids' \subseteq asked' \cup {j \in DeleteAfterRun : acked'[j] # "no"}
    BY <1>1 DEF CronInv, IdsKnown, Edits, SaveFrame
  <2>. QED
    BY <1>1, <2>1, <2>2, <2>3, <2>4, <2>5, <2>6, <2>7 DEF IdsKnown
<1>4. InStep'
  BY <1>1 DEF InStep
<1>5. RecordsAreTrue'
  <2>1. \A j \in DOMAIN mem : mem[j].last => acked[j] # "no"
    BY DEF CronInv, RecordsAreTrue, Edits, Same, New
  <2>. QED
    BY <1>1, <2>1 DEF CronInv, RecordsAreTrue, SaveFrame
<1>6. NothingLost'
  BY <1>1 DEF CronInv, NothingLost, Edits, SaveFrame
<1>7. RemovedStaysRemoved'
  BY <1>1 DEF CronInv, RemovedStaysRemoved
<1>8. TickKnows'
  <2>1. ASSUME NEW j \in Jobs \ asked', Durable(j), j \in jobs_to_run'
        PROVE  j \in DOMAIN jobs'
    BY <1>1, <2>1 DEF CronInv, TickKnows, Edits, SaveFrame
  <2>2. ASSUME NEW j \in Jobs \ asked', Durable(j) PROVE j \notin pending_deleted_ids'
    <3>1. j \notin DeleteAfterRun /\ j \notin asked
      BY <1>0, <2>2 DEF Durable, Edits
    <3>. QED
      BY <1>1, <3>1, <2>2 DEF CronInv, IdsKnown, Edits
  <2>3. running' \notin jobs_to_run' \cup DOMAIN delivery_results'
    BY CronAssumption DEF CronInv, TypeOK, SaveFrame
  <2>4. \A j \in Jobs \ asked' :
           j \in jobs_to_run' \cup {running'} \cup DOMAIN delivery_results' => j \in jobs_to_run'
    BY CronAssumption DEF SaveFrame
  <2>5. /\ \A j \in Jobs : lastTick'[j] # None => lastTick'[j] <= now_ms'
        /\ (DOMAIN delivery_results' \cup {running'}) \ {None} = {}
        /\ jobs_to_run' \cap DOMAIN delivery_results' = {}
    BY DEF CronInv, TickKnows, SaveFrame
  <2>. QED
    BY <2>1, <2>2, <2>3, <2>4, <2>5 DEF TickKnows, SaveFrame, Durable
<1>9. RunsAreNoted'
  <2> SUFFICES ASSUME NEW j \in Jobs \ asked', Durable(j), Ran(j)'
               PROVE  /\ j \in jobs_to_run' => Kind[j] = "every" /\ now_ms' >= lastTick'[j] + Every
                      /\ Kind[j] = "at" => running' # j
                      /\ j \in DOMAIN jobs' => Noted(j, jobs[j])'
                      /\ j \notin DOMAIN jobs' => j \notin DOMAIN disk' \/ j \in pending_deleted_ids'
    BY <1>1 DEF RunsAreNoted, Durable
  <2>1. Ran(j) /\ j \notin asked
    BY DEF Ran, SaveFrame, Edits
  <2>2. j \in used
    BY <2>1 DEF CronInv, IdsKnown, Ran
  <2>3. /\ j \in jobs_to_run => Kind[j] = "every" /\ now_ms >= lastTick[j] + Every
        /\ j \in DOMAIN jobs => Noted(j, jobs[j])
        /\ j \notin DOMAIN jobs => j \notin DOMAIN disk \/ j \in pending_deleted_ids
    BY <2>1 DEF CronInv, RunsAreNoted, InTick, SaveFrame
  <2>4. ASSUME j \in DOMAIN mem PROVE Noted(j, jobs[j])'
    <3>1. j \in DOMAIN jobs /\ Same(mem[j], jobs[j])
      BY <2>2, <2>4 DEF Edits
    <3>2. Noted(j, jobs[j]) /\ jobs'[j] = mem[j] /\ UNCHANGED lastTick
      BY <1>1, <2>3, <3>1 DEF SaveFrame
    <3>. QED
      BY <3>1, <3>2 DEF Noted, Same
  <2>5. ASSUME j \notin DOMAIN mem
        PROVE  j \notin DOMAIN disk' \/ j \in pending_deleted_ids'
    BY <1>1, <2>2, <2>3, <2>5 DEF Edits
  <2>6. running' # j
    BY CronAssumption DEF SaveFrame
  <2>. QED
    BY <1>1, <2>3, <2>4, <2>5, <2>6 DEF SaveFrame
<1>. QED
  BY <1>2, <1>3, <1>4, <1>5, <1>6, <1>7, <1>8, <1>9 DEF CronInv

\* An operation of the service that changes the memory and saves it.
LEMMA EditStep ==
    ASSUME CronInv, NEW mem, NEW added, NEW deleted, Edits(mem, added, deleted), SaveFrame,
           NEW ok \in BOOLEAN, Save(mem, added, deleted, ok),
           listed' \ listed \subseteq DOMAIN mem \cap added, removed' \ removed \subseteq deleted,
           listed \subseteq listed', removed \subseteq removed',
           ~ok => listed' = listed /\ removed' = removed
    PROVE  CronInv'
<1>1. CASE ok
  <2>1. Saved(mem, added, deleted)
    BY <1>1 DEF Save
  <2>2. /\ disk' = Merged(mem, added, deleted) /\ exists' = TRUE /\ jobs' = disk'
        /\ stale' \in BOOLEAN /\ has_unsaved_changes' = FALSE
        /\ pending_added_ids' = {} /\ pending_deleted_ids' = {} /\ faults' = faults
    BY <2>1 DEF Saved
  <2>. QED
    BY <2>2, EditSaved
<1>2. CASE ~ok
  <2>1. NotSaved(mem, added, deleted)
    BY <1>2 DEF Save
  <2>. QED
    BY <1>2, <2>1, EditNotSaved
<1>. QED
  BY <1>1, <1>2

\* The memory as it is is such a change.
LEMMA NoEdit ==
    ASSUME CronInv, UNCHANGED history
    PROVE  Edits(jobs, pending_added_ids, pending_deleted_ids)
  BY DEF CronInv, TypeOK, IdsKnown, Edits, Same, history

LEMMA SavesStep ==
    ASSUME CronInv, NEW ok \in BOOLEAN, SaveSchedule(ok) \/ SaveResults(ok)
    PROVE  CronInv'
<1>1. Edits(jobs, pending_added_ids, pending_deleted_ids)
  BY NoEdit DEF SaveSchedule, SaveResults
<1>2. SaveFrame
  BY DEF CronInv, TypeOK, TickKnows, SaveFrame, SaveSchedule, SaveResults, history
<1>3. Save(jobs, pending_added_ids, pending_deleted_ids, ok) /\ listed' = listed /\ removed' = removed
  BY DEF SaveSchedule, SaveResults, history
<1>. QED
  BY <1>1, <1>2, <1>3, EditStep

LEMMA OperationsStep ==
    ASSUME CronInv, NEW j \in Jobs, NEW ok \in BOOLEAN, NEW enabled \in BOOLEAN,
           add_job(j, ok) \/ remove_job(j, ok) \/ update_job_enabled(j, enabled, ok)
    PROVE  CronInv'
<1>0. SaveFrame
  BY DEF CronInv, TypeOK, TickKnows, SaveFrame, add_job, remove_job, update_job_enabled, tick, history
<1>1. CASE add_job(j, ok)
  <2> DEFINE mem == With(jobs, j, New)
  <2>1. /\ j \in Jobs \ used /\ used' = used \cup {j} /\ asked' = asked /\ removed' = removed
        /\ listed' = IF ok THEN listed \cup {j} ELSE listed
        /\ Save(mem, pending_added_ids \cup {j}, pending_deleted_ids \ {j}, ok)
    BY <1>1, CronAssumption DEF add_job
  <2>2. DOMAIN mem = DOMAIN jobs \cup {j} /\ mem[j] = New
        /\ \A k \in DOMAIN jobs \ {j} : mem[k] = jobs[k]
    BY DEF With
  <2> HIDE DEF mem
  <2>3. IsStore(mem)
    <3>1. New \in JobRecord
      BY DEF New, JobRecord
    <3>2. IsStore(jobs)
      BY DEF CronInv, TypeOK
    <3>. QED
      BY <2>2, <3>1, <3>2 DEF IsStore
  <2>4. Edits(mem, pending_added_ids \cup {j}, pending_deleted_ids \ {j})
    BY <2>1, <2>2, <2>3 DEF CronInv, TypeOK, IdsKnown, Edits, Same
  <2>5. /\ listed' \ listed \subseteq DOMAIN mem \cap (pending_added_ids \cup {j})
        /\ removed' \ removed \subseteq pending_deleted_ids \ {j}
        /\ listed \subseteq listed' /\ removed \subseteq removed'
        /\ ~ok => listed' = listed /\ removed' = removed
    BY <2>1, <2>2
  <2>. QED
    BY <1>0, <2>1, <2>4, <2>5, EditStep
<1>2. CASE remove_job(j, ok)
  <2> DEFINE mem == Without(jobs, {j})
  <2>1. /\ j \in DOMAIN jobs /\ used' = used /\ asked' = asked \cup {j} /\ listed' = listed
        /\ removed' = IF ok THEN removed \cup {j} ELSE removed
        /\ Save(mem, pending_added_ids \ {j}, pending_deleted_ids \cup {j}, ok)
    BY <1>2 DEF remove_job
  <2>2. DOMAIN mem = DOMAIN jobs \ {j} /\ \A k \in DOMAIN mem : mem[k] = jobs[k]
    BY DEF Without
  <2> HIDE DEF mem
  <2>3. IsStore(mem)
    BY <2>2 DEF CronInv, TypeOK, IsStore
  <2>4. Edits(mem, pending_added_ids \ {j}, pending_deleted_ids \cup {j})
    BY <2>1, <2>2, <2>3 DEF CronInv, TypeOK, IdsKnown, Edits, Same
  <2>5. /\ listed' \ listed \subseteq DOMAIN mem \cap (pending_added_ids \ {j})
        /\ removed' \ removed \subseteq pending_deleted_ids \cup {j}
        /\ listed \subseteq listed' /\ removed \subseteq removed'
        /\ ~ok => listed' = listed /\ removed' = removed
    BY <2>1
  <2>. QED
    BY <1>0, <2>1, <2>4, <2>5, EditStep
<1>3. CASE update_job_enabled(j, enabled, ok)
  <2> DEFINE mem == [jobs EXCEPT ![j].enabled = enabled]
  <2>1. /\ j \in DOMAIN jobs /\ UNCHANGED history
        /\ Save(mem, pending_added_ids, pending_deleted_ids, ok)
    BY <1>3 DEF update_job_enabled
  <2>2. /\ DOMAIN mem = DOMAIN jobs /\ IsStore(mem)
        /\ \A k \in DOMAIN mem : Same(mem[k], jobs[k])
    BY DEF CronInv, TypeOK, IsStore, JobRecord, Same
  <2> HIDE DEF mem
  <2>3. Edits(mem, pending_added_ids, pending_deleted_ids)
    BY <2>1, <2>2 DEF CronInv, TypeOK, IdsKnown, Edits, history
  <2>4. listed' = listed /\ removed' = removed
    BY <2>1 DEF history
  <2>. QED
    BY <1>0, <2>1, <2>3, <2>4, EditStep
<1>. QED
  BY <1>1, <1>2, <1>3

\* What a tick has in memory after it looked at the file.
Loaded(readable) == IF exists /\ stale /\ readable THEN merge_load ELSE jobs

\* It loses no execution state of this process.
LEMMA LoadedFacts ==
    ASSUME CronInv, NEW readable \in BOOLEAN, NEW loaded, loaded = Loaded(readable)
    PROVE  /\ IsStore(loaded)
           /\ DOMAIN loaded = IF exists /\ stale /\ readable THEN DOMAIN disk ELSE DOMAIN jobs
           /\ \A j \in DOMAIN loaded \cap DOMAIN jobs :
                 /\ jobs[j].last => loaded[j].last
                 /\ jobs[j].next # None => loaded[j].next = jobs[j].next
           /\ \A j \in DOMAIN loaded \ DOMAIN jobs : j \in DOMAIN disk /\ loaded[j] = disk[j]
           /\ \A j \in DOMAIN loaded : loaded[j].last => acked[j] # "no"
           /\ ~has_unsaved_changes =>
                 \A j \in DOMAIN loaded \cap DOMAIN disk : Same(loaded[j], disk[j])
<1>0. IsStore(disk) /\ IsStore(jobs)
  BY DEF CronInv, TypeOK
<1>1. CASE exists /\ stale /\ readable
  <2>1. loaded = merge_load
    BY <1>1 DEF Loaded
  <2>2. DOMAIN loaded = DOMAIN disk
    BY <2>1 DEF merge_load
  <2>3. ASSUME NEW j \in DOMAIN disk \ DOMAIN jobs PROVE loaded[j] = disk[j]
    BY <2>1 DEF merge_load
  <2>4. ASSUME NEW j \in DOMAIN disk \cap DOMAIN jobs
        PROVE  /\ loaded[j] \in JobRecord
               /\ loaded[j].next = IF jobs[j].next # None THEN jobs[j].next ELSE disk[j].next
               /\ loaded[j].last = (disk[j].last \/ jobs[j].last)
    <3>1. loaded[j] = [disk[j] EXCEPT !.next = IF jobs[j].next # None THEN jobs[j].next ELSE @,
                                      !.last = @ \/ jobs[j].last]
      BY <2>1 DEF merge_load
    <3>2. disk[j] \in JobRecord /\ jobs[j] \in JobRecord
      BY <1>0 DEF IsStore
    <3> DEFINE n == IF jobs[j].next # None THEN jobs[j].next ELSE disk[j].next
               l == disk[j].last \/ jobs[j].last
    <3>3. n \in Nat \cup {None} /\ l \in BOOLEAN
      BY <3>2 DEF JobRecord
    <3>4. loaded[j] = [disk[j] EXCEPT !.next = n, !.last = l]
      BY <3>1, <3>2 DEF JobRecord
    <3> HIDE DEF n, l
    <3>5. loaded[j] \in JobRecord /\ loaded[j].next = n /\ loaded[j].last = l
      BY <3>2, <3>3, <3>4 DEF JobRecord
    <3>. QED
      BY <3>5 DEF n, l
  <2>5. IsStore(loaded)
    BY <1>0, <2>2, <2>3, <2>4 DEF IsStore
  <2>6. \A j \in DOMAIN loaded : loaded[j].last => acked[j] # "no"
    BY <2>2, <2>3, <2>4 DEF CronInv, RecordsAreTrue
  <2>7. ASSUME ~has_unsaved_changes, NEW j \in DOMAIN disk PROVE Same(loaded[j], disk[j])
    <3>1. CASE j \in DOMAIN jobs
      <4>1. /\ jobs[j].next = disk[j].next /\ jobs[j].last = disk[j].last
            /\ disk[j] \in JobRecord
        BY <1>0, <2>7, <3>1 DEF CronInv, InStep, IsStore
      <4>2. disk[j].last \in BOOLEAN
        BY <4>1 DEF JobRecord
      <4>3. loaded[j].last = disk[j].last /\ loaded[j].next = disk[j].next
        BY <2>4, <3>1, <4>1, <4>2
      <4>. QED
        BY <4>3 DEF Same
    <3>2. CASE j \notin DOMAIN jobs
      BY <2>3, <3>2 DEF Same
    <3>. QED
      BY <3>1, <3>2
  <2>. QED
    BY <1>1, <2>2, <2>3, <2>4, <2>5, <2>6, <2>7
<1>2. CASE ~(exists /\ stale /\ readable)
  <2>1. loaded = jobs
    BY <1>2 DEF Loaded
  <2>. QED
    BY <1>0, <1>2, <2>1 DEF CronInv, RecordsAreTrue, InStep, Same
<1>. QED
  BY <1>1, <1>2

\* The scan of a tick keeps the execution state of a record.
LEMMA ScannedFacts ==
    ASSUME NEW j \in Jobs, NEW job \in JobRecord, now \in Nat
    PROVE  /\ Scanned(j, job) \in JobRecord
           /\ Scanned(j, job).last = job.last
           /\ job.next # None => Scanned(j, job).next = job.next
<1>1. At[j] \in Nat /\ now + Every \in Nat
  BY CronAssumption
<1>2. [job EXCEPT !.enabled = FALSE] \in JobRecord
  BY DEF JobRecord
<1>3. ASSUME NEW n \in Nat
      PROVE  [job EXCEPT !.next = n] \in JobRecord /\ [job EXCEPT !.next = n].last = job.last
  BY DEF JobRecord
<1>4. /\ [job EXCEPT !.enabled = FALSE].last = job.last
      /\ [job EXCEPT !.enabled = FALSE].next = job.next
  BY DEF JobRecord
<1>5. \/ Scanned(j, job) = job
      \/ Scanned(j, job) = [job EXCEPT !.enabled = FALSE]
      \/ job.next = None /\ \E n \in Nat : Scanned(j, job) = [job EXCEPT !.next = n]
  BY <1>1 DEF Scanned
<1>. QED
  BY <1>2, <1>3, <1>4, <1>5

LEMMA BeginTickStep ==
    ASSUME CronInv, NEW readable \in BOOLEAN, BeginTick(readable)
    PROVE  CronInv'
<1> DEFINE loaded == Loaded(readable)
           due == {j \in DOMAIN loaded : should_run(j, loaded[j])}
<1>1. /\ phase = "idle" /\ jobs' = [j \in DOMAIN loaded |-> Scanned(j, loaded[j])]
      /\ jobs_to_run' = due
      /\ has_unsaved_changes' = (has_unsaved_changes \/ jobs' # loaded)
      /\ phase' \in {"initialised", "executing", "idle"}
      /\ stale' = (stale /\ ~(exists /\ readable)) /\ now_ms' = now
      /\ faults' = IF readable THEN faults ELSE faults + 1
      /\ readable \/ faults < MaxFaults
      /\ UNCHANGED <<store, pending_added_ids, pending_deleted_ids, running, delivery_results, now,
                     history, restarts>>
  BY DEF BeginTick, Loaded
<1>2. UNCHANGED <<disk, exists, used, listed, asked, removed, acked, lastTick>>
  BY <1>1 DEF store, history
<1>3. /\ IsStore(loaded)
      /\ DOMAIN loaded = IF exists /\ stale /\ readable THEN DOMAIN disk ELSE DOMAIN jobs
      /\ \A j \in DOMAIN loaded \cap DOMAIN jobs :
            /\ jobs[j].last => loaded[j].last
            /\ jobs[j].next # None => loaded[j].next = jobs[j].next
      /\ \A j \in DOMAIN loaded \ DOMAIN jobs : j \in DOMAIN disk /\ loaded[j] = disk[j]
      /\ \A j \in DOMAIN loaded : loaded[j].last => acked[j] # "no"
      /\ ~has_unsaved_changes =>
            \A j \in DOMAIN loaded \cap DOMAIN disk : Same(loaded[j], disk[j])
  BY LoadedFacts
<1> HIDE DEF loaded
<1>4. now \in Nat /\ now_ms \in 0..now /\ now \in 0..MaxNow /\ running = None
      /\ DOMAIN delivery_results = {}
  BY <1>1, CronAssumption DEF CronInv, TypeOK, TickKnows
<1>5. ASSUME NEW j \in DOMAIN loaded
      PROVE  /\ j \in Jobs /\ jobs'[j] \in JobRecord /\ jobs'[j].last = loaded[j].last
             /\ loaded[j].next # None => jobs'[j].next = loaded[j].next
  <2>1. j \in Jobs /\ loaded[j] \in JobRecord /\ jobs'[j] = Scanned(j, loaded[j])
    BY <1>1, <1>3 DEF IsStore
  <2>. QED
    BY <1>4, <2>1, ScannedFacts
<1>6. DOMAIN jobs' = DOMAIN loaded /\ due \subseteq DOMAIN loaded /\ DOMAIN loaded \subseteq Jobs
  BY <1>1, <1>3 DEF IsStore
<1>7. TypeOK'
  <2>1. IsStore(jobs)'
    BY <1>5, <1>6 DEF IsStore
  <2>2. (phase' = "waiting") = (running' # None)
    BY <1>1, <1>4
  <2>3. faults' \in 0..MaxFaults
    BY <1>1, CronAssumption DEF CronInv, TypeOK
  <2>4. has_unsaved_changes' \in BOOLEAN /\ stale' \in BOOLEAN
    BY <1>1 DEF CronInv, TypeOK
  <2>5. now_ms' \in 0..now'
    BY <1>1, <1>4
  <2>. QED
    BY <1>1, <1>2, <1>4, <1>6, <2>1, <2>2, <2>3, <2>4, <2>5 DEF CronInv, TypeOK
<1>8. IdsKnown'
  <2>1. /\ DOMAIN jobs' \subseteq DOMAIN disk \cup DOMAIN jobs
        /\ stale /\ ~stale' => DOMAIN jobs' \subseteq DOMAIN disk
        /\ ~stale => DOMAIN jobs' = DOMAIN jobs
    BY <1>1, <1>3, <1>6
  <2>. QED
    BY <1>1, <1>2, <1>4, <1>6, <2>1 DEF CronInv, IdsKnown
<1>9. InStep'
  <2> SUFFICES ASSUME ~has_unsaved_changes'
               PROVE  /\ pending_added_ids = {} /\ pending_deleted_ids = {}
                      /\ \A j \in DOMAIN jobs' \cap DOMAIN disk :
                            jobs'[j].next = disk[j].next /\ jobs'[j].last = disk[j].last
    BY <1>1, <1>2 DEF InStep
  <2>1. ~has_unsaved_changes /\ jobs' = loaded
    BY <1>1
  <2>. QED
    BY <1>3, <2>1 DEF CronInv, InStep, Same
<1>10. RecordsAreTrue'
  BY <1>1, <1>2, <1>3, <1>5, <1>6 DEF CronInv, RecordsAreTrue
<1>11. NothingLost' /\ RemovedStaysRemoved'
  BY <1>2 DEF CronInv, NothingLost, RemovedStaysRemoved
<1>12. TickKnows'
  <2>1. \A j \in Jobs : lastTick[j] # None => lastTick[j] <= now
    BY <1>4 DEF CronInv, TypeOK, TickKnows
  <2>2. \A j \in Jobs \ asked : Durable(j) => j \notin pending_deleted_ids
    BY <1>1 DEF CronInv, TickKnows
  <2>3. None \notin Jobs
    BY CronAssumption
  <2>. QED
    BY <1>1, <1>2, <1>4, <1>6, <2>1, <2>2, <2>3 DEF TickKnows, Durable
<1>13. RunsAreNoted'
  <2> SUFFICES ASSUME NEW j \in Jobs \ asked, Durable(j), Ran(j)'
               PROVE  /\ j \in due => Kind[j] = "every" /\ now >= lastTick[j] + Every
                      /\ Kind[j] = "at" => running' # j
                      /\ j \in DOMAIN jobs' => Noted(j, jobs[j])'
                      /\ j \notin DOMAIN jobs' => j \notin DOMAIN disk' \/ j \in pending_deleted_ids'
    BY <1>1, <1>2 DEF RunsAreNoted, Durable
  <2>1. Ran(j)
    BY <1>2 DEF Ran
  <2>2. /\ j \in DOMAIN jobs => Noted(j, jobs[j])
        /\ j \notin DOMAIN jobs => j \notin DOMAIN disk
    BY <1>1, <2>1 DEF CronInv, RunsAreNoted, InTick, TickKnows
  <2>3. ASSUME j \in DOMAIN loaded
        PROVE  j \in DOMAIN jobs /\ Noted(j, jobs[j]) /\ Noted(j, loaded[j])
    <3>1. j \in DOMAIN jobs /\ Noted(j, jobs[j])
      BY <1>3, <2>2, <2>3
    <3>2. /\ jobs[j].last => loaded[j].last
          /\ jobs[j].next # None => loaded[j].next = jobs[j].next
      BY <1>3, <2>3, <3>1
    <3>. QED
      BY <3>1, <3>2 DEF Noted
  <2>4. ASSUME j \in DOMAIN jobs' PROVE Noted(j, jobs[j])'
    <3>1. Noted(j, loaded[j]) /\ jobs'[j].last = loaded[j].last
          /\ (loaded[j].next # None => jobs'[j].next = loaded[j].next)
      BY <1>5, <1>6, <2>3, <2>4
    <3>. QED
      BY <1>2, <3>1 DEF Noted
  <2>5. ASSUME j \in due PROVE Kind[j] = "every" /\ now >= lastTick[j] + Every
    <3>1. j \in DOMAIN loaded /\ Noted(j, loaded[j]) /\ should_run(j, loaded[j])
      BY <2>3, <2>5
    <3>2. Kind[j] # "at"
      BY <3>1 DEF should_run, HasFired, Noted
    <3>3. /\ loaded[j].next # None /\ loaded[j].next >= lastTick[j] + Every
          /\ loaded[j].next <= now
      BY <3>1, <3>2 DEF should_run, Noted
    <3>4. loaded[j].next \in Nat /\ lastTick[j] \in Nat /\ Every \in Nat /\ now \in Nat
      <4>1. loaded[j].next \in Nat
        BY <1>3, <3>1, <3>3 DEF IsStore, JobRecord
      <4>2. lastTick[j] \in Nat
        BY <2>1, <3>2 DEF Ran, CronInv, TypeOK
      <4>. QED
        BY <1>4, <4>1, <4>2, CronAssumption
    <3>5. now >= lastTick[j] + Every
      BY <3>3, <3>4
    <3>. QED
      BY <3>2, <3>5, CronAssumption
  <2>6. j \notin DOMAIN jobs' => j \notin DOMAIN disk'
    BY <1>2, <1>3, <1>6, <2>2
  <2>. QED
    BY <1>4, <1>1, <2>4, <2>5, <2>6, CronAssumption
<1>. QED
  BY <1>7, <1>8, <1>9, <1>10, <1>11, <1>12, <1>13 DEF CronInv

LEMMA ExecuteStep ==
    ASSUME CronInv, NEW j \in Jobs, Execute(j)
    PROVE  CronInv'
<1>1. /\ phase = "executing" /\ j \in jobs_to_run /\ phase' = "waiting" /\ running' = j
      /\ jobs_to_run' = jobs_to_run \ {j} /\ lastTick' = [lastTick EXCEPT ![j] = now_ms]
      /\ UNCHANGED <<disk, exists, jobs, stale, has_unsaved_changes, pending_added_ids,
                     pending_deleted_ids, delivery_results, now_ms, now, used, listed, asked,
                     removed, acked, faults, restarts>>
  BY DEF Execute, store, memory
<1>2. /\ now_ms \in 0..now /\ now \in Nat /\ j # None /\ running = None
      /\ lastTick \in [Jobs -> 0..now \cup {None}]
  BY <1>1, CronAssumption DEF CronInv, TypeOK
<1>3. TypeOK'
  <2>1. lastTick' \in [Jobs -> 0..now' \cup {None}]
    BY <1>1, <1>2
  <2>. QED
    BY <1>1, <1>2, <2>1 DEF CronInv, TypeOK
<1>4. IdsKnown'
  BY <1>1, <1>2 DEF CronInv, IdsKnown
<1>5. InStep' /\ RecordsAreTrue' /\ NothingLost' /\ RemovedStaysRemoved'
  BY <1>1 DEF CronInv, InStep, RecordsAreTrue, NothingLost, RemovedStaysRemoved
<1>6. TickKnows'
  BY <1>1, <1>2 DEF CronInv, TickKnows, Durable
<1>7. RunsAreNoted'
  <2> SUFFICES ASSUME NEW k \in Jobs \ asked, Durable(k), Ran(k)'
               PROVE  /\ k \in jobs_to_run' => Kind[k] = "every" /\ now_ms >= lastTick'[k] + Every
                      /\ Kind[k] = "at" => running' # k
                      /\ IF k \in DOMAIN jobs THEN Noted(k, jobs[k])' \/ InTick(k)'
                         ELSE k \notin DOMAIN disk \/ k \in pending_deleted_ids
    BY <1>1 DEF RunsAreNoted, Durable
  <2>1. CASE k = j
    <3>1. Kind[k] # "at"
      BY <1>1, <2>1 DEF Ran, CronInv, RunsAreNoted
    <3>2. k \in DOMAIN jobs
      BY <1>1, <2>1 DEF CronInv, TickKnows
    <3>. QED
      BY <1>1, <2>1, <3>1, <3>2 DEF InTick
  <2>2. CASE k # j
    <3>1. Ran(k) /\ lastTick'[k] = lastTick[k]
      BY <1>1, <1>2, <2>2 DEF Ran
    <3>2. InTick(k) => InTick(k)'
      BY <1>1, <1>2, <2>2, CronAssumption DEF InTick
    <3>3. Noted(k, jobs[k]) => Noted(k, jobs[k])'
      BY <1>1, <3>1 DEF Noted
    <3>. QED
      BY <1>1, <2>2, <3>1, <3>2, <3>3 DEF CronInv, RunsAreNoted
  <2>. QED
    BY <2>1, <2>2
<1>. QED
  BY <1>3, <1>4, <1>5, <1>6, <1>7 DEF CronInv

LEMMA AnswerStep ==
    ASSUME CronInv, NEW ok \in BOOLEAN, Answer(ok)
    PROVE  CronInv'
<1>1. /\ phase = "waiting" /\ phase' = "executing" /\ running' = None
      /\ delivery_results' = With(delivery_results, running, ok)
      /\ acked' = IF ok THEN [acked EXCEPT ![running] = "yes"] ELSE acked
      /\ UNCHANGED <<disk, exists, jobs, stale, has_unsaved_changes, pending_added_ids,
                     pending_deleted_ids, jobs_to_run, now_ms, now, used, listed, asked, removed,
                     lastTick, faults, restarts>>
  BY DEF Answer, store, memory
<1>2. running \in Jobs /\ None \notin Jobs /\ acked \in [Jobs -> {"no", "yes", "unsure"}]
  BY <1>1, CronAssumption DEF CronInv, TypeOK
<1>3. /\ DOMAIN delivery_results' = DOMAIN delivery_results \cup {running}
      /\ delivery_results'[running] = ok
      /\ \A k \in DOMAIN delivery_results \ {running} : delivery_results'[k] = delivery_results[k]
  BY <1>1 DEF With
<1>4. \A k \in Jobs : acked'[k] = IF ok /\ k = running THEN "yes" ELSE acked[k]
  BY <1>1, <1>2
<1>5. TypeOK'
  BY <1>1, <1>2, <1>3 DEF CronInv, TypeOK
<1>6. IdsKnown'
  BY <1>1, <1>2, <1>4, CronAssumption DEF CronInv, TypeOK, IdsKnown
<1>7. InStep' /\ RemovedStaysRemoved'
  BY <1>1 DEF CronInv, InStep, RemovedStaysRemoved
<1>8. RecordsAreTrue'
  BY <1>1, <1>2, <1>3, <1>4 DEF CronInv, TypeOK, IsStore, RecordsAreTrue
<1>9. NothingLost'
  BY <1>1, <1>4 DEF CronInv, TypeOK, NothingLost
<1>10. TickKnows'
  <2>1. DOMAIN delivery_results \subseteq Jobs /\ running \notin jobs_to_run
    BY DEF CronInv, TypeOK, TickKnows
  <2>2. /\ None \notin jobs_to_run \cup DOMAIN delivery_results'
        /\ jobs_to_run \cap DOMAIN delivery_results' = {}
    BY <1>2, <1>3, <2>1 DEF CronInv, TypeOK, TickKnows
  <2>3. \A k \in DOMAIN delivery_results' : lastTick[k] = now_ms
    BY <1>2, <1>3, <2>1 DEF CronInv, TickKnows
  <2>. QED
    BY <1>1, <1>2, <1>3, <2>2, <2>3 DEF CronInv, TickKnows, Durable
<1>11. RunsAreNoted'
  <2> SUFFICES ASSUME NEW k \in Jobs \ asked, Durable(k), Ran(k)'
               PROVE  /\ k \in jobs_to_run => Kind[k] = "every" /\ now_ms >= lastTick[k] + Every
                      /\ Kind[k] = "at" => running' # k
                      /\ IF k \in DOMAIN jobs THEN Noted(k, jobs[k])' \/ InTick(k)'
                         ELSE k \notin DOMAIN disk \/ k \in pending_deleted_ids
    BY <1>1 DEF RunsAreNoted, Durable
  <2>1. CASE k = running /\ Kind[k] = "at"
    <3>1. ok
      BY <1>1, <1>4, <2>1 DEF Ran, CronInv, RunsAreNoted
    <3>2. k \in DOMAIN jobs /\ k \notin jobs_to_run
      BY <2>1 DEF CronInv, TickKnows
    <3>. QED
      BY <1>1, <1>2, <1>3, <2>1, <3>1, <3>2 DEF InTick
  <2>2. CASE ~(k = running /\ Kind[k] = "at")
    <3>1. Ran(k)
      BY <1>1, <1>4, <2>2 DEF Ran
    <3>2. InTick(k) => InTick(k)'
      BY <1>1, <1>2, <1>3, <2>2 DEF InTick
    <3>3. Noted(k, jobs[k]) => Noted(k, jobs[k])'
      BY <1>1, <3>1 DEF Noted
    <3>. QED
      BY <1>1, <1>2, <2>2, <3>1, <3>2, <3>3 DEF CronInv, RunsAreNoted
  <2>. QED
    BY <2>1, <2>2
<1>. QED
  BY <1>5, <1>6, <1>7, <1>8, <1>9, <1>10, <1>11 DEF CronInv

\* What a run makes of its record.
LEMMA AfterRunFacts ==
    ASSUME NEW j \in Jobs, NEW job \in JobRecord, NEW ok \in BOOLEAN, now_ms \in Nat
    PROVE  /\ AfterRun(j, job, ok) \in JobRecord
           /\ AfterRun(j, job, ok).last = (job.last \/ ok)
           /\ Kind[j] = "every" => AfterRun(j, job, ok).next = now_ms + Every
<1> DEFINE l == job.last \/ ok
           n == IF Kind[j] = "every" THEN now_ms + Every ELSE IF ok THEN None ELSE job.next
           e == job.enabled /\ (Kind[j] = "every" \/ ~ok)
<1>1. job.last \in BOOLEAN /\ job.enabled \in BOOLEAN /\ job.next \in Nat \cup {None}
  BY DEF JobRecord
<1>2. l \in BOOLEAN /\ e \in BOOLEAN
  BY <1>1
<1>3. now_ms + Every \in Nat
  BY CronAssumption
<1>4. n \in Nat \cup {None}
  BY <1>1, <1>3
<1>5. AfterRun(j, job, ok) = [job EXCEPT !.last = l, !.next = n, !.enabled = e]
  BY DEF AfterRun, JobRecord
<1>6. Kind[j] = "every" => n = now_ms + Every
  OBVIOUS
<1> HIDE DEF l, n, e
<1>7. /\ AfterRun(j, job, ok) \in JobRecord /\ AfterRun(j, job, ok).last = l
      /\ AfterRun(j, job, ok).next = n
  BY <1>2, <1>4, <1>5 DEF JobRecord
<1>. QED
  BY <1>6, <1>7 DEF l

LEMMA CommitStep ==
    ASSUME CronInv, Commit
    PROVE  CronInv'
<1> DEFINE done == {j \in DOMAIN delivery_results \cap DOMAIN jobs :
                      delivery_results[j] /\ j \in DeleteAfterRun}
           after == [j \in DOMAIN jobs |->
                       IF j \in DOMAIN delivery_results
                       THEN AfterRun(j, jobs[j], delivery_results[j]) ELSE jobs[j]]
<1>1. /\ phase = "executing" /\ jobs_to_run = {} /\ jobs' = Without(after, done)
      /\ pending_deleted_ids' = pending_deleted_ids \cup done
      /\ has_unsaved_changes' = TRUE /\ delivery_results' = Empty /\ phase' = "committed"
      /\ UNCHANGED <<disk, exists, stale, pending_added_ids, jobs_to_run, running, now_ms, now,
                     used, listed, asked, removed, acked, lastTick, faults, restarts>>
  BY DEF Commit, store, history
<1>2. /\ DOMAIN jobs' = DOMAIN jobs \ done /\ DOMAIN delivery_results' = {}
      /\ \A j \in DOMAIN jobs' : jobs'[j] = IF j \in DOMAIN delivery_results
                                            THEN AfterRun(j, jobs[j], delivery_results[j])
                                            ELSE jobs[j]
  BY <1>1 DEF Without, Empty
<1>3. /\ done \subseteq DOMAIN delivery_results \cap DOMAIN jobs \cap DeleteAfterRun
      /\ \A j \in done : delivery_results[j]
  OBVIOUS
<1>4. /\ running = None /\ None \notin Jobs /\ now_ms \in Nat /\ IsStore(jobs)
      /\ DOMAIN delivery_results \subseteq Jobs
  BY <1>1, CronAssumption DEF CronInv, TypeOK
<1>d. \A j \in DOMAIN delivery_results \cap DeleteAfterRun \cap DOMAIN jobs :
         delivery_results[j] => j \in done
  OBVIOUS
<1> HIDE DEF done, after
<1>5. ASSUME NEW j \in DOMAIN jobs', j \in DOMAIN delivery_results
      PROVE  /\ jobs'[j] \in JobRecord
             /\ jobs'[j].last => jobs[j].last \/ delivery_results[j]
             /\ delivery_results[j] => jobs'[j].last
             /\ Kind[j] = "every" => jobs'[j].next = now_ms + Every
  <2>1. j \in Jobs /\ jobs[j] \in JobRecord /\ delivery_results[j] \in BOOLEAN
    BY <1>2, <1>4, <1>5 DEF IsStore, CronInv, TypeOK
  <2>2. jobs'[j] = AfterRun(j, jobs[j], delivery_results[j])
    BY <1>2, <1>5
  <2>. QED
    BY <1>4, <2>1, <2>2, AfterRunFacts
<1>6. TypeOK'
  <2>1. IsStore(jobs)'
    BY <1>2, <1>4, <1>5 DEF IsStore
  <2>. QED
    BY <1>1, <1>2, <1>3, <1>4, <2>1 DEF CronInv, TypeOK
<1>7. IdsKnown'
  <2>1. \A j \in done : acked[j] # "no"
    BY <1>3 DEF CronInv, RecordsAreTrue
  <2>. QED
    BY <1>1, <1>2, <1>3, <2>1 DEF CronInv, IdsKnown
<1>8. InStep' /\ NothingLost' /\ RemovedStaysRemoved'
  BY <1>1 DEF CronInv, InStep, NothingLost, RemovedStaysRemoved
<1>9. RecordsAreTrue'
  BY <1>1, <1>2, <1>5 DEF CronInv, RecordsAreTrue
<1>10. TickKnows'
  <2>1. \A j \in Jobs \ asked : Durable(j) /\ j \in pending_deleted_ids' => j \notin DOMAIN jobs'
    BY <1>1, <1>2 DEF CronInv, TickKnows
  <2>. QED
    BY <1>1, <1>2, <1>4, <2>1 DEF CronInv, TickKnows, Durable
<1>11. RunsAreNoted'
  <2> SUFFICES ASSUME NEW j \in Jobs \ asked, Durable(j), Ran(j)'
               PROVE  IF j \in DOMAIN jobs' THEN Noted(j, jobs[j])'
                      ELSE j \notin DOMAIN disk \/ j \in pending_deleted_ids'
    BY <1>1, <1>4 DEF RunsAreNoted, Durable
  <2>1. Ran(j)
    BY <1>1 DEF Ran
  <2>2. CASE j \in DOMAIN jobs'
    <3>1. j \in DOMAIN jobs /\ (Noted(j, jobs[j]) \/ InTick(j))
      BY <1>2, <2>1, <2>2 DEF CronInv, RunsAreNoted
    <3>2. CASE j \in DOMAIN delivery_results
      <4>1. Kind[j] = "at" => jobs'[j].last
        <5>1. ASSUME Noted(j, jobs[j]), Kind[j] = "at" PROVE jobs'[j].last
          <6>1. j \in Jobs /\ jobs[j] \in JobRecord /\ delivery_results[j] \in BOOLEAN
            BY <1>4, <3>1, <3>2 DEF IsStore, CronInv, TypeOK
          <6>2. jobs'[j].last = (jobs[j].last \/ delivery_results[j])
            BY <1>2, <1>4, <2>2, <3>2, <6>1, AfterRunFacts
          <6>. QED
            BY <5>1, <6>2 DEF Noted
        <5>2. ASSUME InTick(j), Kind[j] = "at" PROVE jobs'[j].last
          BY <1>5, <2>2, <5>2 DEF InTick
        <5>. QED
          BY <3>1, <5>1, <5>2
      <4>2. Kind[j] = "every" =>
               jobs'[j].next # None /\ jobs'[j].next >= lastTick'[j] + Every
        <5>1. lastTick'[j] = now_ms
          BY <1>1, <1>4, <3>2 DEF CronInv, TickKnows
        <5>2. now_ms + Every \in Nat
          BY <1>4, CronAssumption
        <5>. QED
          BY <1>4, <1>5, <2>2, <3>2, <5>1, <5>2, CronAssumption
      <4>3. Kind[j] \in {"at", "every"}
        BY CronAssumption
      <4>. QED
        BY <2>2, <4>1, <4>2, <4>3 DEF Noted
    <3>3. CASE j \notin DOMAIN delivery_results
      <4>1. Noted(j, jobs[j]) /\ jobs'[j] = jobs[j]
        BY <1>2, <1>4, <2>2, <3>1, <3>3 DEF InTick
      <4>. QED
        BY <1>1, <2>2, <4>1 DEF Noted
    <3>. QED
      BY <3>2, <3>3
  <2>3. CASE j \notin DOMAIN jobs'
    BY <1>1, <1>2, <2>1, <2>3 DEF CronInv, RunsAreNoted
  <2>. QED
    BY <2>2, <2>3
<1>. QED
  BY <1>6, <1>7, <1>8, <1>9, <1>10, <1>11 DEF CronInv

\* The tool changes the file only: a new job, or a removal that is confirmed.
LEMMA ToolStep ==
    ASSUME CronInv, NEW j \in Jobs, ToolAdd(j) \/ ToolRemove(j)
    PROVE  CronInv'
<1>1. /\ exists' = TRUE /\ stale' = TRUE
      /\ UNCHANGED <<jobs, has_unsaved_changes, pending_added_ids, pending_deleted_ids, phase,
                     jobs_to_run, running, delivery_results, now_ms, now, acked, lastTick, faults,
                     restarts>>
  BY DEF ToolAdd, ToolRemove, ToolWrites, tick
<1>2. CASE ToolAdd(j)
  <2>1. /\ j \notin used /\ used' = used \cup {j} /\ listed' = listed \cup {j}
        /\ UNCHANGED <<asked, removed>>
        /\ DOMAIN disk' = DOMAIN disk \cup {j} /\ disk'[j] = New
        /\ \A k \in DOMAIN disk \ {j} : disk'[k] = disk[k]
    BY <1>2 DEF ToolAdd, ToolWrites, With
  <2>2. New \in JobRecord /\ ~New.last
    BY DEF New, JobRecord
  <2>3. TypeOK'
    <3>1. IsStore(disk)'
      BY <2>1, <2>2 DEF CronInv, TypeOK, IsStore
    <3>. QED
      BY <1>1, <2>1, <3>1 DEF CronInv, TypeOK
  <2>4. j \notin DOMAIN disk \cup DOMAIN jobs \cup pending_added_ids \cup asked \cup removed
    BY <2>1 DEF CronInv, TypeOK, IdsKnown
  <2>5. IdsKnown'
    BY <1>1, <2>1, <2>4 DEF CronInv, IdsKnown
  <2>6. InStep' /\ RecordsAreTrue'
    BY <1>1, <2>1, <2>2, <2>4 DEF CronInv, InStep, RecordsAreTrue
  <2>7. NothingLost' /\ RemovedStaysRemoved'
    BY <1>1, <2>1, <2>4 DEF CronInv, NothingLost, RemovedStaysRemoved
  <2>8. TickKnows'
    BY <1>1, <2>1 DEF CronInv, TickKnows, Durable
  <2>9. RunsAreNoted'
    <3>1. \A k \in Jobs : Ran(k)' => Ran(k) /\ k \in used
      BY <1>1, <2>1 DEF Ran, CronInv, IdsKnown
    <3>2. \A k \in Jobs : /\ InTick(k) => InTick(k)'
                          /\ Noted(k, jobs[k]) => Noted(k, jobs[k])'
      BY <1>1 DEF InTick, Noted
    <3>. QED
      BY <1>1, <2>1, <3>1, <3>2 DEF CronInv, RunsAreNoted, Durable
  <2>. QED
    BY <2>3, <2>5, <2>6, <2>7, <2>8, <2>9 DEF CronInv
<1>3. CASE ToolRemove(j)
  <2>1. /\ j \in DOMAIN disk /\ asked' = asked \cup {j} /\ removed' = removed \cup {j}
        /\ UNCHANGED <<used, listed>>
        /\ DOMAIN disk' = DOMAIN disk \ {j} /\ \A k \in DOMAIN disk' : disk'[k] = disk[k]
    BY <1>3 DEF ToolRemove, ToolWrites, Without
  <2>2. TypeOK'
    <3>1. IsStore(disk)'
      BY <2>1 DEF CronInv, TypeOK, IsStore
    <3>. QED
      BY <1>1, <2>1, <3>1 DEF CronInv, TypeOK
  <2>3. IdsKnown'
    BY <1>1, <2>1 DEF CronInv, IdsKnown
  <2>4. InStep' /\ RecordsAreTrue'
    BY <1>1, <2>1 DEF CronInv, InStep, RecordsAreTrue
  <2>5. NothingLost' /\ RemovedStaysRemoved'
    BY <1>1, <2>1 DEF CronInv, NothingLost, RemovedStaysRemoved
  <2>6. TickKnows'
    BY <1>1, <2>1 DEF CronInv, TickKnows, Durable
  <2>7. RunsAreNoted'
    <3>1. \A k \in Jobs : Ran(k)' => Ran(k)
      BY <1>1 DEF Ran
    <3>2. \A k \in Jobs : /\ InTick(k) => InTick(k)'
                          /\ Noted(k, jobs[k]) => Noted(k, jobs[k])'
      BY <1>1 DEF InTick, Noted
    <3>. QED
      BY <1>1, <2>1, <3>1, <3>2 DEF CronInv, RunsAreNoted, Durable
  <2>. QED
    BY <2>2, <2>3, <2>4, <2>5, <2>6, <2>7 DEF CronInv
<1>. QED
  BY <1>2, <1>3

\* A new process knows what the file says, and nothing else.
LEMMA CrashStep ==
    ASSUME CronInv, Crash
    PROVE  CronInv'
<1>1. /\ jobs' = disk /\ disk' = disk /\ exists' = exists /\ stale' = TRUE
      /\ has_unsaved_changes' = FALSE /\ pending_added_ids' = {} /\ pending_deleted_ids' = {}
      /\ phase' = "idle" /\ jobs_to_run' = {} /\ running' = None /\ DOMAIN delivery_results' = {}
      /\ restarts < MaxRestarts /\ restarts' = restarts + 1
      /\ acked' = [j \in Jobs |-> IF acked[j] = "yes" THEN "unsure" ELSE acked[j]]
      /\ lastTick' = [j \in Jobs |-> None]
      /\ UNCHANGED <<now_ms, now, used, listed, asked, removed, faults>>
  BY DEF Crash, Reload, store, Empty
<1>2. None \notin Jobs
  BY CronAssumption
<1>3. \A j \in Jobs : /\ acked'[j] # "yes" /\ lastTick'[j] = None
                      /\ (acked'[j] = "no" <=> acked[j] = "no")
  BY <1>1 DEF CronInv, TypeOK
<1>4. TypeOK'
  <2>1. restarts' \in 0..MaxRestarts
    BY <1>1, CronAssumption DEF CronInv, TypeOK
  <2>. QED
    BY <1>1, <2>1 DEF CronInv, TypeOK
<1>5. IdsKnown'
  BY <1>1, <1>3, <1>2, CronAssumption DEF CronInv, TypeOK, IdsKnown
<1>6. InStep' /\ RecordsAreTrue'
  BY <1>1, <1>3 DEF CronInv, TypeOK, IsStore, InStep, RecordsAreTrue
<1>7. NothingLost' /\ RemovedStaysRemoved'
  BY <1>1, <1>3 DEF CronInv, TypeOK, NothingLost, RemovedStaysRemoved
<1>8. TickKnows'
  BY <1>1, <1>2, <1>3 DEF TickKnows
<1>9. RunsAreNoted'
  BY <1>3 DEF RunsAreNoted, Ran
<1>. QED
  BY <1>4, <1>5, <1>6, <1>7, <1>8, <1>9 DEF CronInv

LEMMA ShutdownStep ==
    ASSUME CronInv, Shutdown
    PROVE  CronInv'
<1>1. /\ jobs' = disk' /\ stale' = TRUE
      /\ has_unsaved_changes' = FALSE /\ pending_added_ids' = {} /\ pending_deleted_ids' = {}
      /\ phase = "idle" /\ phase' = "idle" /\ jobs_to_run' = {} /\ running' = None
      /\ DOMAIN delivery_results' = {}
      /\ restarts < MaxRestarts /\ restarts' = restarts + 1
      /\ UNCHANGED <<now_ms, now, used, listed, asked, removed, acked, lastTick, faults>>
  BY DEF Shutdown, Reload, history, Empty
<1>0. None \notin Jobs /\ restarts' \in 0..MaxRestarts
  BY <1>1, CronAssumption DEF CronInv, TypeOK
<1>2. CASE has_unsaved_changes
  <2>1. disk' = Merged(jobs, pending_added_ids, pending_deleted_ids) /\ exists' = TRUE
    BY <1>2 DEF Shutdown
  <2>2. Edits(jobs, pending_added_ids, pending_deleted_ids)
    BY <1>1, NoEdit DEF history
  <2>3. SaveFrame
    BY <1>0, <1>1 DEF SaveFrame
  <2>4. listed' \ listed = {} /\ removed' \ removed = {} /\ stale' \in BOOLEAN
    BY <1>1
  <2>. QED
    BY <1>1, <2>1, <2>2, <2>3, <2>4, EditSaved
<1>3. CASE ~has_unsaved_changes
  <2>1. disk' = disk /\ exists' = exists /\ jobs' = disk
    BY <1>1, <1>3 DEF Shutdown, store
  <2>2. TypeOK'
    BY <1>0, <1>1, <2>1 DEF CronInv, TypeOK
  <2>3. IdsKnown'
    BY <1>0, <1>1, <2>1 DEF CronInv, IdsKnown
  <2>4. InStep' /\ RecordsAreTrue'
    BY <1>1, <2>1 DEF CronInv, InStep, RecordsAreTrue
  <2>5. NothingLost' /\ RemovedStaysRemoved'
    BY <1>1, <2>1 DEF CronInv, NothingLost, RemovedStaysRemoved
  <2>6. TickKnows'
    BY <1>0, <1>1 DEF CronInv, TickKnows
  <2>7. RunsAreNoted'
    <3> SUFFICES ASSUME NEW j \in Jobs \ asked, Durable(j), Ran(j)', j \in DOMAIN disk
                 PROVE  Noted(j, jobs[j])'
      BY <1>0, <1>1, <2>1 DEF RunsAreNoted, Durable
    <3>1. Ran(j)
      BY <1>1 DEF Ran
    <3>2. j \in DOMAIN jobs /\ Noted(j, jobs[j])
      BY <1>1, <1>3, <3>1 DEF CronInv, RunsAreNoted, InTick, InStep
    <3>3. jobs[j].next = disk[j].next /\ jobs[j].last = disk[j].last
      BY <1>3, <3>2 DEF CronInv, InStep
    <3>. QED
      BY <1>1, <2>1, <3>2, <3>3 DEF Noted
  <2>. QED
    BY <2>2, <2>3, <2>4, <2>5, <2>6, <2>7 DEF CronInv
<1>. QED
  BY <1>2, <1>3

LEMMA ClockStep ==
    ASSUME CronInv, Clock \/ UNCHANGED vars
    PROVE  CronInv'
<1>1. UNCHANGED <<store, memory, tick, history, faults, restarts>>
  BY DEF Clock, vars
<1>2. now' \in 0..MaxNow /\ now \in 0..MaxNow /\ now <= now'
  BY CronAssumption DEF Clock, vars, CronInv, TypeOK
<1>3. TypeOK'
  <2>1. now_ms' \in 0..now' /\ lastTick' \in [Jobs -> 0..now' \cup {None}]
    BY <1>1, <1>2, CronAssumption DEF CronInv, TypeOK, tick, history
  <2>. QED
    BY <1>1, <1>2, <2>1 DEF CronInv, TypeOK, store, memory, tick, history
<1>4. IdsKnown' /\ InStep' /\ RecordsAreTrue' /\ NothingLost' /\ RemovedStaysRemoved'
  BY <1>1 DEF CronInv, IdsKnown, InStep, RecordsAreTrue, NothingLost, RemovedStaysRemoved, store,
              memory, tick, history
<1>5. TickKnows'
  BY <1>1 DEF CronInv, TickKnows, Durable, memory, tick, history
<1>6. RunsAreNoted'
  BY <1>1 DEF CronInv, RunsAreNoted, Durable, Ran, Noted, InTick, store, memory, tick, history
<1>. QED
  BY <1>3, <1>4, <1>5, <1>6 DEF CronInv

LEMMA CronInitInv == Init => CronInv
<1> SUFFICES ASSUME Init PROVE CronInv
  OBVIOUS
<1>1. DOMAIN Empty = {} /\ None \notin Jobs
  BY CronAssumption DEF Empty
<1>2. TypeOK
  <2>1. 0 \in 0..MaxNow /\ 0 \in 0..0 /\ 0 \in 0..MaxFaults /\ 0 \in 0..MaxRestarts
    BY CronAssumption
  <2>. QED
    BY <1>1, <2>1 DEF Init, TypeOK, IsStore
<1>3. IdsKnown /\ InStep /\ RecordsAreTrue /\ NothingLost /\ RemovedStaysRemoved
  BY <1>1 DEF Init, IdsKnown, InStep, RecordsAreTrue, NothingLost, RemovedStaysRemoved
<1>4. TickKnows /\ RunsAreNoted
  BY <1>1 DEF Init, TickKnows, RunsAreNoted, Ran
<1>. QED
  BY <1>2, <1>3, <1>4 DEF CronInv

LEMMA CronStepInv == CronInv /\ [Next]_vars => CronInv'
<1> SUFFICES ASSUME CronInv, [Next]_vars PROVE CronInv'
  OBVIOUS
<1>1. TRUE \in BOOLEAN /\ FALSE \in BOOLEAN
  OBVIOUS
<1>2. CASE Tick
  BY <1>1, <1>2, BeginTickStep, SavesStep, CommitStep, ExecuteStep, AnswerStep DEF Tick
<1>3. CASE TickFault
  BY <1>1, <1>3, BeginTickStep, SavesStep DEF TickFault
<1>4. ASSUME NEW j \in Jobs, NEW ok \in BOOLEAN,
             \/ add_job(j, ok) \/ remove_job(j, ok)
             \/ \E enabled \in BOOLEAN : update_job_enabled(j, enabled, ok)
      PROVE  CronInv'
  BY <1>1, <1>4, OperationsStep
<1>5. ASSUME NEW j \in Jobs, ToolAdd(j) \/ ToolRemove(j) PROVE CronInv'
  BY <1>5, ToolStep
<1>6. CASE Crash \/ Shutdown
  BY <1>6, CrashStep, ShutdownStep
<1>7. CASE Clock \/ UNCHANGED vars
  BY <1>7, ClockStep
<1>. QED
  BY <1>2, <1>3, <1>4, <1>5, <1>6, <1>7 DEF Next

\* What the service knows of its jobs and their runs, and what the file says of
\* them, for any jobs and any number of failed saves, restarts and tool writes.
THEOREM CronInvariance == Spec => []CronInv
  BY CronInitInv, CronStepInv, PTL DEF Spec

-----------------------------------------------------------------------------
(* The theorems *)

\* Two writers of one file, nothing lost: a job whose addition was confirmed is
\* in the file until its removal is asked for or it has run its only time.
THEOREM NothingLostHolds == Spec => []NothingLost
<1>1. CronInv => NothingLost
  BY DEF CronInv
<1>. QED
  BY <1>1, CronInvariance, PTL

\* No merge of the service's memory into the file brings a removed job back.
THEOREM RemovedStaysRemovedHolds == Spec => []RemovedStaysRemoved
<1>1. CronInv => RemovedStaysRemoved
  BY DEF CronInv
<1>. QED
  BY <1>1, CronInvariance, PTL

\* A one-time job is in the file, not yet run, until it was acknowledged.
THEOREM UntilAcknowledgedHolds == Spec => []UntilAcknowledged
<1>1. CronInv => UntilAcknowledged
  BY DEF CronInv, NothingLost, RecordsAreTrue, UntilAcknowledged
<1>. QED
  BY <1>1, CronInvariance, PTL

\* A one-time job that was acknowledged is not run again by this process nor
\* after an orderly restart.  If the job is to be deleted after its run, the
\* deletion must not be lost with a failed save: then it does run again.
THEOREM AtFiresOnceHolds ==
    ASSUME \A j \in Jobs : Kind[j] = "at" => Durable(j)
    PROVE  Spec => []AtFiresOnce
<1>1. CronInv => AtFiresOnce
  BY DEF CronInv, RunsAreNoted, Ran, AtFiresOnce
<1>. QED
  BY <1>1, CronInvariance, PTL

\* A repeated job starts again a full period after the tick that started it,
\* under the same condition.
THEOREM EveryKeepsItsPeriodHolds ==
    ASSUME \A j \in Jobs : Kind[j] = "every" => Durable(j)
    PROVE  Spec => EveryKeepsItsPeriod
<1>1. ASSUME CronInv, [Next]_vars,
             NEW j \in Jobs \ asked, Kind[j] = "every", running' = j, running # j, lastTick[j] # None
      PROVE  now_ms >= lastTick[j] + Every
  <2>1. j # None
    BY CronAssumption
  <2>2. j \in jobs_to_run
    BY <1>1, <2>1
       DEF Next, Tick, TickFault, BeginTick, SaveSchedule, Commit, SaveResults, Execute, Answer,
           add_job, remove_job, update_job_enabled, ToolAdd, ToolRemove, ToolWrites, Crash,
           Shutdown, Reload, Clock, tick, vars
  <2>3. Durable(j) /\ Ran(j)
    BY <1>1 DEF Ran
  <2>. QED
    BY <1>1, <2>2, <2>3 DEF CronInv, RunsAreNoted
<1>2. CronInv /\ [Next]_vars =>
        [\A j \in Jobs \ asked :
            Kind[j] = "every" /\ running' = j /\ running # j /\ lastTick[j] # None
              => now_ms >= lastTick[j] + Every]_vars
  BY <1>1
<1>. QED
  BY <1>2, CronInvariance, PTL DEF Spec, EveryKeepsItsPeriod

\* No tick that could read the file executes a job whose removal was confirmed.
THEOREM RemovedIsNotDueHolds == Spec => RemovedIsNotDue
<1>1. ASSUME CronInv, [Next]_vars, phase = "idle", phase' # "idle", faults' = faults
      PROVE  jobs_to_run' \cap removed = {}
  <2>1. PICK readable \in BOOLEAN : BeginTick(readable)
    BY <1>1
       DEF Next, Tick, TickFault, BeginTick, SaveSchedule, Commit, SaveResults, Execute, Answer,
           add_job, remove_job, update_job_enabled, ToolAdd, ToolRemove, ToolWrites, Crash,
           Shutdown, Reload, Clock, tick, vars
  <2>2. readable
    BY <1>1, <2>1, CronAssumption DEF BeginTick, CronInv, TypeOK
  <2>3. jobs_to_run' \subseteq DOMAIN Loaded(readable)
    BY <2>1 DEF BeginTick, Loaded
  <2>4. DOMAIN Loaded(readable) = IF exists /\ stale THEN DOMAIN disk ELSE DOMAIN jobs
    BY <2>2 DEF Loaded, merge_load
  <2>5. DOMAIN Loaded(readable) \cap removed = {}
    BY <1>1, <2>4 DEF CronInv, IdsKnown, RemovedStaysRemoved
  <2>. QED
    BY <2>3, <2>5
<1>2. CronInv /\ [Next]_vars =>
        [phase = "idle" /\ phase' # "idle" /\ faults' = faults => jobs_to_run' \cap removed = {}]_vars
  BY <1>1
<1>. QED
  BY <1>2, CronInvariance, PTL DEF Spec, RemovedIsNotDue

=============================================================================
