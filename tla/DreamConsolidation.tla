-------------------------- MODULE DreamConsolidation --------------------------
(***************************************************************************)
(* Dream: crates/scheduler/src/dream_service.rs and consolidator.rs.  A    *)
(* process whose gates are open copies the memory files to a staging       *)
(* directory, lets an agent rewrite them there, and commits the changed    *)
(* ones file by file; a backup with a manifest is kept until the final     *)
(* state is on disk.  The agent counts sessions in the same state file.    *)
(*                                                                         *)
(* A file is named by the run that wrote it last, 0 before any.  Writes    *)
(* of one file are atomic (fs_util::atomic_write).  The two gates read     *)
(* what the state file said when it was loaded.                            *)
(***************************************************************************)
EXTENDS Naturals, FiniteSets

CONSTANTS
    Dreamers,      \* processes with a DreamService
    Nobody,
    MemoryFiles,
    MaxRuns,       \* bound: runs that commit something
    MaxSessions,   \* bound: sessions counted
    MaxFaults,     \* bound: writes that fail and processes that die
    SessionGate    \* session_gate_threshold

VARIABLES
    dream_state,   \* .dream_state.json
    dream_lock,    \* who holds .dream_lock
    memory,        \* file -> the run that wrote it
    backups,       \* the directories under .dream_commit_backup
    dreamer,       \* a process: its copy of the state, its run
    rewritten,     \* history: the files each run committed or tried to
    sessions,      \* history: sessions counted so far
    faults         \* failed writes and deaths so far

dreamVars == <<dream_state, dream_lock, memory, backups, dreamer, rewritten, sessions, faults>>

ASSUME DreamAssumption ==
    /\ MaxRuns \in Nat /\ MaxSessions \in Nat /\ MaxFaults \in Nat /\ SessionGate \in Nat
    /\ Nobody \notin Dreamers

Runs == 1 .. MaxRuns

\* `due': the time gate; `recorded': the runs behind consolidation_count;
\* `flag': is_consolidating, too old to be true when it is "stale".
DreamState == [current : 0 .. MaxSessions, last : 0 .. MaxSessions, recorded : SUBSET Runs,
               due : BOOLEAN, flag : {"no", "set", "stale"}]

Asleep == [pc |-> "idle", state |-> [current |-> 0, last |-> 0, recorded |-> {}, due |-> FALSE,
                                     flag |-> "no"],
           pre |-> [f \in MemoryFiles |-> 0], todo |-> {}, processed |-> 0, ok |-> FALSE, run |-> 0]

DreamInit ==
    /\ dream_state = [current |-> 0, last |-> 0, recorded |-> {}, due |-> TRUE, flag |-> "no"]
    /\ dream_lock = Nobody
    /\ memory = [f \in MemoryFiles |-> 0]
    /\ backups = {}
    /\ dreamer = [p \in Dreamers |-> Asleep]
    /\ rewritten = [r \in Runs |-> {}]
    /\ sessions = 0
    /\ faults = 0

At(p, pc) == dreamer[p].pc = pc
sleeps(p, new) == dreamer' = [dreamer EXCEPT ![p] = new]
Fault == faults < MaxFaults /\ faults' = faults + 1
frees(p) == dream_lock' = IF dream_lock = p THEN Nobody ELSE dream_lock

\* rollback_staged_memory_changes: a backed-up file is read back, a created
\* one removed.  A backup without a manifest is left for manual recovery.
Restored(bs) ==
    [f \in MemoryFiles |->
        IF \E b \in bs : b.manifest /\ f \in DOMAIN b.files
        THEN (CHOOSE b \in bs : b.manifest /\ f \in DOMAIN b.files).files[f] ELSE memory[f]]

-----------------------------------------------------------------------------
(* The gates *)

Load(p) ==
    /\ At(p, "idle")
    /\ sleeps(p, [Asleep EXCEPT !.pc = "gates", !.state = dream_state])
    /\ UNCHANGED <<dream_state, dream_lock, memory, backups, rewritten, sessions, faults>>

\* The part of check_gates that reads nothing from disk.
GatesOpen(state) == state.due /\ state.current - state.last >= SessionGate

\* Mutants of Recovered: what a dead run left is only cleared away, or rolled
\* back even if the run was recorded.
Recovered_Never(pending) == backups' = {} /\ UNCHANGED memory
Recovered_Always(pending) == memory' = Restored(backups) /\ backups' = {}

\* recover_dream_commit_backups: a run that may not be recorded is rolled back.
Recovered(pending) ==
    /\ memory' = IF pending THEN Restored(backups) ELSE memory
    /\ backups' = IF pending THEN {b \in backups : ~b.manifest} ELSE {}

\* Mutant of Abandoned: a flag is never too old.
Abandoned_Never(state) == FALSE

Abandoned(state) == state.flag = "stale"

\* check_gates: a flag that is too old is cleared and the run behind it rolled
\* back; without a flag the backups belong to a run that was recorded.
CheckGates(p) ==
    LET state == dreamer[p].state
        cleared == [state EXCEPT !.flag = "no"]
    IN
    /\ At(p, "gates")
    /\ \/ /\ state.flag # "no" /\ ~Abandoned(state)
          /\ sleeps(p, Asleep)
          /\ UNCHANGED <<dream_state, memory, backups, faults>>
       \/ /\ state.flag = "no" \/ Abandoned(state)
          /\ Recovered(state.flag # "no")
          /\ \/ dream_state' = cleared /\ state.flag # "no" /\ UNCHANGED faults
             \/ UNCHANGED dream_state /\ IF state.flag = "no" THEN UNCHANGED faults ELSE Fault
          /\ sleeps(p, [dreamer[p] EXCEPT !.state = cleared,
                                          !.pc = IF GatesOpen(cleared) THEN "lock" ELSE "idle"])
    /\ UNCHANGED <<dream_lock, rewritten, sessions>>

-----------------------------------------------------------------------------
(* A run *)

Acquire(p) ==
    /\ At(p, "lock")
    /\ \/ /\ dream_lock = Nobody
          /\ dream_lock' = p
          /\ backups' = {}
          /\ sleeps(p, [dreamer[p] EXCEPT !.pc = "mark"])
       \/ /\ dream_lock # Nobody
          /\ sleeps(p, Asleep)
          /\ UNCHANGED <<dream_lock, backups>>
    /\ UNCHANGED <<dream_state, memory, rewritten, sessions, faults>>

\* The flag is written, the memory copied to the staging directory.
MarkStarted(p) ==
    LET marked == [dreamer[p].state EXCEPT !.flag = "set"]
    IN
    /\ At(p, "mark")
    /\ \/ /\ dream_state' = marked
          /\ sleeps(p, [dreamer[p] EXCEPT !.pc = "staging", !.state = marked, !.pre = memory,
                                          !.processed = marked.current])
          /\ UNCHANGED <<dream_lock, faults>>
       \/ /\ sleeps(p, Asleep) /\ frees(p) /\ Fault
          /\ UNCHANGED dream_state
    /\ UNCHANGED <<memory, backups, rewritten, sessions>>

\* The agent edits the copies, or fails, or runs out of time.  Files that were
\* changed meanwhile are a conflict; the others are backed up.
StagingEnds(p) ==
    LET me == dreamer[p]
    IN
    /\ At(p, "staging")
    /\ \/ /\ sleeps(p, [me EXCEPT !.pc = "finish"])
          /\ UNCHANGED <<backups, rewritten>>
       \/ /\ sleeps(p, [me EXCEPT !.pc = "finish", !.ok = TRUE])      \* nothing changed
          /\ UNCHANGED <<backups, rewritten>>
       \/ \E fs \in (SUBSET MemoryFiles) \ {{}}, run \in Runs :
            /\ run = Cardinality({r \in Runs : rewritten[r] # {}}) + 1
            /\ \A f \in fs : memory[f] = me.pre[f]
            /\ backups' = backups \cup
                   {[by |-> p, manifest |-> FALSE, files |-> [f \in fs |-> memory[f]]]}
            /\ rewritten' = [rewritten EXCEPT ![run] = fs]
            /\ sleeps(p, [me EXCEPT !.pc = "manifest", !.run = run, !.todo = fs])
    /\ UNCHANGED <<dream_state, dream_lock, memory, sessions, faults>>

Mine(p) == {b \in backups : b.by = p}

WriteManifest(p) ==
    /\ At(p, "manifest")
    /\ backups' = (backups \ Mine(p)) \cup {[b EXCEPT !.manifest = TRUE] : b \in Mine(p)}
    /\ sleeps(p, [dreamer[p] EXCEPT !.pc = "commit"])
    /\ UNCHANGED <<dream_state, dream_lock, memory, rewritten, sessions, faults>>

\* One file is replaced; a write that fails rolls back all of them.
CommitFile(p) ==
    LET me == dreamer[p]
    IN
    /\ At(p, "commit")
    /\ \/ \E f \in me.todo :
            /\ memory' = [memory EXCEPT ![f] = me.run]
            /\ sleeps(p, [me EXCEPT !.todo = @ \ {f}, !.ok = (me.todo = {f}),
                                    !.pc = IF me.todo = {f} THEN "finish" ELSE "commit"])
            /\ UNCHANGED <<backups, faults>>
       \/ /\ memory' = Restored(Mine(p)) /\ Fault
          /\ backups' = backups \ Mine(p)
          /\ sleeps(p, [me EXCEPT !.pc = "finish", !.todo = {}])
    /\ UNCHANGED <<dream_state, dream_lock, rewritten, sessions>>

\* The gates move on only if the run succeeded, and to the sessions it saw;
\* sessions counted since then are taken over from disk.
FinalState(p) ==
    LET me == dreamer[p]
        cleared == [me.state EXCEPT !.flag = "no"]
    IN  IF ~me.ok THEN cleared
        ELSE [cleared EXCEPT !.due = FALSE, !.last = me.processed,
                             !.recorded = IF Mine(p) = {} THEN @ ELSE @ \cup {me.run},
                             !.current = IF @ > dream_state.current THEN @ ELSE dream_state.current]

\* If the state cannot be saved the commit is rolled back and the flag stays.
FinishState(p) ==
    /\ At(p, "finish")
    /\ \/ /\ dream_state' = FinalState(p)
          /\ sleeps(p, [dreamer[p] EXCEPT !.pc = "finalize"])
          /\ UNCHANGED <<memory, backups, dream_lock, faults>>
       \/ /\ memory' = Restored(Mine(p)) /\ Fault
          /\ backups' = backups \ Mine(p)
          /\ sleeps(p, Asleep) /\ frees(p)
          /\ UNCHANGED dream_state
    /\ UNCHANGED <<rewritten, sessions>>

Finalize(p) ==
    /\ At(p, "finalize")
    /\ backups' = backups \ Mine(p)
    /\ sleeps(p, Asleep) /\ frees(p)
    /\ UNCHANGED <<dream_state, memory, rewritten, sessions, faults>>

-----------------------------------------------------------------------------
(* Around it *)

\* increment_dream_session_count, for a session that was not counted before.
CountSession ==
    /\ sessions < MaxSessions
    /\ sessions' = sessions + 1
    /\ dream_state' = [dream_state EXCEPT !.current = @ + 1]
    /\ UNCHANGED <<dream_lock, memory, backups, dreamer, rewritten, faults>>

\* The operating system gives the lock back.
Dies(p) ==
    /\ ~At(p, "idle")
    /\ sleeps(p, Asleep) /\ frees(p) /\ Fault
    /\ UNCHANGED <<dream_state, memory, backups, rewritten, sessions>>

\* 24 hours pass between runs, one hour after a run that never ended: no run
\* lasts that long, its staging is limited to 300 s.
TimePasses ==
    /\ dream_lock = Nobody
    /\ dream_state' = [dream_state EXCEPT !.due = TRUE, !.flag = IF @ = "set" THEN "stale" ELSE @]
    /\ dream_state' # dream_state
    /\ UNCHANGED <<dream_lock, memory, backups, dreamer, rewritten, sessions, faults>>

DreamStep(p) ==
    \/ Load(p) \/ CheckGates(p) \/ Acquire(p) \/ MarkStarted(p) \/ StagingEnds(p)
    \/ WriteManifest(p) \/ CommitFile(p) \/ FinishState(p) \/ Finalize(p)

DreamNext ==
    \/ \E p \in Dreamers : DreamStep(p) \/ Dies(p)
    \/ CountSession \/ TimePasses

\* A process is asked every ten minutes and time passes.
DreamFairness == (\A p \in Dreamers : WF_dreamVars(DreamStep(p))) /\ WF_dreamVars(TimePasses)

DreamSpec == DreamInit /\ [][DreamNext]_dreamVars /\ DreamFairness

-----------------------------------------------------------------------------
(* Properties *)

Backup == [by : Dreamers, manifest : BOOLEAN,
           files : UNION {[fs -> 0 .. MaxRuns] : fs \in SUBSET MemoryFiles}]

Dreamer == [pc : {"idle", "gates", "lock", "mark", "staging", "manifest", "commit", "finish", "finalize"},
            state : DreamState, pre : [MemoryFiles -> 0 .. MaxRuns], todo : SUBSET MemoryFiles,
            processed : 0 .. MaxSessions, ok : BOOLEAN, run : 0 .. MaxRuns]

DreamTypeOK ==
    /\ dream_state \in DreamState
    /\ dream_lock \in Dreamers \cup {Nobody}
    /\ memory \in [MemoryFiles -> 0 .. MaxRuns]
    /\ backups \subseteq Backup
    /\ dreamer \in [Dreamers -> Dreamer]
    /\ rewritten \in [Runs -> SUBSET MemoryFiles]
    /\ sessions \in 0 .. MaxSessions
    /\ faults \in 0 .. MaxFaults

\* Nobody commits or has to roll back: no flag, nobody at work.
Quiet == dream_state.flag = "no" /\ \A p \in Dreamers : ~At(p, "commit") /\ ~At(p, "manifest")
                                                        /\ ~At(p, "finish")

\* Whatever died, timed out or could not be written: when nothing is left to
\* be recovered a run's files are all in the memory directory or none is, and
\* only if the state has recorded the run.
MemoryIsWhole ==
    Quiet => \A r \in Runs :
        (\E f \in MemoryFiles : memory[f] = r) =>
            /\ r \in dream_state.recorded
            /\ \A f \in rewritten[r] : memory[f] >= r

\* A run whose commit was recorded is never undone by a later recovery.
RecordedStays ==
    [][\A r \in dream_state.recorded : \A f \in rewritten[r] :
           memory[f] >= r => memory'[f] >= r]_dreamVars

\* A session that was counted is not forgotten.
SessionsStayCounted == dream_state.current = sessions

\* The flag of a run that died is taken down again, whoever set it.
FlagComesDown == []<>(dream_state.flag = "no")

-----------------------------------------------------------------------------
(* The inductive invariant behind MemoryIsWhole and RecordedStays, for a   *)
(* single dreamer                                                          *)

OneDreamer == \A p, q \in Dreamers : p = q

\* The memory as a recovery would leave it.
Kept == IF dream_state.flag = "no" THEN memory ELSE Restored(backups)

Used(r) == rewritten[r] # {}

\* Runs are numbered as they begin to commit.
RunsInOrder ==
    /\ \A q, r \in Runs : q < r /\ Used(r) => Used(q)
    /\ \A f \in MemoryFiles : memory[f] # 0 => Used(memory[f])
    /\ \A b \in backups : \A f \in DOMAIN b.files : b.files[f] # 0 => Used(b.files[f])

\* What would be left is exactly what the state has recorded.
KeptIsRecorded ==
    /\ \A f \in MemoryFiles : Kept[f] # 0 => Kept[f] \in dream_state.recorded
    /\ \A r \in dream_state.recorded :
           Used(r) /\ \A f \in rewritten[r] : Kept[f] >= r /\ memory[f] >= r

\* Counted sessions bound every copy of the count.
CopiesLagBehind ==
    /\ dream_state.current <= sessions
    /\ \A p \in Dreamers : dreamer[p].state.current <= sessions /\ dreamer[p].processed <= sessions

OneBackup == \A a, b \in backups : a = b

\* The run of p is the last one, and its backup has what it replaces.
IsBackedUp(p) ==
    /\ dreamer[p].run \in Runs /\ Used(dreamer[p].run) /\ backups # {}
    /\ \A r \in Runs : Used(r) => r <= dreamer[p].run
    /\ \A b \in backups : DOMAIN b.files = rewritten[dreamer[p].run]
    /\ \A f \in MemoryFiles : Kept[f] < dreamer[p].run
    /\ dreamer[p].todo \subseteq rewritten[dreamer[p].run]
    /\ \A f \in MemoryFiles :
           memory[f] = IF f \in rewritten[dreamer[p].run] \ dreamer[p].todo THEN dreamer[p].run ELSE Kept[f]

\* What a dreamer knows of the disk as it goes through a run.
OnDisk(p) ==
    /\ dreamer[p].pc \notin {"idle", "finalize"} => dreamer[p].state.recorded = dream_state.recorded
    /\ At(p, "gates") => \/ dreamer[p].state.flag = dream_state.flag
                         \/ dreamer[p].state.flag = "set" /\ dream_state.flag = "stale"
    /\ dreamer[p].pc \in {"lock", "mark"} => dreamer[p].state.flag = "no"
    /\ dream_lock = p <=> dreamer[p].pc \in {"mark", "staging", "manifest", "commit", "finish", "finalize"}
    /\ dreamer[p].pc \in {"staging", "manifest", "commit", "finish"} => dream_state.flag = "set"
    /\ At(p, "finalize") => dream_state.flag = "no"
    /\ dreamer[p].pc \in {"lock", "manifest"} => \A b \in backups : ~b.manifest
    /\ dreamer[p].pc \in {"mark", "staging"} => backups = {}
    /\ At(p, "manifest") =>
           /\ IsBackedUp(p) /\ dreamer[p].todo = rewritten[dreamer[p].run]
           /\ \A b \in backups : \A f \in DOMAIN b.files : b.files[f] = memory[f]
    /\ At(p, "commit") => IsBackedUp(p) /\ \A b \in backups : b.manifest
    /\ At(p, "finish") /\ backups # {} =>
           IsBackedUp(p) /\ dreamer[p].todo = {} /\ dreamer[p].ok /\ \A b \in backups : b.manifest

RunIsOnDisk == \A p \in Dreamers : OnDisk(p)

DreamInv ==
    DreamTypeOK /\ RunsInOrder /\ KeptIsRecorded /\ CopiesLagBehind /\ OneBackup /\ RunIsOnDisk
=============================================================================
