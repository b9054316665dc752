--------------------------- MODULE TypedAgentsProofs ---------------------------
(***************************************************************************)
(* Proofs about TypedAgents for any number of tasks, any scopes and any    *)
(* number of restarts: the types, the inductive invariant IInv, its        *)
(* conjuncts, and that a terminal status is final.                         *)
(***************************************************************************)
EXTENDS TypedAgents, TLAPS

\* Every action keeps the types.
LEMMA TypeStep ==
    ASSUME TypeOK, [Next]_vars
    PROVE  TypeOK'
<1>1. ASSUME NEW t \in Tasks, AcquireScope(t) PROVE TypeOK'
  BY <1>1, AgentAssumption DEF AcquireScope, TypeOK, Tables, TaskStatus,
     Terminal, mem
<1>2. ASSUME NEW t \in Tasks, Create(t) PROVE TypeOK'
  BY <1>2, AgentAssumption DEF Create, create_and_start_task, TypeOK, Tables,
     TaskStatus, Terminal, mem
<1>3. ASSUME NEW t \in Tasks, RegisterToken(t) PROVE TypeOK'
  BY <1>3, AgentAssumption DEF RegisterToken, TypeOK, Tables, TaskStatus,
     Terminal, mem
<1>4. ASSUME NEW t \in Tasks, ConstructFails(t) PROVE TypeOK'
  BY <1>4, AgentAssumption DEF ConstructFails, Finishing, Finish, Released,
     TypeOK, Tables, TaskStatus, Terminal, mem
<1>5. ASSUME NEW t \in Tasks, StartBody(t) PROVE TypeOK'
  BY <1>5, AgentAssumption DEF StartBody, TypeOK, Tables, TaskStatus,
     Terminal, mem
<1>6. ASSUME NEW t \in Tasks, CancelParent(t) PROVE TypeOK'
  BY <1>6, AgentAssumption DEF CancelParent, TypeOK, Tables, TaskStatus,
     Terminal, mem
<1>7. ASSUME NEW t \in Tasks, DropSpawner(t) PROVE TypeOK'
  BY <1>7, AgentAssumption DEF DropSpawner, TypeOK, Tables, TaskStatus,
     Terminal, mem
<1>8. ASSUME NEW t \in Tasks, RunEnds(t) PROVE TypeOK'
  BY <1>8, AgentAssumption DEF RunEnds, EndRun, TypeOK, Tables, TaskStatus,
     Terminal, mem
<1>9. ASSUME NEW t \in Tasks, Panic(t) PROVE TypeOK'
  BY <1>9, AgentAssumption DEF Panic, EndRun, TypeOK, Tables, TaskStatus,
     Terminal, mem
<1>10. ASSUME NEW t \in Tasks, StopOnToken(t) PROVE TypeOK'
  BY <1>10, AgentAssumption DEF StopOnToken, EndRun, TypeOK, Tables,
     TaskStatus, Terminal, mem
<1>11. ASSUME NEW t \in Tasks, CheckCancelled(t) PROVE TypeOK'
  BY <1>11, AgentAssumption DEF CheckCancelled, TypeOK, Tables, TaskStatus,
     Terminal, mem
<1>12. ASSUME NEW t \in Tasks, Report(t) PROVE TypeOK'
  BY <1>12, AgentAssumption DEF Report, Finishing, Finish, Released, TypeOK,
     Tables, TaskStatus, Terminal, mem
<1>13. ASSUME NEW t \in Tasks, Deliver(t) PROVE TypeOK'
  BY <1>13, AgentAssumption DEF Deliver, TypeOK, Tables, TaskStatus, Terminal,
     mem
<1>14. ASSUME NEW t \in Tasks, Guard(t) PROVE TypeOK'
  BY <1>14, AgentAssumption DEF Guard, Finishing, Finish, Released, TypeOK,
     Tables, TaskStatus, Terminal, mem
<1>15. ASSUME NEW t \in Tasks, SubagentStops(t) PROVE TypeOK'
  BY <1>15, AgentAssumption DEF SubagentStops, Mark, set_cancelled, Finish,
     TypeOK, Tables, TaskStatus, Terminal, mem
<1>16. ASSUME NEW t \in Tasks, SlashCancel(t) PROVE TypeOK'
  BY <1>16, AgentAssumption DEF SlashCancel, Mark, set_cancelled, Finish,
     TypeOK, Tables, TaskStatus, Terminal, mem
<1>17. ASSUME NEW t \in Tasks, CancelEffects(t) PROVE TypeOK'
  BY <1>17, AgentAssumption DEF CancelEffects, Released, TypeOK, Tables,
     TaskStatus, Terminal, mem
<1>18. ASSUME NEW t \in Tasks, NEW s \in TaskStatus, WriteTaskFile(t, s) PROVE TypeOK'
  BY <1>18, AgentAssumption DEF WriteTaskFile, TypeOK, Tables, TaskStatus,
     Terminal, mem
<1>19. ASSUME NEW t \in Tasks, DeleteTask(t) PROVE TypeOK'
  BY <1>19, AgentAssumption DEF DeleteTask, Released, remove_task,
     is_terminal_status, TypeOK, Tables, TaskStatus, Terminal, mem
<1>20. ASSUME NEW t \in Tasks, CleanupOld(t) PROVE TypeOK'
  BY <1>20, AgentAssumption DEF CleanupOld, cleanup_old_tasks, Finished,
     is_terminal_status, TypeOK, Tables, TaskStatus, Terminal, mem
<1>21. CASE CrashAndRestore
  BY <1>21, AgentAssumption DEF CrashAndRestore, TypeOK, Tables, TaskStatus,
     Terminal, mem
<1>22. CASE UNCHANGED vars
  BY <1>22 DEF vars, mem, TypeOK, Tables, TaskStatus, Terminal
<1>23. QED
  BY <1>1, <1>2, <1>3, <1>4, <1>5, <1>6, <1>7, <1>8, <1>9, <1>10, <1>11,
     <1>12, <1>13, <1>14, <1>15, <1>16, <1>17, <1>18, <1>19, <1>20, <1>21,
     <1>22 DEF Next, Spawner, Body

\* Every action leaves a task without a record untouched: only its spawner and a
\* restart move it.
LEMMA FreshStep ==
    ASSUME IInv, TypeOK', [Next]_vars
    PROVE  FreshTasks'
<1>1. ASSUME NEW t \in Tasks, AcquireScope(t) PROVE FreshTasks'
  BY <1>1 DEF AcquireScope, IInv, FreshTasks, MarkedIsOver, TypeOK, Tables,
     TaskStatus, Terminal, mem
<1>2. ASSUME NEW t \in Tasks, Create(t) PROVE FreshTasks'
  BY <1>2 DEF Create, create_and_start_task, IInv, FreshTasks, MarkedIsOver,
     TypeOK, Tables, TaskStatus, Terminal, mem
<1>3. ASSUME NEW t \in Tasks, RegisterToken(t) PROVE FreshTasks'
  BY <1>3 DEF RegisterToken, IInv, FreshTasks, MarkedIsOver, TypeOK, Tables,
     TaskStatus, Terminal, mem
<1>4. ASSUME NEW t \in Tasks, ConstructFails(t) PROVE FreshTasks'
  BY <1>4 DEF ConstructFails, Finishing, Finish, Released, IInv, FreshTasks,
     MarkedIsOver, TypeOK, Tables, TaskStatus, Terminal, mem
<1>5. ASSUME NEW t \in Tasks, StartBody(t) PROVE FreshTasks'
  BY <1>5 DEF StartBody, IInv, FreshTasks, MarkedIsOver, TypeOK, Tables,
     TaskStatus, Terminal, mem
<1>6. ASSUME NEW t \in Tasks, CancelParent(t) PROVE FreshTasks'
  BY <1>6 DEF CancelParent, IInv, FreshTasks, MarkedIsOver, TypeOK, Tables,
     TaskStatus, Terminal, mem
<1>7. ASSUME NEW t \in Tasks, DropSpawner(t) PROVE FreshTasks'
  BY <1>7 DEF DropSpawner, IInv, FreshTasks, MarkedIsOver, TypeOK, Tables,
     TaskStatus, Terminal, mem
<1>8. ASSUME NEW t \in Tasks, RunEnds(t) PROVE FreshTasks'
  BY <1>8 DEF RunEnds, EndRun, IInv, FreshTasks, MarkedIsOver, TypeOK, Tables,
     TaskStatus, Terminal, mem
<1>9. ASSUME NEW t \in Tasks, Panic(t) PROVE FreshTasks'
  BY <1>9 DEF Panic, EndRun, IInv, FreshTasks, MarkedIsOver, TypeOK, Tables,
     TaskStatus, Terminal, mem
<1>10. ASSUME NEW t \in Tasks, StopOnToken(t) PROVE FreshTasks'
  BY <1>10 DEF StopOnToken, EndRun, IInv, FreshTasks, MarkedIsOver, TypeOK,
     Tables, TaskStatus, Terminal, mem
<1>11. ASSUME NEW t \in Tasks, CheckCancelled(t) PROVE FreshTasks'
  BY <1>11 DEF CheckCancelled, IInv, FreshTasks, MarkedIsOver, TypeOK, Tables,
     TaskStatus, Terminal, mem
<1>12. ASSUME NEW t \in Tasks, Report(t) PROVE FreshTasks'
  BY <1>12 DEF Report, Finishing, Finish, Released, IInv, FreshTasks,
     MarkedIsOver, TypeOK, Tables, TaskStatus, Terminal, mem
<1>13. ASSUME NEW t \in Tasks, Deliver(t) PROVE FreshTasks'
  BY <1>13 DEF Deliver, IInv, FreshTasks, MarkedIsOver, TypeOK, Tables,
     TaskStatus, Terminal, mem
<1>14. ASSUME NEW t \in Tasks, Guard(t) PROVE FreshTasks'
  BY <1>14 DEF Guard, Finishing, Finish, Released, IInv, FreshTasks,
     MarkedIsOver, TypeOK, Tables, TaskStatus, Terminal, mem
<1>15. ASSUME NEW t \in Tasks, SubagentStops(t) PROVE FreshTasks'
  BY <1>15 DEF SubagentStops, Mark, set_cancelled, Finish, IInv, FreshTasks,
     MarkedIsOver, TypeOK, Tables, TaskStatus, Terminal, mem
<1>16. ASSUME NEW t \in Tasks, SlashCancel(t) PROVE FreshTasks'
  BY <1>16 DEF SlashCancel, Mark, set_cancelled, Finish, IInv, FreshTasks,
     MarkedIsOver, TypeOK, Tables, TaskStatus, Terminal, mem
<1>17. ASSUME NEW t \in Tasks, CancelEffects(t) PROVE FreshTasks'
  BY <1>17 DEF CancelEffects, Released, IInv, FreshTasks, MarkedIsOver,
     TypeOK, Tables, TaskStatus, Terminal, mem
<1>18. ASSUME NEW t \in Tasks, NEW s \in TaskStatus, WriteTaskFile(t, s) PROVE FreshTasks'
  BY <1>18 DEF WriteTaskFile, IInv, FreshTasks, MarkedIsOver, TypeOK, Tables,
     TaskStatus, Terminal, mem
<1>19. ASSUME NEW t \in Tasks, DeleteTask(t) PROVE FreshTasks'
  BY <1>19 DEF DeleteTask, Released, remove_task, is_terminal_status, IInv,
     FreshTasks, MarkedIsOver, TypeOK, Tables, TaskStatus, Terminal, mem
<1>20. ASSUME NEW t \in Tasks, CleanupOld(t) PROVE FreshTasks'
  BY <1>20 DEF CleanupOld, cleanup_old_tasks, Finished, is_terminal_status,
     IInv, FreshTasks, MarkedIsOver, TypeOK, Tables, TaskStatus, Terminal, mem
<1>21. CASE CrashAndRestore
  BY <1>21 DEF CrashAndRestore, IInv, FreshTasks, MarkedIsOver, TypeOK,
     Tables, TaskStatus, Terminal, mem
<1>22. CASE UNCHANGED vars
  BY <1>22 DEF vars, mem, IInv, FreshTasks, MarkedIsOver, TypeOK, Tables,
     TaskStatus, Terminal
<1>23. QED
  BY <1>1, <1>2, <1>3, <1>4, <1>5, <1>6, <1>7, <1>8, <1>9, <1>10, <1>11,
     <1>12, <1>13, <1>14, <1>15, <1>16, <1>17, <1>18, <1>19, <1>20, <1>21,
     <1>22 DEF Next, Spawner, Body

\* Every action keeps the scopes with their owners: what gives a scope back has made
\* its owner terminal.
LEMMA ScopeStep ==
    ASSUME IInv, TypeOK', [Next]_vars
    PROVE  ClaimsHold' /\ MarkedIsOver' /\ RunningHoldsScope'
<1>1. ASSUME NEW t \in Tasks, AcquireScope(t) PROVE ClaimsHold' /\ MarkedIsOver' /\ RunningHoldsScope'
  BY <1>1, AgentAssumption DEF AcquireScope, IInv, FreshTasks, ClaimsHold,
     MarkedIsOver, RunningHoldsScope, TypeOK, Tables, TaskStatus, Terminal,
     mem
<1>2. ASSUME NEW t \in Tasks, Create(t) PROVE ClaimsHold' /\ MarkedIsOver' /\ RunningHoldsScope'
  BY <1>2, AgentAssumption DEF Create, create_and_start_task, IInv,
     FreshTasks, ClaimsHold, MarkedIsOver, RunningHoldsScope, TypeOK, Tables,
     TaskStatus, Terminal, mem
<1>3. ASSUME NEW t \in Tasks, RegisterToken(t) PROVE ClaimsHold' /\ MarkedIsOver' /\ RunningHoldsScope'
  BY <1>3, AgentAssumption DEF RegisterToken, IInv, FreshTasks, ClaimsHold,
     MarkedIsOver, RunningHoldsScope, TypeOK, Tables, TaskStatus, Terminal,
     mem
<1>4. ASSUME NEW t \in Tasks, ConstructFails(t) PROVE ClaimsHold' /\ MarkedIsOver' /\ RunningHoldsScope'
  <2>1. spawner[t] # "claimed" /\ spawner'[t] # "claimed" /\ tasks'[t] # "Running"
    BY <1>4 DEF ConstructFails, Finishing, Finish, Released, IInv, TypeOK,
       Tables, TaskStatus, Terminal, FreshTasks, MarkedIsOver, mem
  <2>2. \A u \in Tasks \ {t} :
           spawner'[u] = spawner[u] /\ tasks'[u] = tasks[u] /\ canceller'[u] = canceller[u]
    BY <1>4 DEF ConstructFails, Finishing, Finish, Released, IInv, TypeOK,
       Tables, mem
  <2>3. MarkedIsOver'
    BY <2>1, <2>2 DEF IInv, MarkedIsOver
  <2>4. ASSUME NEW u \in Tasks, spawner'[u] = "claimed" \/ tasks'[u] = "Running", NEW p \in Scope[u]
        PROVE  locks'[p] = u
    <3>1. u # t /\ (spawner[u] = "claimed" \/ tasks[u] = "Running")
      BY <2>1, <2>2, <2>4
    <3>2. p \in Paths /\ locks[p] = u
      BY <2>4, <3>1, AgentAssumption DEF IInv, ClaimsHold, RunningHoldsScope
    <3>3. locks' = Released(t)
      BY <1>4 DEF ConstructFails, Finishing
    <3>4. QED
      BY <3>1, <3>2, <3>3 DEF Released
  <2>5. QED
    BY <2>3, <2>4 DEF ClaimsHold, RunningHoldsScope
<1>5. ASSUME NEW t \in Tasks, StartBody(t) PROVE ClaimsHold' /\ MarkedIsOver' /\ RunningHoldsScope'
  BY <1>5, AgentAssumption DEF StartBody, IInv, FreshTasks, ClaimsHold,
     MarkedIsOver, RunningHoldsScope, TypeOK, Tables, TaskStatus, Terminal,
     mem
<1>6. ASSUME NEW t \in Tasks, CancelParent(t) PROVE ClaimsHold' /\ MarkedIsOver' /\ RunningHoldsScope'
  BY <1>6, AgentAssumption DEF CancelParent, IInv, FreshTasks, ClaimsHold,
     MarkedIsOver, RunningHoldsScope, TypeOK, Tables, TaskStatus, Terminal,
     mem
<1>7. ASSUME NEW t \in Tasks, DropSpawner(t) PROVE ClaimsHold' /\ MarkedIsOver' /\ RunningHoldsScope'
  BY <1>7, AgentAssumption DEF DropSpawner, IInv, FreshTasks, ClaimsHold,
     MarkedIsOver, RunningHoldsScope, TypeOK, Tables, TaskStatus, Terminal,
     mem
<1>8. ASSUME NEW t \in Tasks, RunEnds(t) PROVE ClaimsHold' /\ MarkedIsOver' /\ RunningHoldsScope'
  BY <1>8, AgentAssumption DEF RunEnds, EndRun, IInv, FreshTasks, ClaimsHold,
     MarkedIsOver, RunningHoldsScope, TypeOK, Tables, TaskStatus, Terminal,
     mem
<1>9. ASSUME NEW t \in Tasks, Panic(t) PROVE ClaimsHold' /\ MarkedIsOver' /\ RunningHoldsScope'
  BY <1>9, AgentAssumption DEF Panic, EndRun, IInv, FreshTasks, ClaimsHold,
     MarkedIsOver, RunningHoldsScope, TypeOK, Tables, TaskStatus, Terminal,
     mem
<1>10. ASSUME NEW t \in Tasks, StopOnToken(t) PROVE ClaimsHold' /\ MarkedIsOver' /\ RunningHoldsScope'
  BY <1>10, AgentAssumption DEF StopOnToken, EndRun, IInv, FreshTasks,
     ClaimsHold, MarkedIsOver, RunningHoldsScope, TypeOK, Tables, TaskStatus,
     Terminal, mem
<1>11. ASSUME NEW t \in Tasks, CheckCancelled(t) PROVE ClaimsHold' /\ MarkedIsOver' /\ RunningHoldsScope'
  BY <1>11, AgentAssumption DEF CheckCancelled, IInv, FreshTasks, ClaimsHold,
     MarkedIsOver, RunningHoldsScope, TypeOK, Tables, TaskStatus, Terminal,
     mem
<1>12. ASSUME NEW t \in Tasks, Report(t) PROVE ClaimsHold' /\ MarkedIsOver' /\ RunningHoldsScope'
  <2>1. spawner[t] # "claimed" /\ spawner'[t] # "claimed" /\ tasks'[t] # "Running"
    BY <1>12 DEF Report, Finishing, Finish, Released, IInv, TypeOK, Tables,
       TaskStatus, Terminal, FreshTasks, MarkedIsOver, mem
  <2>2. \A u \in Tasks \ {t} :
           spawner'[u] = spawner[u] /\ tasks'[u] = tasks[u] /\ canceller'[u] = canceller[u]
    BY <1>12 DEF Report, Finishing, Finish, Released, IInv, TypeOK, Tables, mem
  <2>3. MarkedIsOver'
    BY <2>1, <2>2 DEF IInv, MarkedIsOver
  <2>4. ASSUME NEW u \in Tasks, spawner'[u] = "claimed" \/ tasks'[u] = "Running", NEW p \in Scope[u]
        PROVE  locks'[p] = u
    <3>1. u # t /\ (spawner[u] = "claimed" \/ tasks[u] = "Running")
      BY <2>1, <2>2, <2>4
    <3>2. p \in Paths /\ locks[p] = u
      BY <2>4, <3>1, AgentAssumption DEF IInv, ClaimsHold, RunningHoldsScope
    <3>3. locks' = Released(t)
      BY <1>12 DEF Report, Finishing
    <3>4. QED
      BY <3>1, <3>2, <3>3 DEF Released
  <2>5. QED
    BY <2>3, <2>4 DEF ClaimsHold, RunningHoldsScope
<1>13. ASSUME NEW t \in Tasks, Deliver(t) PROVE ClaimsHold' /\ MarkedIsOver' /\ RunningHoldsScope'
  BY <1>13, AgentAssumption DEF Deliver, IInv, FreshTasks, ClaimsHold,
     MarkedIsOver, RunningHoldsScope, TypeOK, Tables, TaskStatus, Terminal,
     mem
<1>14. ASSUME NEW t \in Tasks, Guard(t) PROVE ClaimsHold' /\ MarkedIsOver' /\ RunningHoldsScope'
  <2>1. spawner[t] # "claimed" /\ spawner'[t] # "claimed" /\ tasks'[t] # "Running"
    BY <1>14 DEF Guard, Finishing, Finish, Released, IInv, TypeOK, Tables,
       TaskStatus, Terminal, FreshTasks, MarkedIsOver, mem
  <2>2. \A u \in Tasks \ {t} :
           spawner'[u] = spawner[u] /\ tasks'[u] = tasks[u] /\ canceller'[u] = canceller[u]
    BY <1>14 DEF Guard, Finishing, Finish, Released, IInv, TypeOK, Tables, mem
  <2>3. MarkedIsOver'
    BY <2>1, <2>2 DEF IInv, MarkedIsOver
  <2>4. ASSUME NEW u \in Tasks, spawner'[u] = "claimed" \/ tasks'[u] = "Running", NEW p \in Scope[u]
        PROVE  locks'[p] = u
    <3>1. u # t /\ (spawner[u] = "claimed" \/ tasks[u] = "Running")
      BY <2>1, <2>2, <2>4
    <3>2. p \in Paths /\ locks[p] = u
      BY <2>4, <3>1, AgentAssumption DEF IInv, ClaimsHold, RunningHoldsScope
    <3>3. locks' = Released(t)
      BY <1>14 DEF Guard, Finishing
    <3>4. QED
      BY <3>1, <3>2, <3>3 DEF Released
  <2>5. QED
    BY <2>3, <2>4 DEF ClaimsHold, RunningHoldsScope
<1>15. ASSUME NEW t \in Tasks, SubagentStops(t) PROVE ClaimsHold' /\ MarkedIsOver' /\ RunningHoldsScope'
  BY <1>15, AgentAssumption DEF SubagentStops, Mark, set_cancelled, Finish,
     IInv, FreshTasks, ClaimsHold, MarkedIsOver, RunningHoldsScope, TypeOK,
     Tables, TaskStatus, Terminal, mem
<1>16. ASSUME NEW t \in Tasks, SlashCancel(t) PROVE ClaimsHold' /\ MarkedIsOver' /\ RunningHoldsScope'
  BY <1>16, AgentAssumption DEF SlashCancel, Mark, set_cancelled, Finish,
     IInv, FreshTasks, ClaimsHold, MarkedIsOver, RunningHoldsScope, TypeOK,
     Tables, TaskStatus, Terminal, mem
<1>17. ASSUME NEW t \in Tasks, CancelEffects(t) PROVE ClaimsHold' /\ MarkedIsOver' /\ RunningHoldsScope'
  <2>1. spawner[t] # "claimed" /\ spawner'[t] # "claimed" /\ tasks'[t] # "Running"
    BY <1>17 DEF CancelEffects, Released, IInv, TypeOK, Tables, TaskStatus,
       Terminal, FreshTasks, MarkedIsOver, mem
  <2>2. \A u \in Tasks \ {t} :
           spawner'[u] = spawner[u] /\ tasks'[u] = tasks[u] /\ canceller'[u] = canceller[u]
    BY <1>17 DEF CancelEffects, Released, IInv, TypeOK, Tables, mem
  <2>3. MarkedIsOver'
    BY <2>1, <2>2 DEF IInv, MarkedIsOver
  <2>4. ASSUME NEW u \in Tasks, spawner'[u] = "claimed" \/ tasks'[u] = "Running", NEW p \in Scope[u]
        PROVE  locks'[p] = u
    <3>1. u # t /\ (spawner[u] = "claimed" \/ tasks[u] = "Running")
      BY <2>1, <2>2, <2>4
    <3>2. p \in Paths /\ locks[p] = u
      BY <2>4, <3>1, AgentAssumption DEF IInv, ClaimsHold, RunningHoldsScope
    <3>3. locks' = Released(t)
      BY <1>17 DEF CancelEffects, Finishing
    <3>4. QED
      BY <3>1, <3>2, <3>3 DEF Released
  <2>5. QED
    BY <2>3, <2>4 DEF ClaimsHold, RunningHoldsScope
<1>18. ASSUME NEW t \in Tasks, NEW s \in TaskStatus, WriteTaskFile(t, s) PROVE ClaimsHold' /\ MarkedIsOver' /\ RunningHoldsScope'
  BY <1>18, AgentAssumption DEF WriteTaskFile, IInv, FreshTasks, ClaimsHold,
     MarkedIsOver, RunningHoldsScope, TypeOK, Tables, TaskStatus, Terminal,
     mem
<1>19. ASSUME NEW t \in Tasks, DeleteTask(t) PROVE ClaimsHold' /\ MarkedIsOver' /\ RunningHoldsScope'
  <2>1. spawner[t] # "claimed" /\ spawner'[t] # "claimed" /\ tasks'[t] # "Running"
    BY <1>19 DEF DeleteTask, Released, remove_task, is_terminal_status, IInv,
       TypeOK, Tables, TaskStatus, Terminal, FreshTasks, MarkedIsOver, mem
  <2>2. \A u \in Tasks \ {t} :
           spawner'[u] = spawner[u] /\ tasks'[u] = tasks[u] /\ canceller'[u] = canceller[u]
    BY <1>19 DEF DeleteTask, Released, remove_task, is_terminal_status, IInv,
       TypeOK, Tables, mem
  <2>3. MarkedIsOver'
    BY <2>1, <2>2 DEF IInv, MarkedIsOver
  <2>4. ASSUME NEW u \in Tasks, spawner'[u] = "claimed" \/ tasks'[u] = "Running", NEW p \in Scope[u]
        PROVE  locks'[p] = u
    <3>1. u # t /\ (spawner[u] = "claimed" \/ tasks[u] = "Running")
      BY <2>1, <2>2, <2>4
    <3>2. p \in Paths /\ locks[p] = u
      BY <2>4, <3>1, AgentAssumption DEF IInv, ClaimsHold, RunningHoldsScope
    <3>3. locks' = Released(t)
      BY <1>19 DEF DeleteTask, Finishing
    <3>4. QED
      BY <3>1, <3>2, <3>3 DEF Released
  <2>5. QED
    BY <2>3, <2>4 DEF ClaimsHold, RunningHoldsScope
<1>20. ASSUME NEW t \in Tasks, CleanupOld(t) PROVE ClaimsHold' /\ MarkedIsOver' /\ RunningHoldsScope'
  BY <1>20, AgentAssumption DEF CleanupOld, cleanup_old_tasks, Finished,
     is_terminal_status, IInv, FreshTasks, ClaimsHold, MarkedIsOver,
     RunningHoldsScope, TypeOK, Tables, TaskStatus, Terminal, mem
<1>21. CASE CrashAndRestore
  BY <1>21, AgentAssumption DEF CrashAndRestore, IInv, FreshTasks, ClaimsHold,
     MarkedIsOver, RunningHoldsScope, TypeOK, Tables, TaskStatus, Terminal,
     mem
<1>22. CASE UNCHANGED vars
  BY <1>22 DEF vars, mem, IInv, FreshTasks, ClaimsHold, MarkedIsOver,
     RunningHoldsScope, TypeOK, Tables, TaskStatus, Terminal
<1>23. QED
  BY <1>1, <1>2, <1>3, <1>4, <1>5, <1>6, <1>7, <1>8, <1>9, <1>10, <1>11,
     <1>12, <1>13, <1>14, <1>15, <1>16, <1>17, <1>18, <1>19, <1>20, <1>21,
     <1>22 DEF Next, Spawner, Body

\* Every action keeps the files behind the table.
LEMMA FileStep ==
    ASSUME IInv, TypeOK', [Next]_vars
    PROVE  RunningFileFirst' /\ WritesFollowTable' /\ FileFollowsTable'
<1>1. ASSUME NEW t \in Tasks, AcquireScope(t) PROVE RunningFileFirst' /\ WritesFollowTable' /\ FileFollowsTable'
  BY <1>1 DEF AcquireScope, IInv, FreshTasks, RunningFileFirst,
     WritesFollowTable, FileFollowsTable, TypeOK, Tables, TaskStatus,
     Terminal, mem
<1>2. ASSUME NEW t \in Tasks, Create(t) PROVE RunningFileFirst' /\ WritesFollowTable' /\ FileFollowsTable'
  BY <1>2 DEF Create, create_and_start_task, IInv, FreshTasks,
     RunningFileFirst, WritesFollowTable, FileFollowsTable, TypeOK, Tables,
     TaskStatus, Terminal, mem
<1>3. ASSUME NEW t \in Tasks, RegisterToken(t) PROVE RunningFileFirst' /\ WritesFollowTable' /\ FileFollowsTable'
  BY <1>3 DEF RegisterToken, IInv, FreshTasks, RunningFileFirst,
     WritesFollowTable, FileFollowsTable, TypeOK, Tables, TaskStatus,
     Terminal, mem
<1>4. ASSUME NEW t \in Tasks, ConstructFails(t) PROVE RunningFileFirst' /\ WritesFollowTable' /\ FileFollowsTable'
  <2>1. UNCHANGED <<disk, canceller>> /\ (stage[t] # "none" \/ "Running" \notin writing[t])
          /\ \A u \in Tasks \ {t} : stage'[u] = stage[u] /\ spawner'[u] = spawner[u]
    BY <1>4 DEF ConstructFails, IInv, TypeOK
  <2>2. "Running" \notin writing[t]
    BY <2>1 DEF IInv, RunningFileFirst
  <2>3. PICK status \in {"Completed", "Failed"} : Finishing(t, status)
    BY <1>4 DEF ConstructFails
  <2>4. CASE tasks[t] = "Running"
    <3>1. /\ tasks'[t] = status
          /\ \A u \in Tasks \ {t} : tasks'[u] = tasks[u]
      BY <2>3, <2>4 DEF Finishing, Finish, IInv, TypeOK, Tables
    <3>2. /\ writing'[t] = writing[t] \cup {status}
          /\ \A u \in Tasks \ {t} : writing'[u] = writing[u]
      BY <2>3, <2>4 DEF Finishing, IInv, TypeOK
    <3>3. canceller[t] = "idle" => writing[t] = {}
      BY <2>2, <2>4 DEF IInv, WritesFollowTable
    <3>4. QED
      BY <2>1, <2>2, <3>1, <3>2, <3>3 DEF IInv, RunningFileFirst,
         WritesFollowTable,
         FileFollowsTable
  <2>5. CASE tasks[t] # "Running"
    <3>1. tasks' = tasks /\ writing' = writing
      BY <2>3, <2>5 DEF Finishing, Finish, IInv, TypeOK, Tables
    <3>2. QED
      BY <2>1, <2>2, <3>1 DEF IInv, RunningFileFirst, WritesFollowTable,
         FileFollowsTable
  <2>6. QED
    BY <2>4, <2>5
<1>5. ASSUME NEW t \in Tasks, StartBody(t) PROVE RunningFileFirst' /\ WritesFollowTable' /\ FileFollowsTable'
  BY <1>5 DEF StartBody, IInv, FreshTasks, RunningFileFirst,
     WritesFollowTable, FileFollowsTable, TypeOK, Tables, TaskStatus,
     Terminal, mem
<1>6. ASSUME NEW t \in Tasks, CancelParent(t) PROVE RunningFileFirst' /\ WritesFollowTable' /\ FileFollowsTable'
  BY <1>6 DEF CancelParent, IInv, FreshTasks, RunningFileFirst,
     WritesFollowTable, FileFollowsTable, TypeOK, Tables, TaskStatus,
     Terminal, mem
<1>7. ASSUME NEW t \in Tasks, DropSpawner(t) PROVE RunningFileFirst' /\ WritesFollowTable' /\ FileFollowsTable'
  BY <1>7 DEF DropSpawner, IInv, FreshTasks, RunningFileFirst,
     WritesFollowTable, FileFollowsTable, TypeOK, Tables, TaskStatus,
     Terminal, mem
<1>8. ASSUME NEW t \in Tasks, RunEnds(t) PROVE RunningFileFirst' /\ WritesFollowTable' /\ FileFollowsTable'
  BY <1>8 DEF RunEnds, EndRun, IInv, FreshTasks, RunningFileFirst,
     WritesFollowTable, FileFollowsTable, TypeOK, Tables, TaskStatus,
     Terminal, mem
<1>9. ASSUME NEW t \in Tasks, Panic(t) PROVE RunningFileFirst' /\ WritesFollowTable' /\ FileFollowsTable'
  BY <1>9 DEF Panic, EndRun, IInv, FreshTasks, RunningFileFirst,
     WritesFollowTable, FileFollowsTable, TypeOK, Tables, TaskStatus,
     Terminal, mem
<1>10. ASSUME NEW t \in Tasks, StopOnToken(t) PROVE RunningFileFirst' /\ WritesFollowTable' /\ FileFollowsTable'
  BY <1>10 DEF StopOnToken, EndRun, IInv, FreshTasks, RunningFileFirst,
     WritesFollowTable, FileFollowsTable, TypeOK, Tables, TaskStatus,
     Terminal, mem
<1>11. ASSUME NEW t \in Tasks, CheckCancelled(t) PROVE RunningFileFirst' /\ WritesFollowTable' /\ FileFollowsTable'
  BY <1>11 DEF CheckCancelled, IInv, FreshTasks, RunningFileFirst,
     WritesFollowTable, FileFollowsTable, TypeOK, Tables, TaskStatus,
     Terminal, mem
<1>12. ASSUME NEW t \in Tasks, Report(t) PROVE RunningFileFirst' /\ WritesFollowTable' /\ FileFollowsTable'
  <2>1. UNCHANGED <<disk, canceller>> /\ (stage[t] # "none" \/ "Running" \notin writing[t])
          /\ \A u \in Tasks \ {t} : stage'[u] = stage[u] /\ spawner'[u] = spawner[u]
    BY <1>12 DEF Report, IInv, TypeOK
  <2>2. "Running" \notin writing[t]
    BY <2>1 DEF IInv, RunningFileFirst
  <2>3. PICK status \in {"Completed", "Failed"} : Finishing(t, status)
    BY <1>12 DEF Report
  <2>4. CASE tasks[t] = "Running"
    <3>1. /\ tasks'[t] = status
          /\ \A u \in Tasks \ {t} : tasks'[u] = tasks[u]
      BY <2>3, <2>4 DEF Finishing, Finish, IInv, TypeOK, Tables
    <3>2. /\ writing'[t] = writing[t] \cup {status}
          /\ \A u \in Tasks \ {t} : writing'[u] = writing[u]
      BY <2>3, <2>4 DEF Finishing, IInv, TypeOK
    <3>3. canceller[t] = "idle" => writing[t] = {}
      BY <2>2, <2>4 DEF IInv, WritesFollowTable
    <3>4. QED
      BY <2>1, <2>2, <3>1, <3>2, <3>3 DEF IInv, RunningFileFirst,
         WritesFollowTable,
         FileFollowsTable
  <2>5. CASE tasks[t] # "Running"
    <3>1. tasks' = tasks /\ writing' = writing
      BY <2>3, <2>5 DEF Finishing, Finish, IInv, TypeOK, Tables
    <3>2. QED
      BY <2>1, <2>2, <3>1 DEF IInv, RunningFileFirst, WritesFollowTable,
         FileFollowsTable
  <2>6. QED
    BY <2>4, <2>5
<1>13. ASSUME NEW t \in Tasks, Deliver(t) PROVE RunningFileFirst' /\ WritesFollowTable' /\ FileFollowsTable'
  BY <1>13 DEF Deliver, IInv, FreshTasks, RunningFileFirst, WritesFollowTable,
     FileFollowsTable, TypeOK, Tables, TaskStatus, Terminal, mem
<1>14. ASSUME NEW t \in Tasks, Guard(t) PROVE RunningFileFirst' /\ WritesFollowTable' /\ FileFollowsTable'
  <2>1. UNCHANGED <<disk, canceller>> /\ (stage[t] # "none" \/ "Running" \notin writing[t])
          /\ \A u \in Tasks \ {t} : stage'[u] = stage[u] /\ spawner'[u] = spawner[u]
    BY <1>14 DEF Guard, IInv, TypeOK
  <2>2. "Running" \notin writing[t]
    BY <2>1 DEF IInv, RunningFileFirst
  <2>3. PICK status \in {"Completed", "Failed"} : Finishing(t, status)
    BY <1>14 DEF Guard
  <2>4. CASE tasks[t] = "Running"
    <3>1. /\ tasks'[t] = status
          /\ \A u \in Tasks \ {t} : tasks'[u] = tasks[u]
      BY <2>3, <2>4 DEF Finishing, Finish, IInv, TypeOK, Tables
    <3>2. /\ writing'[t] = writing[t] \cup {status}
          /\ \A u \in Tasks \ {t} : writing'[u] = writing[u]
      BY <2>3, <2>4 DEF Finishing, IInv, TypeOK
    <3>3. canceller[t] = "idle" => writing[t] = {}
      BY <2>2, <2>4 DEF IInv, WritesFollowTable
    <3>4. QED
      BY <2>1, <2>2, <3>1, <3>2, <3>3 DEF IInv, RunningFileFirst,
         WritesFollowTable,
         FileFollowsTable
  <2>5. CASE tasks[t] # "Running"
    <3>1. tasks' = tasks /\ writing' = writing
      BY <2>3, <2>5 DEF Finishing, Finish, IInv, TypeOK, Tables
    <3>2. QED
      BY <2>1, <2>2, <3>1 DEF IInv, RunningFileFirst, WritesFollowTable,
         FileFollowsTable
  <2>6. QED
    BY <2>4, <2>5
<1>15. ASSUME NEW t \in Tasks, SubagentStops(t) PROVE RunningFileFirst' /\ WritesFollowTable' /\ FileFollowsTable'
  BY <1>15 DEF SubagentStops, Mark, set_cancelled, Finish, IInv, FreshTasks,
     RunningFileFirst, WritesFollowTable, FileFollowsTable, TypeOK, Tables,
     TaskStatus, Terminal, mem
<1>16. ASSUME NEW t \in Tasks, SlashCancel(t) PROVE RunningFileFirst' /\ WritesFollowTable' /\ FileFollowsTable'
  BY <1>16 DEF SlashCancel, Mark, set_cancelled, Finish, IInv, FreshTasks,
     RunningFileFirst, WritesFollowTable, FileFollowsTable, TypeOK, Tables,
     TaskStatus, Terminal, mem
<1>17. ASSUME NEW t \in Tasks, CancelEffects(t) PROVE RunningFileFirst' /\ WritesFollowTable' /\ FileFollowsTable'
  BY <1>17 DEF CancelEffects, Released, IInv, FreshTasks, RunningFileFirst,
     WritesFollowTable, FileFollowsTable, TypeOK, Tables, TaskStatus,
     Terminal, mem
<1>18. ASSUME NEW t \in Tasks, NEW s \in TaskStatus, WriteTaskFile(t, s) PROVE RunningFileFirst' /\ WritesFollowTable' /\ FileFollowsTable'
  BY <1>18 DEF WriteTaskFile, IInv, FreshTasks, RunningFileFirst,
     WritesFollowTable, FileFollowsTable, TypeOK, Tables, TaskStatus,
     Terminal, mem
<1>19. ASSUME NEW t \in Tasks, DeleteTask(t) PROVE RunningFileFirst' /\ WritesFollowTable' /\ FileFollowsTable'
  BY <1>19 DEF DeleteTask, Released, remove_task, is_terminal_status, IInv,
     FreshTasks, RunningFileFirst, WritesFollowTable, FileFollowsTable,
     TypeOK, Tables, TaskStatus, Terminal, mem
<1>20. ASSUME NEW t \in Tasks, CleanupOld(t) PROVE RunningFileFirst' /\ WritesFollowTable' /\ FileFollowsTable'
  BY <1>20 DEF CleanupOld, cleanup_old_tasks, Finished, is_terminal_status,
     IInv, FreshTasks, RunningFileFirst, WritesFollowTable, FileFollowsTable,
     TypeOK, Tables, TaskStatus, Terminal, mem
<1>21. CASE CrashAndRestore
  BY <1>21 DEF CrashAndRestore, IInv, FreshTasks, RunningFileFirst,
     WritesFollowTable, FileFollowsTable, TypeOK, Tables, TaskStatus,
     Terminal, mem
<1>22. CASE UNCHANGED vars
  BY <1>22 DEF vars, mem, IInv, FreshTasks, RunningFileFirst,
     WritesFollowTable, FileFollowsTable, TypeOK, Tables, TaskStatus, Terminal
<1>23. QED
  BY <1>1, <1>2, <1>3, <1>4, <1>5, <1>6, <1>7, <1>8, <1>9, <1>10, <1>11,
     <1>12, <1>13, <1>14, <1>15, <1>16, <1>17, <1>18, <1>19, <1>20, <1>21,
     <1>22 DEF Next, Spawner, Body

\* When no spawner is dropped, every action keeps an owner for each scope and each
\* Running record.
LEMMA OwnerStep ==
    ASSUME IInv, TypeOK', [Next]_vars, ~ParentAborts
    PROVE  ScopesComeBack' /\ NoOrphanRecord'
<1>1. ASSUME NEW t \in Tasks, AcquireScope(t) PROVE ScopesComeBack' /\ NoOrphanRecord'
  BY <1>1, AgentAssumption DEF AcquireScope, IInv, FreshTasks, MarkedIsOver,
     ScopesComeBack, NoOrphanRecord, TypeOK, Tables, TaskStatus, Terminal, mem
<1>2. ASSUME NEW t \in Tasks, Create(t) PROVE ScopesComeBack' /\ NoOrphanRecord'
  BY <1>2, AgentAssumption DEF Create, create_and_start_task, IInv,
     FreshTasks, MarkedIsOver, ScopesComeBack, NoOrphanRecord, TypeOK, Tables,
     TaskStatus, Terminal, mem
<1>3. ASSUME NEW t \in Tasks, RegisterToken(t) PROVE ScopesComeBack' /\ NoOrphanRecord'
  BY <1>3, AgentAssumption DEF RegisterToken, IInv, FreshTasks, MarkedIsOver,
     ScopesComeBack, NoOrphanRecord, TypeOK, Tables, TaskStatus, Terminal, mem
<1>4. ASSUME NEW t \in Tasks, ConstructFails(t) PROVE ScopesComeBack' /\ NoOrphanRecord'
  BY <1>4, AgentAssumption DEF ConstructFails, Finishing, Finish, Released,
     IInv, FreshTasks, MarkedIsOver, ScopesComeBack, NoOrphanRecord, TypeOK,
     Tables, TaskStatus, Terminal, mem
<1>5. ASSUME NEW t \in Tasks, StartBody(t) PROVE ScopesComeBack' /\ NoOrphanRecord'
  BY <1>5, AgentAssumption DEF StartBody, IInv, FreshTasks, MarkedIsOver,
     ScopesComeBack, NoOrphanRecord, TypeOK, Tables, TaskStatus, Terminal, mem
<1>6. ASSUME NEW t \in Tasks, CancelParent(t) PROVE ScopesComeBack' /\ NoOrphanRecord'
  BY <1>6, AgentAssumption DEF CancelParent, IInv, FreshTasks, MarkedIsOver,
     ScopesComeBack, NoOrphanRecord, TypeOK, Tables, TaskStatus, Terminal, mem
<1>7. ASSUME NEW t \in Tasks, DropSpawner(t) PROVE ScopesComeBack' /\ NoOrphanRecord'
  BY <1>7, AgentAssumption DEF DropSpawner, IInv, FreshTasks, MarkedIsOver,
     ScopesComeBack, NoOrphanRecord, TypeOK, Tables, TaskStatus, Terminal, mem
<1>8. ASSUME NEW t \in Tasks, RunEnds(t) PROVE ScopesComeBack' /\ NoOrphanRecord'
  BY <1>8, AgentAssumption DEF RunEnds, EndRun, IInv, FreshTasks,
     MarkedIsOver, ScopesComeBack, NoOrphanRecord, TypeOK, Tables, TaskStatus,
     Terminal, mem
<1>9. ASSUME NEW t \in Tasks, Panic(t) PROVE ScopesComeBack' /\ NoOrphanRecord'
  BY <1>9, AgentAssumption DEF Panic, EndRun, IInv, FreshTasks, MarkedIsOver,
     ScopesComeBack, NoOrphanRecord, TypeOK, Tables, TaskStatus, Terminal, mem
<1>10. ASSUME NEW t \in Tasks, StopOnToken(t) PROVE ScopesComeBack' /\ NoOrphanRecord'
  BY <1>10, AgentAssumption DEF StopOnToken, EndRun, IInv, FreshTasks,
     MarkedIsOver, ScopesComeBack, NoOrphanRecord, TypeOK, Tables, TaskStatus,
     Terminal, mem
<1>11. ASSUME NEW t \in Tasks, CheckCancelled(t) PROVE ScopesComeBack' /\ NoOrphanRecord'
  BY <1>11, AgentAssumption DEF CheckCancelled, IInv, FreshTasks,
     MarkedIsOver, ScopesComeBack, NoOrphanRecord, TypeOK, Tables, TaskStatus,
     Terminal, mem
<1>12. ASSUME NEW t \in Tasks, Report(t) PROVE ScopesComeBack' /\ NoOrphanRecord'
  BY <1>12, AgentAssumption DEF Report, Finishing, Finish, Released, IInv,
     FreshTasks, MarkedIsOver, ScopesComeBack, NoOrphanRecord, TypeOK, Tables,
     TaskStatus, Terminal, mem
<1>13. ASSUME NEW t \in Tasks, Deliver(t) PROVE ScopesComeBack' /\ NoOrphanRecord'
  BY <1>13, AgentAssumption DEF Deliver, IInv, FreshTasks, MarkedIsOver,
     ScopesComeBack, NoOrphanRecord, TypeOK, Tables, TaskStatus, Terminal, mem
<1>14. ASSUME NEW t \in Tasks, Guard(t) PROVE ScopesComeBack' /\ NoOrphanRecord'
  BY <1>14, AgentAssumption DEF Guard, Finishing, Finish, Released, IInv,
     FreshTasks, MarkedIsOver, ScopesComeBack, NoOrphanRecord, TypeOK, Tables,
     TaskStatus, Terminal, mem
<1>15. ASSUME NEW t \in Tasks, SubagentStops(t) PROVE ScopesComeBack' /\ NoOrphanRecord'
  BY <1>15, AgentAssumption DEF SubagentStops, Mark, set_cancelled, Finish,
     IInv, FreshTasks, MarkedIsOver, ScopesComeBack, NoOrphanRecord, TypeOK,
     Tables, TaskStatus, Terminal, mem
<1>16. ASSUME NEW t \in Tasks, SlashCancel(t) PROVE ScopesComeBack' /\ NoOrphanRecord'
  BY <1>16, AgentAssumption DEF SlashCancel, Mark, set_cancelled, Finish,
     IInv, FreshTasks, MarkedIsOver, ScopesComeBack, NoOrphanRecord, TypeOK,
     Tables, TaskStatus, Terminal, mem
<1>17. ASSUME NEW t \in Tasks, CancelEffects(t) PROVE ScopesComeBack' /\ NoOrphanRecord'
  BY <1>17, AgentAssumption DEF CancelEffects, Released, IInv, FreshTasks,
     MarkedIsOver, ScopesComeBack, NoOrphanRecord, TypeOK, Tables, TaskStatus,
     Terminal, mem
<1>18. ASSUME NEW t \in Tasks, NEW s \in TaskStatus, WriteTaskFile(t, s) PROVE ScopesComeBack' /\ NoOrphanRecord'
  BY <1>18, AgentAssumption DEF WriteTaskFile, IInv, FreshTasks, MarkedIsOver,
     ScopesComeBack, NoOrphanRecord, TypeOK, Tables, TaskStatus, Terminal, mem
<1>19. ASSUME NEW t \in Tasks, DeleteTask(t) PROVE ScopesComeBack' /\ NoOrphanRecord'
  BY <1>19, AgentAssumption DEF DeleteTask, Released, remove_task,
     is_terminal_status, IInv, FreshTasks, MarkedIsOver, ScopesComeBack,
     NoOrphanRecord, TypeOK, Tables, TaskStatus, Terminal, mem
<1>20. ASSUME NEW t \in Tasks, CleanupOld(t) PROVE ScopesComeBack' /\ NoOrphanRecord'
  BY <1>20, AgentAssumption DEF CleanupOld, cleanup_old_tasks, Finished,
     is_terminal_status, IInv, FreshTasks, MarkedIsOver, ScopesComeBack,
     NoOrphanRecord, TypeOK, Tables, TaskStatus, Terminal, mem
<1>21. CASE CrashAndRestore
  BY <1>21, AgentAssumption DEF CrashAndRestore, IInv, FreshTasks,
     MarkedIsOver, ScopesComeBack, NoOrphanRecord, TypeOK, Tables, TaskStatus,
     Terminal, mem
<1>22. CASE UNCHANGED vars
  BY <1>22 DEF vars, mem, IInv, FreshTasks, MarkedIsOver, ScopesComeBack,
     NoOrphanRecord, TypeOK, Tables, TaskStatus, Terminal
<1>23. QED
  BY <1>1, <1>2, <1>3, <1>4, <1>5, <1>6, <1>7, <1>8, <1>9, <1>10, <1>11,
     <1>12, <1>13, <1>14, <1>15, <1>16, <1>17, <1>18, <1>19, <1>20, <1>21,
     <1>22 DEF Next, Spawner, Body

\* The invariant holds in every reachable state.
THEOREM Invariance == Spec => []IInv
<1>1. Init => IInv
  BY AgentAssumption DEF Init, IInv, TypeOK, FreshTasks, ClaimsHold, MarkedIsOver,
     RunningHoldsScope, RunningFileFirst, WritesFollowTable, FileFollowsTable,
     ScopesComeBack, NoOrphanRecord, Tables, TaskStatus, Terminal, NoRecords
<1>2. IInv /\ [Next]_vars => IInv'
  <2> SUFFICES ASSUME IInv, [Next]_vars PROVE IInv'
    OBVIOUS
  <2>1. TypeOK'
    BY TypeStep DEF IInv
  <2>2. QED
    BY <2>1, FreshStep, ScopeStep, FileStep, OwnerStep DEF IInv
<1>3. QED
  BY <1>1, <1>2, PTL DEF Spec

\* The types hold in every reachable state.
THEOREM TypeCorrect == Spec => []TypeOK
  BY Invariance, PTL DEF IInv

\* Whatever is cancelled, fails or panics around it, a Running coder holds all of its
\* scope: two Running coders never share a path.
THEOREM ScopesAreExclusive == Spec => []RunningHoldsScope
  BY Invariance, PTL DEF IInv

\* The file of a task that nobody cancelled and nobody writes agrees with the table.
THEOREM FilesFollow == Spec => []FileFollowsTable
  BY Invariance, PTL DEF IInv

\* When no spawner is dropped, every held path has somebody who gives it back.
THEOREM ScopesComeBackHolds ==
    ASSUME ~ParentAborts
    PROVE  Spec => []ScopesComeBack
<1>1. IInv => ScopesComeBack
  BY DEF IInv
<1>2. QED
  BY <1>1, Invariance, PTL

\* When no spawner is dropped, no Running record is without somebody to end it.
THEOREM NoOrphanRecordHolds ==
    ASSUME ~ParentAborts
    PROVE  Spec => []NoOrphanRecord
<1>1. IInv => NoOrphanRecord
  BY DEF IInv
<1>2. QED
  BY <1>1, Invariance, PTL

\* No action turns a terminal status into another one, except a restart.
LEMMA FinalStep ==
    ASSUME IInv, [Next]_vars
    PROVE  \A u \in Tasks : tasks[u] \in Terminal => tasks'[u] \in {tasks[u], "absent"} \/ crashes' # crashes
<1>1. ASSUME NEW t \in Tasks, AcquireScope(t) PROVE \A u \in Tasks : tasks[u] \in Terminal => tasks'[u] \in {tasks[u], "absent"} \/ crashes' # crashes
  BY <1>1 DEF AcquireScope, IInv, FreshTasks, TypeOK, Tables, TaskStatus,
     Terminal, mem
<1>2. ASSUME NEW t \in Tasks, Create(t) PROVE \A u \in Tasks : tasks[u] \in Terminal => tasks'[u] \in {tasks[u], "absent"} \/ crashes' # crashes
  BY <1>2 DEF Create, create_and_start_task, IInv, FreshTasks, TypeOK, Tables,
     TaskStatus, Terminal, mem
<1>3. ASSUME NEW t \in Tasks, RegisterToken(t) PROVE \A u \in Tasks : tasks[u] \in Terminal => tasks'[u] \in {tasks[u], "absent"} \/ crashes' # crashes
  BY <1>3 DEF RegisterToken, IInv, FreshTasks, TypeOK, Tables, TaskStatus,
     Terminal, mem
<1>4. ASSUME NEW t \in Tasks, ConstructFails(t) PROVE \A u \in Tasks : tasks[u] \in Terminal => tasks'[u] \in {tasks[u], "absent"} \/ crashes' # crashes
  BY <1>4 DEF ConstructFails, Finishing, Finish, Released, IInv, FreshTasks,
     TypeOK, Tables, TaskStatus, Terminal, mem
<1>5. ASSUME NEW t \in Tasks, StartBody(t) PROVE \A u \in Tasks : tasks[u] \in Terminal => tasks'[u] \in {tasks[u], "absent"} \/ crashes' # crashes
  BY <1>5 DEF StartBody, IInv, FreshTasks, TypeOK, Tables, TaskStatus,
     Terminal, mem
<1>6. ASSUME NEW t \in Tasks, CancelParent(t) PROVE \A u \in Tasks : tasks[u] \in Terminal => tasks'[u] \in {tasks[u], "absent"} \/ crashes' # crashes
  BY <1>6 DEF CancelParent, IInv, FreshTasks, TypeOK, Tables, TaskStatus,
     Terminal, mem
<1>7. ASSUME NEW t \in Tasks, DropSpawner(t) PROVE \A u \in Tasks : tasks[u] \in Terminal => tasks'[u] \in {tasks[u], "absent"} \/ crashes' # crashes
  BY <1>7 DEF DropSpawner, IInv, FreshTasks, TypeOK, Tables, TaskStatus,
     Terminal, mem
<1>8. ASSUME NEW t \in Tasks, RunEnds(t) PROVE \A u \in Tasks : tasks[u] \in Terminal => tasks'[u] \in {tasks[u], "absent"} \/ crashes' # crashes
  BY <1>8 DEF RunEnds, EndRun, IInv, FreshTasks, TypeOK, Tables, TaskStatus,
     Terminal, mem
<1>9. ASSUME NEW t \in Tasks, Panic(t) PROVE \A u \in Tasks : tasks[u] \in Terminal => tasks'[u] \in {tasks[u], "absent"} \/ crashes' # crashes
  BY <1>9 DEF Panic, EndRun, IInv, FreshTasks, TypeOK, Tables, TaskStatus,
     Terminal, mem
<1>10. ASSUME NEW t \in Tasks, StopOnToken(t) PROVE \A u \in Tasks : tasks[u] \in Terminal => tasks'[u] \in {tasks[u], "absent"} \/ crashes' # crashes
  BY <1>10 DEF StopOnToken, EndRun, IInv, FreshTasks, TypeOK, Tables,
     TaskStatus, Terminal, mem
<1>11. ASSUME NEW t \in Tasks, CheckCancelled(t) PROVE \A u \in Tasks : tasks[u] \in Terminal => tasks'[u] \in {tasks[u], "absent"} \/ crashes' # crashes
  BY <1>11 DEF CheckCancelled, IInv, FreshTasks, TypeOK, Tables, TaskStatus,
     Terminal, mem
<1>12. ASSUME NEW t \in Tasks, Report(t) PROVE \A u \in Tasks : tasks[u] \in Terminal => tasks'[u] \in {tasks[u], "absent"} \/ crashes' # crashes
  BY <1>12 DEF Report, Finishing, Finish, Released, IInv, FreshTasks, TypeOK,
     Tables, TaskStatus, Terminal, mem
<1>13. ASSUME NEW t \in Tasks, Deliver(t) PROVE \A u \in Tasks : tasks[u] \in Terminal => tasks'[u] \in {tasks[u], "absent"} \/ crashes' # crashes
  BY <1>13 DEF Deliver, IInv, FreshTasks, TypeOK, Tables, TaskStatus,
     Terminal, mem
<1>14. ASSUME NEW t \in Tasks, Guard(t) PROVE \A u \in Tasks : tasks[u] \in Terminal => tasks'[u] \in {tasks[u], "absent"} \/ crashes' # crashes
  BY <1>14 DEF Guard, Finishing, Finish, Released, IInv, FreshTasks, TypeOK,
     Tables, TaskStatus, Terminal, mem
<1>15. ASSUME NEW t \in Tasks, SubagentStops(t) PROVE \A u \in Tasks : tasks[u] \in Terminal => tasks'[u] \in {tasks[u], "absent"} \/ crashes' # crashes
  BY <1>15 DEF SubagentStops, Mark, set_cancelled, Finish, IInv, FreshTasks,
     TypeOK, Tables, TaskStatus, Terminal, mem
<1>16. ASSUME NEW t \in Tasks, SlashCancel(t) PROVE \A u \in Tasks : tasks[u] \in Terminal => tasks'[u] \in {tasks[u], "absent"} \/ crashes' # crashes
  BY <1>16 DEF SlashCancel, Mark, set_cancelled, Finish, IInv, FreshTasks,
     TypeOK, Tables, TaskStatus, Terminal, mem
<1>17. ASSUME NEW t \in Tasks, CancelEffects(t) PROVE \A u \in Tasks : tasks[u] \in Terminal => tasks'[u] \in {tasks[u], "absent"} \/ crashes' # crashes
  BY <1>17 DEF CancelEffects, Released, IInv, FreshTasks, TypeOK, Tables,
     TaskStatus, Terminal, mem
<1>18. ASSUME NEW t \in Tasks, NEW s \in TaskStatus, WriteTaskFile(t, s) PROVE \A u \in Tasks : tasks[u] \in Terminal => tasks'[u] \in {tasks[u], "absent"} \/ crashes' # crashes
  BY <1>18 DEF WriteTaskFile, IInv, FreshTasks, TypeOK, Tables, TaskStatus,
     Terminal, mem
<1>19. ASSUME NEW t \in Tasks, DeleteTask(t) PROVE \A u \in Tasks : tasks[u] \in Terminal => tasks'[u] \in {tasks[u], "absent"} \/ crashes' # crashes
  BY <1>19 DEF DeleteTask, Released, remove_task, is_terminal_status, IInv,
     FreshTasks, TypeOK, Tables, TaskStatus, Terminal, mem
<1>20. ASSUME NEW t \in Tasks, CleanupOld(t) PROVE \A u \in Tasks : tasks[u] \in Terminal => tasks'[u] \in {tasks[u], "absent"} \/ crashes' # crashes
  BY <1>20 DEF CleanupOld, cleanup_old_tasks, Finished, is_terminal_status,
     IInv, FreshTasks, TypeOK, Tables, TaskStatus, Terminal, mem
<1>21. CASE CrashAndRestore
  BY <1>21 DEF CrashAndRestore, IInv, FreshTasks, TypeOK, Tables, TaskStatus,
     Terminal, mem
<1>22. CASE UNCHANGED vars
  BY <1>22 DEF vars, mem, IInv, FreshTasks, TypeOK, Tables, TaskStatus,
     Terminal
<1>23. QED
  BY <1>1, <1>2, <1>3, <1>4, <1>5, <1>6, <1>7, <1>8, <1>9, <1>10, <1>11,
     <1>12, <1>13, <1>14, <1>15, <1>16, <1>17, <1>18, <1>19, <1>20, <1>21,
     <1>22 DEF Next, Spawner, Body

\* A terminal status stays until the record is removed or the process restarts.
THEOREM TerminalIsFinalHolds == Spec => TerminalIsFinal
<1>1. IInv /\ [Next]_vars => [\A t \in Tasks : tasks[t] \in Terminal =>
          tasks'[t] \in {tasks[t], "absent"} \/ crashes' # crashes]_vars
  BY FinalStep
<1>2. QED
  BY <1>1, Invariance, PTL DEF Spec, TerminalIsFinal
=============================================================================
