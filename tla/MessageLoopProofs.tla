--------------------------- MODULE MessageLoopProofs ---------------------------
(***************************************************************************)
(* Proofs about MessageLoop for any number of messages, conversations and  *)
(* any capacity of the steering channels: the types, the inductive         *)
(* invariant IInv and its conjuncts.                                       *)
(***************************************************************************)
EXTENDS MessageLoop, TLAPS

Records == RecordKnowledge /\ NoStuckRunning /\ ReceiptIsHonest

\* Every action keeps the types.
LEMMA TypeStep ==
    ASSUME TypeOK, [Next]_vars
    PROVE  TypeOK'
<1>1. ASSUME NEW m \in Tasks, Steer(m) PROVE TypeOK'
  BY <1>1, LoopAssumption DEF Steer, Routed, TypeOK, Tables, TaskStatus,
     Terminal, Phase, Live, Over, loopVars
<1>2. ASSUME NEW m \in Tasks, RejectNewest(m) PROVE TypeOK'
  BY <1>2, LoopAssumption DEF RejectNewest, TypeOK, Tables, TaskStatus,
     Terminal, Phase, Live, Over, loopVars
<1>3. ASSUME NEW m \in Tasks, Spawn(m) PROVE TypeOK'
  BY <1>3, LoopAssumption DEF Spawn, create_and_start_task, remove_task,
     TypeOK, Tables, TaskStatus, Terminal, Phase, Live, Over, loopVars
<1>4. ASSUME NEW c \in Convs, CancelChat(c) PROVE TypeOK'
  BY <1>4, LoopAssumption DEF CancelChat, remove_task, TypeOK, Tables,
     TaskStatus, Terminal, Phase, Live, Over, loopVars
<1>5. ASSUME NEW t \in Tasks, SlashCancel(t) PROVE TypeOK'
  BY <1>5, LoopAssumption DEF SlashCancel, set_cancelled, Finish, TypeOK,
     Tables, TaskStatus, Terminal, Phase, Live, Over, loopVars
<1>6. ASSUME NEW t \in Tasks, HandleDirective(t) PROVE TypeOK'
  BY <1>6, LoopAssumption DEF HandleDirective, TypeOK, Tables, TaskStatus,
     Terminal, Phase, Live, Over, loopVars
<1>7. ASSUME NEW t \in Tasks, Construct(t) PROVE TypeOK'
  BY <1>7, LoopAssumption DEF Construct, Settle, TypeOK, Tables, TaskStatus,
     Terminal, Phase, Live, Over, loopVars
<1>8. ASSUME NEW t \in Tasks, DrainSteering(t) PROVE TypeOK'
  BY <1>8, LoopAssumption DEF DrainSteering, TypeOK, Tables, TaskStatus,
     Terminal, Phase, Live, Over, loopVars
<1>9. ASSUME NEW t \in Tasks, TurnEnds(t) PROVE TypeOK'
  BY <1>9, LoopAssumption DEF TurnEnds, TypeOK, Tables, TaskStatus, Terminal,
     Phase, Live, Over, loopVars
<1>10. ASSUME NEW t \in Tasks, RecordTurn(t) PROVE TypeOK'
  BY <1>10, LoopAssumption DEF RecordTurn, set_completed, set_failed, Finish,
     TypeOK, Tables, TaskStatus, Terminal, Phase, Live, Over, loopVars
<1>11. ASSUME NEW t \in Tasks, Return(t) PROVE TypeOK'
  BY <1>11, LoopAssumption DEF Return, Settle, Closing, TypeOK, Tables,
     TaskStatus, Terminal, Phase, Live, Over, loopVars
<1>12. ASSUME NEW t \in Tasks, DropWorker(t) PROVE TypeOK'
  BY <1>12, LoopAssumption DEF DropWorker, Closing, TypeOK, Tables,
     TaskStatus, Terminal, Phase, Live, Over, loopVars
<1>13. ASSUME NEW t \in Tasks, Panic(t) PROVE TypeOK'
  BY <1>13, LoopAssumption DEF Panic, Closing, TypeOK, Tables, TaskStatus,
     Terminal, Phase, Live, Over, loopVars
<1>14. ASSUME NEW t \in Tasks, Supervise(t) PROVE TypeOK'
  BY <1>14, LoopAssumption DEF Supervise, set_failed, Finish, Settle, TypeOK,
     Tables, TaskStatus, Terminal, Phase, Live, Over, loopVars
<1>15. CASE TaskDone
  BY <1>15, LoopAssumption DEF TaskDone, TypeOK, Tables, TaskStatus, Terminal,
     Phase, Live, Over, loopVars
<1>16. CASE CleanupOldTasks
  BY <1>16, LoopAssumption DEF CleanupOldTasks, cleanup_old_tasks, Finished,
     TypeOK, Tables, TaskStatus, Terminal, Phase, Live, Over, loopVars
<1>17. CASE Shutdown
  BY <1>17, LoopAssumption DEF Shutdown, TypeOK, Tables, TaskStatus, Terminal,
     Phase, Live, Over, loopVars
<1>18. CASE UNCHANGED vars
  BY <1>18 DEF vars, loopVars, TypeOK, Tables, TaskStatus, Terminal, Phase,
     Live, Over
<1>19. QED
  BY <1>1, <1>2, <1>3, <1>4, <1>5, <1>6, <1>7, <1>8, <1>9, <1>10, <1>11,
     <1>12, <1>13, <1>14, <1>15, <1>16, <1>17, <1>18 DEF Next, Worker

\* Every action keeps what the loop knows: a fresh message has left no trace, and a
\* task id stays filed under the conversation of its message.
LEMMA LoopStep ==
    ASSUME IInv, TypeOK', [Next]_vars
    PROVE  LoopKnowledge'
<1>1. ASSUME NEW m \in Tasks, Steer(m) PROVE LoopKnowledge'
  BY <1>1, LoopAssumption DEF Steer, Routed, IInv, TypeOK, LoopKnowledge,
     Tables, Live, Over, loopVars
<1>2. ASSUME NEW m \in Tasks, RejectNewest(m) PROVE LoopKnowledge'
  BY <1>2, LoopAssumption DEF RejectNewest, IInv, TypeOK, LoopKnowledge,
     Tables, Live, Over, loopVars
<1>3. ASSUME NEW m \in Tasks, Spawn(m) PROVE LoopKnowledge'
  BY <1>3, LoopAssumption DEF Spawn, create_and_start_task, remove_task, IInv,
     TypeOK, LoopKnowledge, Tables, Live, Over, loopVars
<1>4. ASSUME NEW c \in Convs, CancelChat(c) PROVE LoopKnowledge'
  BY <1>4, LoopAssumption DEF CancelChat, remove_task, IInv, TypeOK,
     LoopKnowledge, Tables, Live, Over, loopVars
<1>5. ASSUME NEW t \in Tasks, SlashCancel(t) PROVE LoopKnowledge'
  BY <1>5, LoopAssumption DEF SlashCancel, set_cancelled, Finish, IInv,
     TypeOK, LoopKnowledge, Tables, Live, Over, loopVars
<1>6. ASSUME NEW t \in Tasks, HandleDirective(t) PROVE LoopKnowledge'
  BY <1>6, LoopAssumption DEF HandleDirective, IInv, TypeOK, LoopKnowledge,
     Tables, Live, Over, loopVars
<1>7. ASSUME NEW t \in Tasks, Construct(t) PROVE LoopKnowledge'
  BY <1>7, LoopAssumption DEF Construct, Settle, IInv, TypeOK, LoopKnowledge,
     Tables, Live, Over, loopVars
<1>8. ASSUME NEW t \in Tasks, DrainSteering(t) PROVE LoopKnowledge'
  BY <1>8, LoopAssumption DEF DrainSteering, IInv, TypeOK, LoopKnowledge,
     Tables, Live, Over, loopVars
<1>9. ASSUME NEW t \in Tasks, TurnEnds(t) PROVE LoopKnowledge'
  BY <1>9, LoopAssumption DEF TurnEnds, IInv, TypeOK, LoopKnowledge, Tables,
     Live, Over, loopVars
<1>10. ASSUME NEW t \in Tasks, RecordTurn(t) PROVE LoopKnowledge'
  BY <1>10, LoopAssumption DEF RecordTurn, set_completed, set_failed, Finish,
     IInv, TypeOK, LoopKnowledge, Tables, Live, Over, loopVars
<1>11. ASSUME NEW t \in Tasks, Return(t) PROVE LoopKnowledge'
  BY <1>11, LoopAssumption DEF Return, Settle, Closing, IInv, TypeOK,
     LoopKnowledge, Tables, Live, Over, loopVars
<1>12. ASSUME NEW t \in Tasks, DropWorker(t) PROVE LoopKnowledge'
  BY <1>12, LoopAssumption DEF DropWorker, Closing, IInv, TypeOK,
     LoopKnowledge, Tables, Live, Over, loopVars
<1>13. ASSUME NEW t \in Tasks, Panic(t) PROVE LoopKnowledge'
  BY <1>13, LoopAssumption DEF Panic, Closing, IInv, TypeOK, LoopKnowledge,
     Tables, Live, Over, loopVars
<1>14. ASSUME NEW t \in Tasks, Supervise(t) PROVE LoopKnowledge'
  BY <1>14, LoopAssumption DEF Supervise, set_failed, Finish, Settle, IInv,
     TypeOK, LoopKnowledge, Tables, Live, Over, loopVars
<1>15. CASE TaskDone
  BY <1>15, LoopAssumption DEF TaskDone, IInv, TypeOK, LoopKnowledge, Tables,
     Live, Over, loopVars
<1>16. CASE CleanupOldTasks
  BY <1>16, LoopAssumption DEF CleanupOldTasks, cleanup_old_tasks, Finished,
     IInv, TypeOK, LoopKnowledge, Tables, Live, Over, loopVars
<1>17. CASE Shutdown
  BY <1>17, LoopAssumption DEF Shutdown, IInv, TypeOK, LoopKnowledge, Tables,
     Live, Over, loopVars
<1>18. CASE UNCHANGED vars
  BY <1>18 DEF vars, loopVars, IInv, TypeOK, LoopKnowledge, Tables, Live, Over
<1>19. QED
  BY <1>1, <1>2, <1>3, <1>4, <1>5, <1>6, <1>7, <1>8, <1>9, <1>10, <1>11,
     <1>12, <1>13, <1>14, <1>15, <1>16, <1>17, <1>18 DEF Next, Worker

\* Every action keeps running workers owned: what takes a task off the maps either
\* aborts its worker or comes after its end.
LEMMA OwnedStep ==
    ASSUME IInv, TypeOK', [Next]_vars
    PROVE  WorkersAreOwned'
<1>1. ASSUME NEW m \in Tasks, Steer(m) PROVE WorkersAreOwned'
  BY <1>1, LoopAssumption DEF Steer, Routed, IInv, TypeOK, LoopKnowledge,
     WorkersAreOwned, Live, Over, loopVars
<1>2. ASSUME NEW m \in Tasks, RejectNewest(m) PROVE WorkersAreOwned'
  BY <1>2, LoopAssumption DEF RejectNewest, IInv, TypeOK, LoopKnowledge,
     WorkersAreOwned, Live, Over, loopVars
<1>3. ASSUME NEW m \in Tasks, Spawn(m) PROVE WorkersAreOwned'
  BY <1>3, LoopAssumption DEF Spawn, create_and_start_task, remove_task, IInv,
     TypeOK, LoopKnowledge, WorkersAreOwned, Live, Over, loopVars
<1>4. ASSUME NEW c \in Convs, CancelChat(c) PROVE WorkersAreOwned'
  BY <1>4, LoopAssumption DEF CancelChat, remove_task, IInv, TypeOK,
     LoopKnowledge, WorkersAreOwned, Live, Over, loopVars
<1>5. ASSUME NEW t \in Tasks, SlashCancel(t) PROVE WorkersAreOwned'
  BY <1>5, LoopAssumption DEF SlashCancel, set_cancelled, Finish, IInv,
     TypeOK, LoopKnowledge, WorkersAreOwned, Live, Over, loopVars
<1>6. ASSUME NEW t \in Tasks, HandleDirective(t) PROVE WorkersAreOwned'
  BY <1>6, LoopAssumption DEF HandleDirective, IInv, TypeOK, LoopKnowledge,
     WorkersAreOwned, Live, Over, loopVars
<1>7. ASSUME NEW t \in Tasks, Construct(t) PROVE WorkersAreOwned'
  BY <1>7, LoopAssumption DEF Construct, Settle, IInv, TypeOK, LoopKnowledge,
     WorkersAreOwned, Live, Over, loopVars
<1>8. ASSUME NEW t \in Tasks, DrainSteering(t) PROVE WorkersAreOwned'
  BY <1>8, LoopAssumption DEF DrainSteering, IInv, TypeOK, LoopKnowledge,
     WorkersAreOwned, Live, Over, loopVars
<1>9. ASSUME NEW t \in Tasks, TurnEnds(t) PROVE WorkersAreOwned'
  BY <1>9, LoopAssumption DEF TurnEnds, IInv, TypeOK, LoopKnowledge,
     WorkersAreOwned, Live, Over, loopVars
<1>10. ASSUME NEW t \in Tasks, RecordTurn(t) PROVE WorkersAreOwned'
  BY <1>10, LoopAssumption DEF RecordTurn, set_completed, set_failed, Finish,
     IInv, TypeOK, LoopKnowledge, WorkersAreOwned, Live, Over, loopVars
<1>11. ASSUME NEW t \in Tasks, Return(t) PROVE WorkersAreOwned'
  BY <1>11, LoopAssumption DEF Return, Settle, Closing, IInv, TypeOK,
     LoopKnowledge, WorkersAreOwned, Live, Over, loopVars
<1>12. ASSUME NEW t \in Tasks, DropWorker(t) PROVE WorkersAreOwned'
  BY <1>12, LoopAssumption DEF DropWorker, Closing, IInv, TypeOK,
     LoopKnowledge, WorkersAreOwned, Live, Over, loopVars
<1>13. ASSUME NEW t \in Tasks, Panic(t) PROVE WorkersAreOwned'
  BY <1>13, LoopAssumption DEF Panic, Closing, IInv, TypeOK, LoopKnowledge,
     WorkersAreOwned, Live, Over, loopVars
<1>14. ASSUME NEW t \in Tasks, Supervise(t) PROVE WorkersAreOwned'
  BY <1>14, LoopAssumption DEF Supervise, set_failed, Finish, Settle, IInv,
     TypeOK, LoopKnowledge, WorkersAreOwned, Live, Over, loopVars
<1>15. CASE TaskDone
  BY <1>15, LoopAssumption DEF TaskDone, IInv, TypeOK, LoopKnowledge,
     WorkersAreOwned, Live, Over, loopVars
<1>16. CASE CleanupOldTasks
  BY <1>16, LoopAssumption DEF CleanupOldTasks, cleanup_old_tasks, Finished,
     IInv, TypeOK, LoopKnowledge, WorkersAreOwned, Live, Over, loopVars
<1>17. CASE Shutdown
  BY <1>17, LoopAssumption DEF Shutdown, IInv, TypeOK, LoopKnowledge,
     WorkersAreOwned, Live, Over, loopVars
<1>18. CASE UNCHANGED vars
  BY <1>18 DEF vars, loopVars, IInv, TypeOK, LoopKnowledge, WorkersAreOwned,
     Live, Over
<1>19. QED
  BY <1>1, <1>2, <1>3, <1>4, <1>5, <1>6, <1>7, <1>8, <1>9, <1>10, <1>11,
     <1>12, <1>13, <1>14, <1>15, <1>16, <1>17, <1>18 DEF Next, Worker

\* Every action keeps the senders of the loop, of the registry and of the active
\* tasks in step.
LEMMA SteeringStep ==
    ASSUME IInv, TypeOK', [Next]_vars
    PROVE  SteeringFollowsActive'
<1>1. ASSUME NEW m \in Tasks, Steer(m) PROVE SteeringFollowsActive'
  <2> DEFINE u == sender[ConvOf[m]]
  <2>0. u # NoTask /\ worker[u] \in Live
    BY <1>1 DEF Steer, Routed
  <2>1. u \in Tasks /\ worker[u] \in Live /\ ConvOf[u] = ConvOf[m]
    BY <2>0, LoopAssumption DEF IInv, TypeOK, LoopKnowledge, SteeringFollowsActive
  <2>2. /\ mailbox' = [mailbox EXCEPT ![u] = @ \cup {m}]
        /\ UNCHANGED <<active, sender, registry, worker>>
    BY <1>1 DEF Steer, loopVars
  <2>3. QED
    BY <2>1, <2>2 DEF IInv, TypeOK, SteeringFollowsActive
<1>2. ASSUME NEW m \in Tasks, RejectNewest(m) PROVE SteeringFollowsActive'
  BY <1>2, LoopAssumption DEF RejectNewest, IInv, TypeOK, LoopKnowledge,
     SteeringFollowsActive, Live, Over, loopVars
<1>3. ASSUME NEW m \in Tasks, Spawn(m) PROVE SteeringFollowsActive'
  BY <1>3, LoopAssumption DEF Spawn, create_and_start_task, remove_task, IInv,
     TypeOK, LoopKnowledge, SteeringFollowsActive, Live, Over, loopVars
<1>4. ASSUME NEW c \in Convs, CancelChat(c) PROVE SteeringFollowsActive'
  BY <1>4, LoopAssumption DEF CancelChat, remove_task, IInv, TypeOK,
     LoopKnowledge, SteeringFollowsActive, Live, Over, loopVars
<1>5. ASSUME NEW t \in Tasks, SlashCancel(t) PROVE SteeringFollowsActive'
  BY <1>5, LoopAssumption DEF SlashCancel, set_cancelled, Finish, IInv,
     TypeOK, LoopKnowledge, SteeringFollowsActive, Live, Over, loopVars
<1>6. ASSUME NEW t \in Tasks, HandleDirective(t) PROVE SteeringFollowsActive'
  BY <1>6, LoopAssumption DEF HandleDirective, IInv, TypeOK, LoopKnowledge,
     SteeringFollowsActive, Live, Over, loopVars
<1>7. ASSUME NEW t \in Tasks, Construct(t) PROVE SteeringFollowsActive'
  BY <1>7, LoopAssumption DEF Construct, Settle, IInv, TypeOK, LoopKnowledge,
     SteeringFollowsActive, Live, Over, loopVars
<1>8. ASSUME NEW t \in Tasks, DrainSteering(t) PROVE SteeringFollowsActive'
  BY <1>8, LoopAssumption DEF DrainSteering, IInv, TypeOK, LoopKnowledge,
     SteeringFollowsActive, Live, Over, loopVars
<1>9. ASSUME NEW t \in Tasks, TurnEnds(t) PROVE SteeringFollowsActive'
  BY <1>9, LoopAssumption DEF TurnEnds, IInv, TypeOK, LoopKnowledge,
     SteeringFollowsActive, Live, Over, loopVars
<1>10. ASSUME NEW t \in Tasks, RecordTurn(t) PROVE SteeringFollowsActive'
  BY <1>10, LoopAssumption DEF RecordTurn, set_completed, set_failed, Finish,
     IInv, TypeOK, LoopKnowledge, SteeringFollowsActive, Live, Over, loopVars
<1>11. ASSUME NEW t \in Tasks, Return(t) PROVE SteeringFollowsActive'
  BY <1>11, LoopAssumption DEF Return, Settle, Closing, IInv, TypeOK,
     LoopKnowledge, SteeringFollowsActive, Live, Over, loopVars
<1>12. ASSUME NEW t \in Tasks, DropWorker(t) PROVE SteeringFollowsActive'
  BY <1>12, LoopAssumption DEF DropWorker, Closing, IInv, TypeOK,
     LoopKnowledge, SteeringFollowsActive, Live, Over, loopVars
<1>13. ASSUME NEW t \in Tasks, Panic(t) PROVE SteeringFollowsActive'
  BY <1>13, LoopAssumption DEF Panic, Closing, IInv, TypeOK, LoopKnowledge,
     SteeringFollowsActive, Live, Over, loopVars
<1>14. ASSUME NEW t \in Tasks, Supervise(t) PROVE SteeringFollowsActive'
  BY <1>14, LoopAssumption DEF Supervise, set_failed, Finish, Settle, IInv,
     TypeOK, LoopKnowledge, SteeringFollowsActive, Live, Over, loopVars
<1>15. CASE TaskDone
  BY <1>15, LoopAssumption DEF TaskDone, IInv, TypeOK, LoopKnowledge,
     SteeringFollowsActive, Live, Over, loopVars
<1>16. CASE CleanupOldTasks
  BY <1>16, LoopAssumption DEF CleanupOldTasks, cleanup_old_tasks, Finished,
     IInv, TypeOK, LoopKnowledge, SteeringFollowsActive, Live, Over, loopVars
<1>17. CASE Shutdown
  BY <1>17, LoopAssumption DEF Shutdown, IInv, TypeOK, LoopKnowledge,
     SteeringFollowsActive, Live, Over, loopVars
<1>18. CASE UNCHANGED vars
  BY <1>18 DEF vars, loopVars, IInv, TypeOK, LoopKnowledge,
     SteeringFollowsActive, Live, Over
<1>19. QED
  BY <1>1, <1>2, <1>3, <1>4, <1>5, <1>6, <1>7, <1>8, <1>9, <1>10, <1>11,
     <1>12, <1>13, <1>14, <1>15, <1>16, <1>17, <1>18 DEF Next, Worker

\* Every action keeps what the table and the receipts say of the workers.
LEMMA RecordStep ==
    ASSUME IInv, TypeOK', [Next]_vars
    PROVE  Records'
<1>1. ASSUME NEW m \in Tasks, Steer(m) PROVE Records'
  BY <1>1, LoopAssumption DEF Steer, Routed, Records, IInv, TypeOK,
     LoopKnowledge, RecordKnowledge, NoStuckRunning, ReceiptIsHonest, Tables,
     TaskStatus, Terminal, Live, Over, is_terminal_status, loopVars
<1>2. ASSUME NEW m \in Tasks, RejectNewest(m) PROVE Records'
  BY <1>2, LoopAssumption DEF RejectNewest, Records, IInv, TypeOK,
     LoopKnowledge, RecordKnowledge, NoStuckRunning, ReceiptIsHonest, Tables,
     TaskStatus, Terminal, Live, Over, is_terminal_status, loopVars
<1>3. ASSUME NEW m \in Tasks, Spawn(m) PROVE Records'
  BY <1>3, LoopAssumption DEF Spawn, create_and_start_task, remove_task,
     Records, IInv, TypeOK, LoopKnowledge, RecordKnowledge, NoStuckRunning,
     ReceiptIsHonest, Tables, TaskStatus, Terminal, Live, Over,
     is_terminal_status, loopVars
<1>4. ASSUME NEW c \in Convs, CancelChat(c) PROVE Records'
  BY <1>4, LoopAssumption DEF CancelChat, remove_task, Records, IInv, TypeOK,
     LoopKnowledge, RecordKnowledge, NoStuckRunning, ReceiptIsHonest, Tables,
     TaskStatus, Terminal, Live, Over, is_terminal_status, loopVars
<1>5. ASSUME NEW t \in Tasks, SlashCancel(t) PROVE Records'
  BY <1>5, LoopAssumption DEF SlashCancel, set_cancelled, Finish, Records,
     IInv, TypeOK, LoopKnowledge, RecordKnowledge, NoStuckRunning,
     ReceiptIsHonest, Tables, TaskStatus, Terminal, Live, Over,
     is_terminal_status, loopVars
<1>6. ASSUME NEW t \in Tasks, HandleDirective(t) PROVE Records'
  BY <1>6, LoopAssumption DEF HandleDirective, Records, IInv, TypeOK,
     LoopKnowledge, RecordKnowledge, NoStuckRunning, ReceiptIsHonest, Tables,
     TaskStatus, Terminal, Live, Over, is_terminal_status, loopVars
<1>7. ASSUME NEW t \in Tasks, Construct(t) PROVE Records'
  BY <1>7, LoopAssumption DEF Construct, Settle, Records, IInv, TypeOK,
     LoopKnowledge, RecordKnowledge, NoStuckRunning, ReceiptIsHonest, Tables,
     TaskStatus, Terminal, Live, Over, is_terminal_status, loopVars
<1>8. ASSUME NEW t \in Tasks, DrainSteering(t) PROVE Records'
  BY <1>8, LoopAssumption DEF DrainSteering, Records, IInv, TypeOK,
     LoopKnowledge, RecordKnowledge, NoStuckRunning, ReceiptIsHonest, Tables,
     TaskStatus, Terminal, Live, Over, is_terminal_status, loopVars
<1>9. ASSUME NEW t \in Tasks, TurnEnds(t) PROVE Records'
  BY <1>9, LoopAssumption DEF TurnEnds, Records, IInv, TypeOK, LoopKnowledge,
     RecordKnowledge, NoStuckRunning, ReceiptIsHonest, Tables, TaskStatus,
     Terminal, Live, Over, is_terminal_status, loopVars
<1>10. ASSUME NEW t \in Tasks, RecordTurn(t) PROVE Records'
  <2>1. UNCHANGED <<directives, aborted, receipt>>
    BY <1>10 DEF RecordTurn
  <2>2. CASE worker[t] = "answered"
    <3>1. tasks'[t] \notin {"Running", "Failed"} /\ worker'[t] = "completed"
      BY <1>10, <2>2 DEF RecordTurn, set_completed, Finish, IInv, TypeOK, Tables,
         RecordKnowledge
    <3>2. \A u \in Tasks \ {t} : tasks'[u] = tasks[u] /\ worker'[u] = worker[u]
      BY <1>10, <2>2 DEF RecordTurn, set_completed, Finish, IInv, TypeOK, Tables
    <3>3. receipt[t] # "ok"
      BY <2>2 DEF IInv, ReceiptIsHonest
    <3>4. QED
      BY <2>1, <2>2, <3>1, <3>2, <3>3 DEF IInv, Records, RecordKnowledge,
         NoStuckRunning, ReceiptIsHonest
  <2>3. CASE worker[t] \in {"failed", "unbuilt"}
    <3>1. tasks'[t] # "Running" /\ worker'[t] = "reported"
      BY <1>10, <2>3 DEF RecordTurn, set_failed, Finish, IInv, TypeOK, Tables
    <3>2. \A u \in Tasks \ {t} : tasks'[u] = tasks[u] /\ worker'[u] = worker[u]
      BY <1>10, <2>3 DEF RecordTurn, set_failed, Finish, IInv, TypeOK, Tables
    <3>3. receipt[t] # "ok"
      BY <2>3 DEF IInv, ReceiptIsHonest
    <3>4. QED
      BY <2>1, <2>3, <3>1, <3>2, <3>3 DEF IInv, Records, RecordKnowledge,
         NoStuckRunning, ReceiptIsHonest
  <2>4. QED
    BY <1>10, <2>2, <2>3 DEF RecordTurn
<1>11. ASSUME NEW t \in Tasks, Return(t) PROVE Records'
  BY <1>11, LoopAssumption DEF Return, Settle, Closing, Records, IInv, TypeOK,
     LoopKnowledge, RecordKnowledge, NoStuckRunning, ReceiptIsHonest, Tables,
     TaskStatus, Terminal, Live, Over, is_terminal_status, loopVars
<1>12. ASSUME NEW t \in Tasks, DropWorker(t) PROVE Records'
  BY <1>12, LoopAssumption DEF DropWorker, Closing, Records, IInv, TypeOK,
     LoopKnowledge, RecordKnowledge, NoStuckRunning, ReceiptIsHonest, Tables,
     TaskStatus, Terminal, Live, Over, is_terminal_status, loopVars
<1>13. ASSUME NEW t \in Tasks, Panic(t) PROVE Records'
  BY <1>13, LoopAssumption DEF Panic, Closing, Records, IInv, TypeOK,
     LoopKnowledge, RecordKnowledge, NoStuckRunning, ReceiptIsHonest, Tables,
     TaskStatus, Terminal, Live, Over, is_terminal_status, loopVars
<1>14. ASSUME NEW t \in Tasks, Supervise(t) PROVE Records'
  BY <1>14, LoopAssumption DEF Supervise, set_failed, Finish, Settle, Records,
     IInv, TypeOK, LoopKnowledge, RecordKnowledge, NoStuckRunning,
     ReceiptIsHonest, Tables, TaskStatus, Terminal, Live, Over,
     is_terminal_status, loopVars
<1>15. CASE TaskDone
  BY <1>15, LoopAssumption DEF TaskDone, Records, IInv, TypeOK, LoopKnowledge,
     RecordKnowledge, NoStuckRunning, ReceiptIsHonest, Tables, TaskStatus,
     Terminal, Live, Over, is_terminal_status, loopVars
<1>16. CASE CleanupOldTasks
  BY <1>16, LoopAssumption DEF CleanupOldTasks, cleanup_old_tasks, Finished,
     Records, IInv, TypeOK, LoopKnowledge, RecordKnowledge, NoStuckRunning,
     ReceiptIsHonest, Tables, TaskStatus, Terminal, Live, Over,
     is_terminal_status, loopVars
<1>17. CASE Shutdown
  BY <1>17, LoopAssumption DEF Shutdown, Records, IInv, TypeOK, LoopKnowledge,
     RecordKnowledge, NoStuckRunning, ReceiptIsHonest, Tables, TaskStatus,
     Terminal, Live, Over, is_terminal_status, loopVars
<1>18. CASE UNCHANGED vars
  BY <1>18 DEF vars, loopVars, Records, IInv, TypeOK, LoopKnowledge,
     RecordKnowledge, NoStuckRunning, ReceiptIsHonest, Tables, TaskStatus,
     Terminal, Live, Over, is_terminal_status
<1>19. QED
  BY <1>1, <1>2, <1>3, <1>4, <1>5, <1>6, <1>7, <1>8, <1>9, <1>10, <1>11,
     <1>12, <1>13, <1>14, <1>15, <1>16, <1>17, <1>18 DEF Next, Worker

\* The invariant holds in every reachable state.
THEOREM Invariance == Spec => []IInv
<1>1. Init => IInv
  BY LoopAssumption DEF Init, IInv, TypeOK, LoopKnowledge, WorkersAreOwned,
     SteeringFollowsActive, RecordKnowledge, NoStuckRunning, ReceiptIsHonest,
     Tables, TaskStatus, Terminal, NoRecords, Phase, Live, Over
<1>2. IInv /\ [Next]_vars => IInv'
  <2> SUFFICES ASSUME IInv, [Next]_vars PROVE IInv'
    OBVIOUS
  <2>1. TypeOK'
    BY TypeStep DEF IInv
  <2>2. QED
    BY <2>1, LoopStep, OwnedStep, SteeringStep, RecordStep DEF IInv, Records
<1>3. QED
  BY <1>1, <1>2, PTL DEF Spec

\* The types hold in every reachable state: no message task is ever Queued.
THEOREM TypeCorrect == Spec => []TypeOK
  BY Invariance, PTL DEF IInv

\* A conversation never has two workers that nobody told to stop, and the loop can
\* stop every one that runs.
THEOREM WorkersAreOwnedHolds == Spec => []WorkersAreOwned
  BY Invariance, PTL DEF IInv

\* Steering reaches the active task of the conversation only.
THEOREM SteeringHolds == Spec => []SteeringFollowsActive
  BY Invariance, PTL DEF IInv

\* No worker ends, in whatever way, leaving a Running record behind.
THEOREM NoStuckRunningHolds == Spec => []NoStuckRunning
  BY Invariance, PTL DEF IInv

\* An Ok receipt is never given for a task that failed or did not end.
THEOREM ReceiptIsHonestHolds == Spec => []ReceiptIsHonest
  BY Invariance, PTL DEF IInv
=============================================================================
