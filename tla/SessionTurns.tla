---------------------------- MODULE SessionTurns ----------------------------
(***************************************************************************)
(* What one message does to its session: process_message_inner of          *)
(* crates/agent/src/runtime/process_message_inner.rs with turn_flow.rs,    *)
(* message_dispatch.rs and compaction.rs, the session file, the task's     *)
(* checkpoint and the results of background agents.                        *)
(*                                                                         *)
(* A turn loads the session file, works on two private lists - history,    *)
(* which it will write back, and current_messages, which the LLM sees -    *)
(* and replaces the whole file at the end.  Whatever else writes the file  *)
(* meanwhile is overwritten, so the properties are about who may run       *)
(* beside whom, and about what the lists look like when they are saved.    *)
(*                                                                         *)
(* A message keeps its role, its origins (the turns, steering messages and *)
(* background agents it stands for; a summary stands for several) and its  *)
(* tool calls.  A call is named by its tool, and no answer calls one tool  *)
(* twice.  An abort takes effect at an await, so it never splits an action.*)
(***************************************************************************)
EXTENDS Naturals, Sequences, FiniteSets, SequencesExt

CONSTANTS
    Turns, Steers, Agents,
    Tools,         \* 1 .. n, in the order an answer lists them
    Chats,
    HomeOf,        \* the conversation a turn was sent in; the loop runs one at a time
    SessionOf,     \* the session it loads and saves: another chat's for a delivered cron job
    KeepRecent,    \* layer4.keep_recent_messages; 2 by default
    MaxIter,       \* max_tool_iterations, per tool
    MaxFiles,      \* bound: /clear, /compact and resume act this often in all
    Quirks         \* "hint": tools may fail for good;  "extra": activate_skill comes
                   \* with other calls

ASSUME TurnAssumption ==
    /\ Tools \subseteq Nat /\ IsFiniteSet(Tools) /\ Tools # {}
    /\ HomeOf \in [Turns -> Chats] /\ SessionOf \in [Turns -> Chats]
    /\ KeepRecent \in Nat /\ MaxIter \in Nat \ {0} /\ MaxFiles \in Nat
    /\ Quirks \subseteq {"hint", "extra"}

VARIABLES
    stored,        \* the session files
    ckpt,          \* the checkpoint of each turn's task
    turn,          \* the turn's own memory
    inbox,         \* the steering messages waiting in a turn's channel
    sent,          \* steering messages the user has sent
    agent,         \* background agents: status, where they belong, result_injected
    settled,       \* history: what the session was told is answered
    shown,         \* history: results that were in a list the LLM answered
    acts           \* how often the user used /clear, /compact or resume

vars == <<stored, ckpt, turn, inbox, sent, agent, settled, shown, acts>>

-----------------------------------------------------------------------------
(* Message lists *)

Message(role, origins, calls) == [role |-> role, of |-> origins, calls |-> calls]
User(x) == Message("user", {x}, {})
Assistant(t) == Message("assistant", {t}, {})
ToolCalls(t, cs) == Message("assistant", {t}, cs)
ToolResult(t, c) == Message("tool", {t}, {c})
Hint == Message("user", {}, {})
RuntimeContext == Message("context", {}, {})
Origins(ms) == UNION {ms[i].of : i \in DOMAIN ms}

\* The first message from i on that is not a tool result, or the end.
SkipTools(ms, i) ==
    CHOOSE j \in i .. Len(ms) + 1 :
        /\ j = Len(ms) + 1 \/ ms[j].role # "tool"
        /\ \A k \in i .. j - 1 : ms[k].role = "tool"

\* Message i is not an assistant message with a call whose result is missing
\* from the tool messages directly after it.
Answered(ms, i) ==
    ms[i].role = "assistant" =>
        ms[i].calls \subseteq UNION {ms[k].calls : k \in i + 1 .. SkipTools(ms, i + 1) - 1}

\* What a provider accepts: every call answered, every result called for.
Paired(ms) ==
    \A i \in DOMAIN ms :
        /\ Answered(ms, i)
        /\ ms[i].role = "tool" =>
              \E j \in 1 .. i - 1 : /\ ms[i].calls \subseteq ms[j].calls
                                    /\ ms[j].role = "assistant"
                                    /\ SkipTools(ms, j + 1) > i

\* find_safe_history_start
SafeStart(ms) ==
    CHOOSE i \in 1 .. Len(ms) + 1 :
        /\ i = Len(ms) + 1 \/ (ms[i].role # "tool" /\ Answered(ms, i))
        /\ \A k \in 1 .. i - 1 : ms[k].role = "tool" \/ ~Answered(ms, k)

\* Mutant of select_recent_messages: the suffix starts where the count says.
select_recent_messages_ByCount(ms) ==
    SubSeq(ms, (IF Len(ms) > KeepRecent THEN Len(ms) - KeepRecent ELSE 0) + 1, Len(ms))

select_recent_messages(ms) ==
    LET n == Len(ms)
        counted == IF n > KeepRecent THEN n - KeepRecent + 1 ELSE 1
        group == CHOOSE i \in 1 .. counted :
                    /\ i = 1 \/ ms[i].role # "tool"
                    /\ \A k \in i + 1 .. counted : ms[k].role = "tool"
        whole == IF Answered(ms, group) THEN group ELSE SkipTools(ms, group + 1)
    IN  IF KeepRecent = 0 \/ n = 0 THEN <<>> ELSE SubSeq(ms, SkipTools(ms, whole), n)

\* A summary that stands for everything it was made from, a request to go on,
\* and the recent messages.
Compacted(ms) ==
    <<Message("system", Origins(ms), {}), Hint>> \o select_recent_messages(ms)

-----------------------------------------------------------------------------
(* Turns *)

Idle == [pc |-> "idle", hist |-> <<>>, cur |-> <<>>, full |-> {}, count |-> [c \in Tools |-> 0],
         prompted |-> {}, heard |-> {}, awaited |-> {}, failed |-> FALSE, resumes |-> {}]

Running(t) == turn[t].pc \in {"start", "loop", "wait", "await", "save", "told", "compact"}

\* No checkpoint, or one that is completed and not offered any more.
NoCheckpoint == [msgs |-> <<>>, completed |-> TRUE]

Init ==
    /\ stored = [c \in Chats |-> <<>>]
    /\ ckpt = [t \in Turns |-> NoCheckpoint]
    /\ turn = [t \in Turns |-> Idle]
    /\ inbox = [t \in Turns |-> <<>>]
    /\ sent = {}
    /\ agent = [a \in Agents |-> [status |-> "none", home |-> "none", injected |-> FALSE,
                              delivered |-> FALSE]]
    /\ settled = [c \in Chats |-> {}]
    /\ shown = {}
    /\ acts = 0

\* A turn that is over, answered or not, forgets its lists.
Ended == [Idle EXCEPT !.pc = "over"]
works(t, new) == turn' = [turn EXCEPT ![t] = new]

Waiting(a) == agent[a].status = "completed" /\ ~agent[a].injected

\* The loop accepts a message: what runs in the conversation is aborted.  The
\* session is loaded, the prompt built with the results nobody has seen yet,
\* from whichever chat they come, and the first checkpoint written.
Begin(t, resumed, file) ==
    LET s == SessionOf[t]
        hist == Append(file, User(t))
        cur == <<Message("system", {}, {})>> \o SubSeq(file, SafeStart(file), Len(file))
                 \o <<RuntimeContext, User(t)>>
        prompted == {a \in Agents : Waiting(a)}
        replaced == {u \in Turns \ {t} : Running(u) /\ HomeOf[u] = HomeOf[t]}
    IN
    /\ turn' = [u \in Turns |->
          IF u = t THEN [Idle EXCEPT !.pc = "start", !.hist = hist, !.cur = cur,
                                     !.prompted = prompted, !.resumes = resumed]
          ELSE IF u \in replaced THEN Ended ELSE turn[u]]
    /\ inbox' = [u \in Turns |-> IF u \in replaced THEN <<>> ELSE inbox[u]]
    /\ ckpt' = [ckpt EXCEPT ![t] = [msgs |-> hist, completed |-> FALSE]]

Start(t) ==
    /\ turn[t].pc = "idle"
    /\ Begin(t, {}, stored[SessionOf[t]])
    /\ UNCHANGED <<stored, sent, agent, settled, shown, acts>>

\* /tasks resume: the checkpoint replaces the whole session, whatever was
\* answered since, and the task goes on as a new message.
Resume(t, old) ==
    LET s == SessionOf[old]
    IN
    /\ turn[t].pc = "idle" /\ HomeOf[t] = HomeOf[old] /\ SessionOf[t] = HomeOf[t]
    /\ ~ckpt[old].completed /\ s = HomeOf[old]
    /\ acts < MaxFiles /\ acts' = acts + 1
    /\ stored' = [stored EXCEPT ![s] = ckpt[old].msgs]
    /\ settled' = [settled EXCEPT ![s] = @ \cap Origins(ckpt[old].msgs)]
    /\ Begin(t, {old}, ckpt[old].msgs)
    /\ UNCHANGED <<sent, agent, shown>>

\* Mutant of CompactInLoop: with the messages the calls made are forgotten.
CompactInLoop_Recounts(t, new) ==
    LET ms == Compacted(new.cur)
    IN  /\ works(t, [new EXCEPT !.cur = ms, !.hist = ms, !.pc = "loop",
                                !.count = [c \in Tools |-> 0]])
        /\ stored' = [stored EXCEPT ![SessionOf[t]] = ms]

\* apply_layer4_compact_in_loop: both lists and the file are replaced.
CompactInLoop(t, new) ==
    LET ms == Compacted(new.cur)
    IN  /\ works(t, [new EXCEPT !.cur = ms, !.hist = ms, !.pc = "loop"])
        /\ stored' = [stored EXCEPT ![SessionOf[t]] = ms]

PreLoop(t) ==
    /\ turn[t].pc = "start"
    /\ \/ CompactInLoop(t, turn[t])
       \/ works(t, [turn[t] EXCEPT !.pc = "loop"]) /\ UNCHANGED stored
    /\ UNCHANGED <<ckpt, inbox, sent, agent, settled, shown, acts>>

\* The user writes while the conversation is busy.
Steer(t, m) ==
    /\ m \notin sent /\ Running(t)
    /\ sent' = sent \cup {m}
    /\ inbox' = [inbox EXCEPT ![t] = Append(@, m)]
    /\ UNCHANGED <<stored, ckpt, turn, agent, settled, shown, acts>>

\* Mutant of Drained: the messages reach the LLM but not the history.
Drained_Unsaved(t) ==
    LET new == [i \in DOMAIN inbox[t] |-> User(inbox[t][i])]
    IN  [turn[t] EXCEPT !.cur = @ \o new, !.heard = @ \cup Range(inbox[t])]

Drained(t) ==
    LET new == [i \in DOMAIN inbox[t] |-> User(inbox[t][i])]
    IN  [turn[t] EXCEPT !.cur = @ \o new, !.hist = @ \o new, !.heard = @ \cup Range(inbox[t])]

Prompted(ms, t) == {a \in turn[t].prompted : \E i \in DOMAIN ms : ms[i].role = "context"}

\* One call of the LLM in the loop, up to its answer.
Called(t) ==
    /\ turn[t].pc = "loop"
    /\ inbox' = [inbox EXCEPT ![t] = <<>>]

Succeeds(t) == shown' = shown \cup Prompted(Drained(t).cur, t)

LlmFails(t) ==
    LET new == Drained(t)
    IN
    /\ Called(t)
    /\ works(t, [new EXCEPT !.hist = Append(@, Assistant(t)), !.failed = TRUE, !.pc = "wait"])
    /\ UNCHANGED <<stored, ckpt, sent, agent, settled, shown, acts>>

\* A final answer, or the message that the budget is exhausted.
FinalAnswer(t) ==
    LET new == Drained(t)
    IN
    /\ Called(t) /\ Succeeds(t)
    /\ works(t, [new EXCEPT !.hist = Append(@, Assistant(t)), !.pc = "wait"])
    /\ UNCHANGED <<stored, ckpt, sent, agent, settled, acts>>

\* activate_skill: the skill's own trace and answer end the turn.  An error
\* returns before anything is saved.
ActivateSkill(t) ==
    /\ Called(t) /\ Succeeds(t)
    /\ \E c \in Tools, extra \in SUBSET Tools :
        LET new == Drained(t)
            trace == <<ToolResult(t, c), ToolCalls(t, {c}), ToolResult(t, c), Assistant(t)>>
        IN
        /\ extra # {} => "extra" \in Quirks
        /\ \/ works(t, [new EXCEPT !.hist = @ \o <<ToolCalls(t, {c} \cup extra)>> \o trace,
                                   !.pc = "wait"])
           \/ works(t, Ended)
    /\ UNCHANGED <<stored, ckpt, sent, agent, settled, acts>>

Outcomes == {"ok", "hint", "missing", "denied"}

\* The calls of an answer in the order it lists them: by their rank, of which
\* proofs can say more than of a sort.
InOrder(cs) ==
    [i \in 1 .. Cardinality(cs) |-> CHOOSE c \in cs : Cardinality({d \in cs : d < c}) = i - 1]

CountedUp(count, out) ==
    [c \in Tools |-> IF c \in DOMAIN out /\ count[c] <= MaxIter THEN count[c] + 1 ELSE count[c]]

\* The tools an answer asks for, run one after the other.  `missing': the
\* model had only the tool's name, so its schema is added and the answer is
\* taken back.  `hint': the tool failed for good and a hint for the LLM is
\* pushed at once, before the results are.
ToolRound(t) ==
    /\ Called(t) /\ Succeeds(t)
    /\ \E cs \in (SUBSET Tools) \ {{}} : \E out \in [cs -> Outcomes] :
        LET new == Drained(t)
            asked == Append(new.cur, ToolCalls(t, cs))
            order == InOrder(cs)
            results == [i \in DOMAIN order |-> ToolResult(t, order[i])]
            hints == [i \in 1 .. Cardinality({c \in cs : out[c] = "hint"}) |-> Hint]
            count == CountedUp(new.count, out)
            rollback == \E c \in cs : out[c] = "missing"
            committed == [new EXCEPT !.count = count,
                             !.cur = asked \o hints \o results,
                             !.hist = Append(@, ToolCalls(t, cs)) \o results]
            over == \E c \in Tools : count[c] > MaxIter
        IN
        /\ \A c \in cs :
              /\ out[c] = "denied" <=> new.count[c] >= MaxIter
              /\ out[c] = "missing" =>
                    c \notin new.full /\ \A d \in cs : d > c => out[d] = "ok"
              /\ out[c] = "hint" => "hint" \in Quirks
        /\ Cardinality({c \in cs : out[c] = "missing"}) <= 1
        /\ IF rollback
           THEN \* the calls behind the missing one never ran
                LET m == CHOOSE c \in cs : out[c] = "missing"
                    ran == [c \in {d \in cs : d <= m} |-> out[c]]
                IN  /\ works(t, [new EXCEPT !.count = CountedUp(new.count, ran),
                                    !.full = @ \cup {m},
                                    !.cur = Front(asked \o hints)])
                    /\ UNCHANGED <<stored, ckpt>>
           ELSE /\ ckpt' = [ckpt EXCEPT ![t] = [msgs |-> committed.hist, completed |-> FALSE]]
                /\ \/ /\ \E c \in cs : out[c] # "denied"
                      /\ CompactInLoop(t, committed)
                   \/ /\ ~over
                      /\ works(t, [committed EXCEPT !.pc = "loop"]) /\ UNCHANGED stored
                   \/ \* a last answer without tools: a limit was hit or a call failed
                      \* three times with the same arguments
                      /\ works(t, [committed EXCEPT !.hist = Append(@, Assistant(t)), !.pc = "wait"])
                      /\ UNCHANGED stored
                   \/ \* only messages to this very chat were sent: nothing to add
                      /\ ~over
                      /\ works(t, [committed EXCEPT !.pc = "wait"]) /\ UNCHANGED stored
        /\ \/ UNCHANGED agent
           \/ \E a \in Agents :   \* the agent tool: a background agent of this chat
                /\ agent[a].status = "none" /\ \E c \in cs : out[c] = "ok"
                /\ ~rollback
                /\ agent' = [agent EXCEPT ![a].status = "running", ![a].home = HomeOf[t]]
    /\ UNCHANGED <<sent, settled, acts>>
-----------------------------------------------------------------------------
(* After the loop *)

\* Agents of this chat that still run are waited for, 300 s at most.
WaitForAgents(t) ==
    LET mine == {a \in Agents : agent[a].status = "running" /\ agent[a].home = HomeOf[t]}
    IN
    /\ turn[t].pc = "wait"
    /\ works(t, [turn[t] EXCEPT !.awaited = mine, !.pc = IF mine = {} THEN "save" ELSE "await"])
    /\ UNCHANGED <<stored, ckpt, inbox, sent, agent, settled, shown, acts>>

\* Their results go into one more call; a failed call leaves them for later.
Summarize(t) ==
    LET mine == {a \in Agents : Waiting(a) /\ agent[a].home = HomeOf[t]}
        new == [turn[t] EXCEPT !.awaited = {}, !.pc = "save"]
    IN
    /\ turn[t].pc = "await"
    /\ \/ /\ mine # {}
          /\ works(t, [new EXCEPT !.hist = Append(@, Assistant(t))])
          /\ agent' = [a \in Agents |-> [agent[a] EXCEPT !.injected = @ \/ a \in mine]]
          /\ shown' = shown \cup mine
       \/ works(t, new) /\ UNCHANGED <<agent, shown>>
    /\ UNCHANGED <<stored, ckpt, inbox, sent, settled, acts>>

\* The history, compacted first if it has grown too long, replaces the file.
Save(t) ==
    /\ turn[t].pc = "save"
    /\ \/ \E hist \in {turn[t].hist, Compacted(turn[t].hist)} :
            /\ stored' = [stored EXCEPT ![SessionOf[t]] = hist]
            /\ settled' = [settled EXCEPT ![SessionOf[t]] = @ \cup {t} \cup turn[t].heard]
            /\ works(t, [turn[t] EXCEPT !.hist = <<>>, !.cur = <<>>, !.heard = {}, !.pc = "told"])
       \/ works(t, Ended) /\ UNCHANGED <<stored, settled>>   \* the write failed
    /\ UNCHANGED <<ckpt, inbox, sent, agent, shown, acts>>

\* Results the turn's prompt carried, unless the LLM failed in the end.
Injects(t) == IF turn[t].failed THEN {} ELSE turn[t].prompted

\* The answer is delivered, the checkpoints of this task and of the one it
\* resumes are closed, and what is still in the steering channel is dropped.
Finish(t) ==
    /\ turn[t].pc = "told"
    /\ agent' = [a \in Agents |-> [agent[a] EXCEPT !.injected = @ \/ a \in Injects(t)]]
    /\ ckpt' = [u \in Turns |-> IF u \in {t} \cup turn[t].resumes THEN NoCheckpoint ELSE ckpt[u]]
    /\ inbox' = [inbox EXCEPT ![t] = <<>>]
    /\ works(t, Ended)
    /\ UNCHANGED <<stored, sent, settled, shown, acts>>

-----------------------------------------------------------------------------
(* Others who touch the session *)

\* /compact is a message of its own and takes the conversation's place.
BeginCompact(t) ==
    LET file == stored[SessionOf[t]]
        replaced == {u \in Turns \ {t} : Running(u) /\ HomeOf[u] = HomeOf[t]}
    IN
    /\ turn[t].pc = "idle" /\ HomeOf[t] = SessionOf[t]
    /\ acts < MaxFiles /\ acts' = acts + 1
    /\ turn' = [u \in Turns |->
          IF u = t THEN [Idle EXCEPT !.pc = "compact", !.hist = file]
          ELSE IF u \in replaced THEN Ended ELSE turn[u]]
    /\ inbox' = [u \in Turns |-> IF u \in replaced THEN <<>> ELSE inbox[u]]
    /\ UNCHANGED <<stored, ckpt, sent, agent, settled, shown>>

EndCompact(t) ==
    /\ turn[t].pc = "compact"
    /\ \/ stored' = [stored EXCEPT ![SessionOf[t]] = Compacted(turn[t].hist)]
       \/ UNCHANGED stored
    /\ works(t, Ended)
    /\ inbox' = [inbox EXCEPT ![t] = <<>>]
    /\ UNCHANGED <<ckpt, sent, agent, settled, shown, acts>>

\* /clear is answered at once; a turn that runs keeps what it has loaded.
Clear(c) ==
    /\ acts < MaxFiles /\ acts' = acts + 1
    /\ stored[c] # <<>>
    /\ stored' = [stored EXCEPT ![c] = <<>>]
    /\ settled' = [settled EXCEPT ![c] = {}]
    /\ UNCHANGED <<ckpt, turn, inbox, sent, agent, shown>>

\* /tasks cancel, and everything else that stops a worker at an await.
Abort(t) ==
    /\ Running(t)
    /\ works(t, Ended)
    /\ inbox' = [inbox EXCEPT ![t] = <<>>]
    /\ UNCHANGED <<stored, ckpt, sent, agent, settled, shown, acts>>

AgentEnds(a) ==
    /\ agent[a].status = "running"
    /\ \E s \in {"completed", "failed"} : agent' = [agent EXCEPT ![a].status = s]
    /\ UNCHANGED <<stored, ckpt, turn, inbox, sent, settled, shown, acts>>

\* deliver_subagent_result_to_origin appends the result to the file.
AgentDelivers(a) ==
    LET c == agent[a].home
    IN
    /\ agent[a].status \in {"completed", "failed"} /\ ~agent[a].delivered
    /\ agent' = [agent EXCEPT ![a].delivered = TRUE]
    /\ stored' = [stored EXCEPT ![c] = Append(@, Assistant(a))]
    /\ settled' = [settled EXCEPT ![c] = @ \cup {a}]
    /\ UNCHANGED <<ckpt, turn, inbox, sent, shown, acts>>

TurnStep(t) ==
    \/ PreLoop(t) \/ LlmFails(t) \/ FinalAnswer(t) \/ ActivateSkill(t) \/ ToolRound(t)
    \/ WaitForAgents(t) \/ Summarize(t) \/ Save(t) \/ Finish(t) \/ EndCompact(t)

Next ==
    \/ \E t \in Turns : Start(t) \/ BeginCompact(t) \/ Abort(t) \/ TurnStep(t)
    \/ \E t, old \in Turns : Resume(t, old)
    \/ \E t \in Turns, m \in Steers : Steer(t, m)
    \/ \E c \in Chats : Clear(c)
    \/ \E a \in Agents : AgentEnds(a) \/ AgentDelivers(a)

Spec == Init /\ [][Next]_vars

\* A worker is polled: its provider and its tools answer or time out.
FairSpec == Spec /\ \A t \in Turns : WF_vars(TurnStep(t))

-----------------------------------------------------------------------------
(* Properties *)

\* What is saved, in the session file or in a checkpoint, can be sent to a
\* provider again: every tool call is followed by all its results and no
\* result is without its call, through compaction, schema supplements,
\* failures, aborts and resumes.
StoredPaired ==
    /\ \A c \in Chats : Paired(stored[c])
    /\ \A t \in Turns : Paired(ckpt[t].msgs)

\* An exchange that was saved, with the steering messages the LLM was given
\* in it, stays in the session file or in its summary until the user
\* clears the session or resumes an older task.
SettledIsStored ==
    \A c \in Chats : settled[c] \ Agents \subseteq Origins(stored[c])

\* The result of a background agent that was appended to the session stays
\* there as well.
DeliveredIsStored ==
    \A c \in Chats : settled[c] \cap Agents \subseteq Origins(stored[c])

\* A result counts as injected only if a list that carried it was answered:
\* a failed call, an abort or a compaction in between leaves it for the next
\* turn.
InjectedWasShown == \A a \in Agents : agent[a].injected => a \in shown

\* What the LLM is sent is paired as well.
PromptPaired == \A t \in Turns : Paired(turn[t].cur)

\* Every turn comes to an end, however often the LLM asks for tools: the
\* limits per tool, the schemas that can be added and the wait for agents
\* bound it although a compaction skips the check of the limit.
TurnEnds == \A t \in Turns : []<>(~Running(t))

-----------------------------------------------------------------------------
(* Types, and the inductive invariant behind the first two properties *)

Messages == [role  : {"user", "assistant", "tool", "system", "context"},
             of    : SUBSET (Turns \cup Steers \cup Agents),
             calls : SUBSET Tools]

TurnRecord ==
    [pc : {"idle", "start", "loop", "wait", "await", "save", "told", "compact", "over"},
     hist : Seq(Messages), cur : Seq(Messages), full : SUBSET Tools,
     count : [Tools -> 0 .. MaxIter + 1], prompted : SUBSET Agents, heard : SUBSET Steers,
     awaited : SUBSET Agents, failed : BOOLEAN, resumes : SUBSET Turns]

TurnTypeOK ==
    /\ stored \in [Chats -> Seq(Messages)]
    /\ ckpt \in [Turns -> [msgs : Seq(Messages), completed : BOOLEAN]]
    /\ turn \in [Turns -> TurnRecord]
    /\ inbox \in [Turns -> Seq(Steers)]
    /\ sent \subseteq Steers
    /\ agent \in [Agents -> [status : {"none", "running", "completed", "failed"},
                            home : Chats \cup {"none"}, injected : BOOLEAN, delivered : BOOLEAN]]
    /\ \A a \in Agents : agent[a].status # "none" => agent[a].home \in Chats
    /\ settled \in [Chats -> SUBSET (Turns \cup Steers \cup Agents)]
    /\ shown \subseteq Agents
    /\ acts \in 0 .. MaxFiles

\* Whatever may be saved or sent is paired all the time, not only when it is.
ListsPaired == StoredPaired /\ PromptPaired /\ \A t \in Turns : Paired(turn[t].hist)

\* What may become the file begins with a message of its own, so the prompt
\* is built from the whole file even where it is not paired.
Headed(ms) == ms = <<>> \/ (ms[1].role # "tool" /\ ms[1].calls = {})

ListsHeaded ==
    /\ \A c \in Chats : Headed(stored[c])
    /\ \A t \in Turns : /\ Headed(ckpt[t].msgs) /\ Headed(turn[t].hist)
                        /\ turn[t].pc \in {"start", "loop", "wait", "await", "save"}
                              => turn[t].hist # <<>>

\* What the lists of a turn must still stand for when they replace the file.
Owed(t, r) == (settled[SessionOf[t]] \ Agents) \cup {t} \cup r.heard

Remembers(t, r) ==
    /\ r.pc \in {"start", "loop", "wait", "await", "save"} => Owed(t, r) \subseteq Origins(r.hist)
    /\ r.pc \in {"start", "loop"} => Owed(t, r) \subseteq Origins(r.cur)
    /\ r.pc = "compact" => settled[SessionOf[t]] \ Agents \subseteq Origins(r.hist)

\* Nobody settles anything beside a running turn, so it need not look again.
OneRuns == \A t, u \in Turns : Running(t) /\ Running(u) /\ SessionOf[t] = SessionOf[u] => t = u

NothingForgotten ==
    /\ \A t \in Turns : Remembers(t, turn[t])
    /\ OneRuns
    /\ SettledIsStored

SessionInv ==
    /\ TurnTypeOK
    /\ ListsHeaded
    /\ Quirks = {} => ListsPaired
    /\ HomeOf = SessionOf => NothingForgotten
=============================================================================
