---------------------------- MODULE LearningReview ----------------------------
(***************************************************************************)
(* Background reviews: LearningCoordinator (crates/agent/src/              *)
(* learning_coordinator.rs) with its nudge engine, throttle and dedup      *)
(* table, all shared by the message tasks, and the turns that ask it.      *)
(*                                                                         *)
(* A turn asks once for a memory nudge and after each tool round for a     *)
(* skill nudge.  A nudge reserves a slot of the throttle; the turn keeps   *)
(* it in a guard, and hands it to the review it spawns after its answer.   *)
(* Each step of a check is one lock or one atomic operation.  The memory   *)
(* store and skill_manage are there, and reviews are enabled.              *)
(***************************************************************************)
EXTENDS Naturals, FiniteSets

CONSTANTS
    Learners,           \* message tasks; one that has ended takes another message
    Reviewers,       \* spawned reviews
    MaxReviews,      \* max_concurrent_reviews
    SoftThreshold,   \* turns or iterations before a nudge
    LongTurns        \* a turn may go on for min_nudge_interval_secs after its skill nudge

ASSUME LearnAssumption ==
    /\ IsFiniteSet(Learners) /\ IsFiniteSet(Reviewers)
    /\ MaxReviews \in Nat /\ SoftThreshold \in Nat /\ LongTurns \in BOOLEAN

VARIABLES
    active,          \* active_reviews
    cooling,         \* the last review ended within min_review_interval_secs
    count,           \* "memory": turns_since_memory, "skill": iterations_since_skill
    lately,          \* the kinds nudged within min_nudge_interval_secs
    recent,          \* the keys of the dedup table within its window
    learner,            \* task -> its turn
    review           \* review -> "none", "running" or "stamping"

learnVars == <<active, cooling, count, lately, recent, learner, review>>

NudgeKinds == {"memory", "skill"}
Modes == {"None", "Memory", "Skill", "Combined"}

\* kind: what the check under way, or the next one, asks for.
\* holds: "check", a slot reserved by that check; "guard", the turn's
\* LearningReviewReservationGuard.
NoLearner == [pc |-> "idle", kind |-> "memory", mode |-> "None", holds |-> {}]

LearnInit ==
    /\ active = 0
    /\ cooling = FALSE
    /\ count = [k \in NudgeKinds |-> 0]
    /\ lately = {}
    /\ recent = {}
    /\ learner = [t \in Learners |-> NoLearner]
    /\ review = [r \in Reviewers |-> "none"]

LearnerAt(t, pc) == learner[t].pc = pc
becomes(t, new) == learner' = [learner EXCEPT ![t] = new]

OneMore(k) == [count EXCEPT ![k] = IF @ < SoftThreshold THEN @ + 1 ELSE @]

\* would_memory_nudge, would_skill_nudge
Due(k) == count[k] >= SoftThreshold /\ k \notin lately

\* cancel_review
Cancelled == IF active > 0 THEN active - 1 ELSE 0

-----------------------------------------------------------------------------
(* A check: check_memory_nudge, check_skill_nudge *)

\* existing_memory: the slot of the memory nudge covers the skill review too.
Covered(t) == learner[t].kind = "skill" /\ learner[t].mode = "Memory"

KeyOf(t) == IF Covered(t) THEN "combined" ELSE learner[t].kind

\* The turn goes on: after a memory check into its loop, after a skill check
\* to the end of the round.
Resumed(t) == [learner[t] EXCEPT !.pc = IF learner[t].kind = "memory" THEN "loop" ELSE "checked",
                              !.kind = "skill", !.holds = @ \ {"check"}]

AskNudge(t) ==
    /\ LearnerAt(t, "ask")
    /\ becomes(t, IF ~Due(learner[t].kind) THEN Resumed(t)
                  ELSE [learner[t] EXCEPT !.pc = IF Covered(t) THEN "dedup" ELSE "throttle"])
    /\ UNCHANGED <<active, cooling, count, lately, recent, review>>

\* try_start_review looks at the cooldown first ...
PassThrottle(t) ==
    /\ LearnerAt(t, "throttle")
    /\ becomes(t, IF cooling THEN Resumed(t) ELSE [learner[t] EXCEPT !.pc = "reserve"])
    /\ UNCHANGED <<active, cooling, count, lately, recent, review>>

\* ... and then counts itself in.
Reserve(t) ==
    /\ LearnerAt(t, "reserve")
    /\ IF active >= MaxReviews
       THEN becomes(t, Resumed(t)) /\ UNCHANGED active
       ELSE /\ active' = active + 1
            /\ becomes(t, [learner[t] EXCEPT !.pc = "dedup", !.holds = @ \cup {"check"}])
    /\ UNCHANGED <<cooling, count, lately, recent, review>>

GivesBack(t) ==
    /\ active' = IF Covered(t) THEN active ELSE Cancelled
    /\ becomes(t, Resumed(t))

Dedup(t) ==
    /\ LearnerAt(t, "dedup")
    /\ IF KeyOf(t) \in recent
       THEN GivesBack(t)
       ELSE becomes(t, [learner[t] EXCEPT !.pc = "record"]) /\ UNCHANGED active
    /\ UNCHANGED <<cooling, count, lately, recent, review>>

RecordKey(t) ==
    /\ LearnerAt(t, "record")
    /\ recent' = recent \cup {KeyOf(t)}
    /\ becomes(t, [learner[t] EXCEPT !.pc = "nudge"])
    /\ UNCHANGED <<active, cooling, count, lately, review>>

\* The nudge itself, and what the turn makes of it: the first one gets a
\* guard, a skill nudge after a memory nudge makes a combined review.
Nudged(t) ==
    [Resumed(t) EXCEPT !.mode = CASE @ = "None" /\ learner[t].kind = "memory" -> "Memory"
                                  [] @ = "None" /\ learner[t].kind = "skill" -> "Skill"
                                  [] @ = "Memory" -> "Combined"
                                  [] OTHER -> @,
                       !.holds = IF learner[t].mode = "None" THEN @ \cup {"guard"} ELSE @]

Nudge(t) ==
    /\ LearnerAt(t, "nudge")
    /\ LET k == learner[t].kind IN
       IF Due(k)
       THEN /\ lately' = lately \cup {k}
            /\ count' = [count EXCEPT ![k] = 0]
            /\ becomes(t, Nudged(t))
            /\ UNCHANGED active
       ELSE GivesBack(t) /\ UNCHANGED <<lately, count>>
    /\ UNCHANGED <<cooling, recent, review>>

-----------------------------------------------------------------------------
(* A turn *)

\* on_turn_start counts the messages of users only.
BeginTurn(t) ==
    /\ LearnerAt(t, "idle")
    /\ \E real \in BOOLEAN : count' = IF real THEN OneMore("memory") ELSE count
    /\ becomes(t, [NoLearner EXCEPT !.pc = "ask"])
    /\ UNCHANGED <<active, cooling, lately, recent, review>>

CallModel(t) ==
    /\ learner[t].pc \in {"loop", "checked"}
    /\ count' = OneMore("skill")
    /\ becomes(t, [learner[t] EXCEPT !.pc = "model"])
    /\ UNCHANGED <<active, cooling, lately, recent, review>>

\* The tools of a round: a write of a skill or a memory resets its count; a
\* compaction starts the next round without a check.
RunTools(t) ==
    /\ LearnerAt(t, "model")
    /\ \E written \in SUBSET NudgeKinds, compacted \in BOOLEAN :
          /\ count' = [k \in NudgeKinds |-> IF k \in written THEN 0 ELSE count[k]]
          /\ becomes(t, IF compacted THEN [learner[t] EXCEPT !.pc = "loop"]
                        ELSE [learner[t] EXCEPT !.pc = "ask"])
    /\ UNCHANGED <<active, cooling, lately, recent, review>>

\* An answer: the guard moves into the spawned review.
Answer(t) ==
    /\ learner[t].pc \in {"model", "checked"}
    /\ becomes(t, NoLearner)
    /\ IF "guard" \in learner[t].holds
       THEN \E r \in Reviewers : review[r] = "none" /\ review' = [review EXCEPT ![r] = "running"]
       ELSE UNCHANGED review
    /\ UNCHANGED <<active, cooling, count, lately, recent>>

\* Mutant of Leave: the turn has no guard, and forgets its slot.
Leave_Forgets(t) ==
    /\ learner[t].pc \in {"loop", "model", "checked"}
    /\ becomes(t, NoLearner)
    /\ UNCHANGED <<active, cooling, count, lately, recent, review>>

\* No answer, or an abort: the guard is dropped.
Leave(t) ==
    /\ learner[t].pc \in {"loop", "model", "checked"}
    /\ becomes(t, NoLearner)
    /\ active' = IF "guard" \in learner[t].holds THEN Cancelled ELSE active
    /\ UNCHANGED <<cooling, count, lately, recent, review>>

-----------------------------------------------------------------------------
(* A review, and time *)

\* review_completed: the slot is free before the time is noted.
ReviewEnds(r) ==
    /\ review[r] = "running"
    /\ active' = Cancelled
    /\ review' = [review EXCEPT ![r] = IF active > 0 THEN "stamping" ELSE "none"]
    /\ UNCHANGED <<cooling, count, lately, recent, learner>>

NoteTime(r) ==
    /\ review[r] = "stamping"
    /\ cooling' = TRUE
    /\ review' = [review EXCEPT ![r] = "none"]
    /\ UNCHANGED <<active, count, lately, recent, learner>>

CooldownPasses ==
    /\ cooling
    /\ cooling' = FALSE
    /\ UNCHANGED <<active, count, lately, recent, learner, review>>

IntervalPasses(k) ==
    /\ k \in lately
    /\ k = "skill" /\ ~LongTurns => \A t \in Learners : learner[t].mode \notin {"Skill", "Combined"}
    /\ lately' = lately \ {k}
    /\ UNCHANGED <<active, cooling, count, recent, learner, review>>

WindowPasses(key) ==
    /\ key \in recent
    /\ recent' = recent \ {key}
    /\ UNCHANGED <<active, cooling, count, lately, learner, review>>

CheckStep(t) == AskNudge(t) \/ PassThrottle(t) \/ Reserve(t) \/ Dedup(t) \/ RecordKey(t) \/ Nudge(t)

LearnNext ==
    \/ \E t \in Learners : CheckStep(t)
    \/ \E t \in Learners : BeginTurn(t) \/ CallModel(t) \/ RunTools(t) \/ Answer(t) \/ Leave(t)
    \/ \E r \in Reviewers : ReviewEnds(r) \/ NoteTime(r)
    \/ CooldownPasses
    \/ \E k \in NudgeKinds : IntervalPasses(k)
    \/ \E key \in NudgeKinds \cup {"combined"} : WindowPasses(key)

LearnSpec == LearnInit /\ [][LearnNext]_learnVars

-----------------------------------------------------------------------------
LearnerRecord ==
    [pc : {"idle", "ask", "throttle", "reserve", "dedup", "record", "nudge", "loop", "model",
           "checked"},
     kind : NudgeKinds, mode : Modes, holds : SUBSET {"check", "guard"}]

LearnTypeOK ==
    /\ active \in 0 .. MaxReviews
    /\ cooling \in BOOLEAN
    /\ count \in [NudgeKinds -> 0 .. SoftThreshold]
    /\ lately \subseteq NudgeKinds
    /\ recent \subseteq NudgeKinds \cup {"combined"}
    /\ learner \in [Learners -> LearnerRecord]
    /\ review \in [Reviewers -> {"none", "running", "stamping"}]

Holders(slot) == {t \in Learners : slot \in learner[t].holds}
Reviewing == {r \in Reviewers : review[r] = "running"}

\* Every slot of the throttle belongs to somebody who will give it back: a
\* check under way, a turn's guard or a running review.  A slot without an
\* owner is lost until the process ends, and after two of them no review ever
\* starts again; a slot given back twice lets in a review too many.  "to avoid
\* double-counting (which would leak the throttle counter)", learning_coordinator.rs:434.
SlotsAreOwned ==
    active = Cardinality(Holders("check")) + Cardinality(Holders("guard")) + Cardinality(Reviewing)

\* At most max_concurrent_reviews reviews run, whatever slots are lost.
ReviewsAreLimited == Cardinality(Reviewing) <= MaxReviews

\* Which steps of a turn have a slot, and what the turn has been nudged for.
LearnersHold == \A t \in Learners :
    /\ "check" \in learner[t].holds <=>
          learner[t].pc \in {"dedup", "record", "nudge"} /\ ~Covered(t)
    /\ learner[t].pc \in {"throttle", "reserve"} => ~Covered(t)
    /\ "guard" \in learner[t].holds <=> learner[t].mode # "None"
    /\ learner[t].pc \in {"idle", "loop", "model", "checked"} =>
          (learner[t].kind = "memory" <=> learner[t].pc = "idle")
    /\ learner[t].kind = "memory" => learner[t].mode = "None"
    /\ ~LongTurns /\ learner[t].mode \in {"Skill", "Combined"} =>
          /\ "skill" \in lately
          /\ learner[t].pc \notin {"throttle", "reserve", "dedup", "record", "nudge"}

\* A slot may be lost only by a long turn.
LearnInv ==
    /\ LearnTypeOK /\ LearnersHold
    /\ Cardinality(Holders("check")) + Cardinality(Holders("guard")) + Cardinality(Reviewing) <= active
    /\ LongTurns \/ SlotsAreOwned

\* A review is let in only when the last one ended min_review_interval_secs
\* ago: try_start_review promises to look at both conditions at once.
CooldownIsKept == [][active' > active => ~cooling]_learnVars
=============================================================================
