---------------------------- MODULE MemoryExtraction ----------------------------
(***************************************************************************)
(* Background extraction of memory files: the end of                       *)
(* process_message_inner.rs, memory_system/mod.rs, auto_memory/ and        *)
(* session_memory/ of crates/agent.  After a turn, if the conversation has *)
(* grown past a cursor, a detached task lets a forked agent edit a memory  *)
(* file and takes its edits back when they are rejected.  A pending marker *)
(* created atomically keeps a second task away; a journal with the owner's *)
(* process tells a marker that was left behind from a slow task.           *)
(*                                                                         *)
(* One memory file: of the user ("auto": one cursor for all conversations) *)
(* or of one session ("session").  Every message has a runtime of its own. *)
(***************************************************************************)
EXTENDS Naturals, FiniteSets

CONSTANTS
    Conversations,    \* their turns overlap
    Extractors,       \* detached tasks
    Layers,           \* a subset of {"auto", "session"}
    MaxMessages,      \* bound: length of a conversation
    MaxExtractions,   \* bound: tasks started
    MaxMishaps        \* bound: deaths of the process, cursors not saved

VARIABLES
    layer,
    marker,           \* .extraction_pending and the age of its mtime
    journal,          \* .extraction_journal
    memory_file,      \* the extractions whose text is in the file
    cursor,           \* on disk: messages (tokens) at the last extraction
    length,           \* of a conversation
    talk,             \* a conversation's turn
    extractor,
    outcome,          \* history: what became of each extraction
    mishaps

extractVars == <<layer, marker, journal, memory_file, cursor, length, talk, extractor, outcome,
                 mishaps>>

ASSUME ExtractAssumption ==
    MaxMessages \in Nat /\ MaxExtractions \in Nat /\ MaxMishaps \in Nat /\ Layers \subseteq {"auto", "session"}

Extractions == 1 .. MaxExtractions
Cooldown == 1

NoJournal == [alive |-> FALSE, old |-> FALSE, exists |-> FALSE]
NoTurn == [pc |-> "idle", base |-> 0]
NoTask == [pc |-> "idle", n |-> 0, upto |-> 0, read |-> {}, edited |-> FALSE]

ExtractInit ==
    /\ layer \in Layers
    /\ marker = "none" /\ journal = NoJournal
    /\ memory_file = {}
    /\ cursor = 0
    /\ length = [c \in Conversations |-> 0]
    /\ talk = [c \in Conversations |-> NoTurn]
    /\ extractor = [x \in Extractors |-> NoTask]
    /\ outcome = [n \in Extractions |-> "none"]
    /\ mishaps = 0

Mishap == mishaps < MaxMishaps /\ mishaps' = mishaps + 1
Smaller(a, b) == IF a < b THEN a ELSE b
Talks(c, new) == talk' = [talk EXCEPT ![c] = new]
Works(x, new) == extractor' = [extractor EXCEPT ![x] = new]
Begun == {n \in Extractions : outcome[n] # "none"}

\* is_journal_stale: the owner is dead and three thresholds have passed.
JournalStale == ~journal.alive /\ journal.old

\* saturating_sub: a conversation shorter than its base has not grown.
Grown(c) == length[c] >= talk[c].base + Cooldown

-----------------------------------------------------------------------------
(* A turn *)

\* The runtime of the message loads the cursor and clears an orphaned journal
\* together with its marker.
StartTurn(c) ==
    /\ talk[c].pc = "idle"
    /\ length' = [length EXCEPT ![c] = Smaller(@ + 1, MaxMessages)]
    /\ Talks(c, [pc |-> "turn", base |-> cursor])
    /\ IF journal.exists /\ JournalStale
       THEN marker' = "none" /\ journal' = NoJournal
       ELSE UNCHANGED <<marker, journal>>
    /\ UNCHANGED <<layer, memory_file, cursor, extractor, outcome, mishaps>>

\* The base is lowered in this runtime; only the session's is saved.  Before
\* that a compaction that finds a stale marker of the session removes it.
CompactTurn(c) ==
    LET base == Smaller(talk[c].base, 1)
    IN
    /\ talk[c].pc = "turn" /\ length[c] > 1
    /\ length' = [length EXCEPT ![c] = 1]
    /\ Talks(c, [talk[c] EXCEPT !.base = base])
    /\ IF layer = "session"
       THEN cursor' = base /\ marker' = IF marker = "stale" THEN "none" ELSE marker
       ELSE UNCHANGED <<cursor, marker>>
    /\ UNCHANGED <<layer, journal, memory_file, extractor, outcome, mishaps>>

\* Mutants of Leftover: the journal is not asked; a stale marker stays.
Leftover_Stale == marker = "stale"
Leftover_Never == FALSE

\* A stale marker is only removed if no living process has a journal for it.
Leftover == marker = "stale" /\ (journal.exists => JournalStale)

\* evaluate_memory_hooks
Evaluate(c) ==
    /\ talk[c].pc = "turn"
    /\ Talks(c, [talk[c] EXCEPT !.pc =
            CASE marker = "none" /\ Grown(c) -> "create"
              [] Leftover /\ (Grown(c) \/ layer = "session") -> "clean"
              [] OTHER -> "idle"])
    /\ UNCHANGED <<layer, marker, journal, memory_file, cursor, length, extractor, outcome, mishaps>>

CleanMarker(c) ==
    /\ talk[c].pc = "clean"
    /\ marker' = "none"
    /\ Talks(c, [talk[c] EXCEPT !.pc = IF Grown(c) THEN "create" ELSE "idle"])
    /\ UNCHANGED <<layer, journal, memory_file, cursor, length, extractor, outcome, mishaps>>

\* create_new: one of two turns that got here wins.
CreateMarker(c) ==
    /\ talk[c].pc = "create"
    /\ IF marker = "none" /\ Begun # Extractions
       THEN marker' = "fresh" /\ Talks(c, [talk[c] EXCEPT !.pc = "journal"])
       ELSE UNCHANGED marker /\ Talks(c, NoTurn)
    /\ UNCHANGED <<layer, journal, memory_file, cursor, length, extractor, outcome, mishaps>>

SpawnExtractor(c) ==
    /\ talk[c].pc = "journal"
    /\ journal' = [alive |-> TRUE, old |-> FALSE, exists |-> TRUE]
    /\ \E x \in Extractors, n \in Extractions :
         /\ extractor[x].pc = "idle" /\ n = Cardinality(Begun) + 1
         /\ Works(x, [NoTask EXCEPT !.pc = "read", !.n = n, !.upto = length[c]])
         /\ outcome' = [outcome EXCEPT ![n] = "running"]
    /\ Talks(c, NoTurn)
    /\ UNCHANGED <<layer, marker, memory_file, cursor, length, mishaps>>

-----------------------------------------------------------------------------
(* A task *)

\* An open circuit breaker ends it at once.
ReadMemory(x) ==
    /\ extractor[x].pc = "read"
    /\ \/ Works(x, [extractor[x] EXCEPT !.pc = "run", !.read = memory_file])
       \/ Works(x, [extractor[x] EXCEPT !.pc = "drop"])
    /\ UNCHANGED <<layer, marker, journal, memory_file, cursor, length, talk, outcome, mishaps>>

\* The forked agent edits the file, leaves it as it is, or fails.
RunAgent(x) ==
    /\ extractor[x].pc = "run"
    /\ \/ /\ memory_file' = memory_file \cup {extractor[x].n}
          /\ Works(x, [extractor[x] EXCEPT !.pc = "settle", !.edited = TRUE])
       \/ Works(x, [extractor[x] EXCEPT !.pc = "save"]) /\ UNCHANGED memory_file
       \/ Works(x, [extractor[x] EXCEPT !.pc = "drop"]) /\ UNCHANGED memory_file
    /\ UNCHANGED <<layer, marker, journal, cursor, length, talk, outcome, mishaps>>

\* A tool that failed, a scan or a validation: what was read is written back.
SettleEdit(x) ==
    LET me == extractor[x]
    IN
    /\ me.pc = "settle"
    /\ \/ Works(x, [me EXCEPT !.pc = "save"]) /\ UNCHANGED <<memory_file, outcome>>
       \/ /\ memory_file' = me.read
          /\ outcome' = [outcome EXCEPT ![me.n] = "rejected"]
          /\ Works(x, [me EXCEPT !.pc = "drop"])
    /\ UNCHANGED <<layer, marker, journal, cursor, length, talk, mishaps>>

\* merge_and_save.  If it fails marker and journal are kept; the session's
\* state file is written as well as it goes.
SaveCursor(x) ==
    LET me == extractor[x]
    IN
    /\ me.pc = "save"
    /\ \/ /\ cursor' = me.upto
          /\ outcome' = [outcome EXCEPT ![me.n] = IF me.edited THEN "recorded" ELSE "no_change"]
          /\ Works(x, [me EXCEPT !.pc = "drop"])
          /\ UNCHANGED mishaps
       \/ /\ Mishap
          /\ outcome' = [outcome EXCEPT ![me.n] = "unsaved"]
          /\ Works(x, IF layer = "auto" THEN NoTask ELSE [me EXCEPT !.pc = "drop"])
          /\ UNCHANGED cursor
    /\ UNCHANGED <<layer, marker, journal, memory_file, length, talk>>

\* ExtractionMarkerGuard::drop: whoever's they are.
DropGuard(x) ==
    /\ extractor[x].pc = "drop"
    /\ marker' = "none" /\ journal' = NoJournal
    /\ Works(x, NoTask)
    /\ UNCHANGED <<layer, memory_file, cursor, length, talk, outcome, mishaps>>

-----------------------------------------------------------------------------
(* Around them *)

ProcessDies ==
    /\ Mishap
    /\ talk' = [c \in Conversations |-> NoTurn]
    /\ extractor' = [x \in Extractors |-> NoTask]
    /\ journal' = [journal EXCEPT !.alive = FALSE]
    /\ UNCHANGED <<layer, marker, memory_file, cursor, length, outcome>>

\* A marker is stale after minutes, long before its journal is and long after
\* the journal was written.
FilesAge ==
    /\ \/ marker = "fresh" /\ marker' = "stale" /\ UNCHANGED journal
          /\ \A c \in Conversations : talk[c].pc # "journal"
       \/ /\ marker # "fresh" /\ journal.exists /\ ~journal.old
          /\ journal' = [journal EXCEPT !.old = TRUE]
          /\ UNCHANGED marker
    /\ UNCHANGED <<layer, memory_file, cursor, length, talk, extractor, outcome, mishaps>>

ChatStep(c) ==
    StartTurn(c) \/ Evaluate(c) \/ CleanMarker(c) \/ CreateMarker(c) \/ SpawnExtractor(c)

ExtractorStep(x) ==
    ReadMemory(x) \/ RunAgent(x) \/ SettleEdit(x) \/ SaveCursor(x) \/ DropGuard(x)

ExtractNext ==
    \/ \E c \in Conversations : ChatStep(c) \/ CompactTurn(c)
    \/ \E x \in Extractors : ExtractorStep(x)
    \/ ProcessDies \/ FilesAge

\* Turns go on as long as somebody talks; tasks and clocks go on by themselves.
ExtractFairness ==
    /\ \A c \in Conversations : WF_extractVars(ChatStep(c))
    /\ \A x \in Extractors : WF_extractVars(ExtractorStep(x))
    /\ WF_extractVars(FilesAge)

ExtractSpec == ExtractInit /\ [][ExtractNext]_extractVars /\ ExtractFairness

-----------------------------------------------------------------------------
(* Properties *)

ExtractTypeOK ==
    /\ marker \in {"none", "fresh", "stale"}
    /\ journal \in [alive : BOOLEAN, old : BOOLEAN, exists : BOOLEAN]
    /\ memory_file \subseteq Extractions
    /\ cursor \in 0 .. MaxMessages /\ length \in [Conversations -> 0 .. MaxMessages]
    /\ talk \in [Conversations -> [pc : {"idle", "turn", "create", "clean", "journal"},
                                   base : 0 .. MaxMessages]]
    /\ extractor \in [Extractors -> [pc : {"idle", "read", "run", "settle", "save", "drop"},
                                     n : 0 .. MaxExtractions, upto : 0 .. MaxMessages,
                                     read : SUBSET Extractions, edited : BOOLEAN]]
    /\ outcome \in [Extractions -> {"none", "running", "no_change", "recorded", "rejected", "unsaved"}]
    /\ mishaps \in 0 .. MaxMishaps

\* The cursor has moved past a conversation for good: what was extracted from
\* it is never taken back by another task's roll-back.
ExtractedStays == \A n \in Extractions : outcome[n] = "recorded" => n \in memory_file
AutoExtractedStays == layer = "auto" => ExtractedStays

\* A marker nobody works behind does not keep extraction away for good, unless
\* it was kept because the cursor could not be saved.
MarkerComesDown ==
    []<>(\/ marker = "none"
         \/ \E n \in Extractions : outcome[n] = "unsaved"
         \/ \A c \in Conversations : length[c] < cursor + Cooldown)

\* The same without the exception.
KeptMarkerComesDown ==
    []<>(marker = "none" \/ \A c \in Conversations : length[c] < cursor + Cooldown)

\* A conversation that was compacted can grow past its cursor again.
CompactedGrows == \A c \in Conversations : cursor <= length[c]

-----------------------------------------------------------------------------
(* The inductive invariant behind AutoExtractedStays: nothing goes wrong, or *)
(* there is one conversation                                                 *)

OneConversation == \A c, d \in Conversations : c = d

AtWork(x) == extractor[x].pc # "idle"
Founds(c) == talk[c].pc = "journal"

\* One task at most is at work or about to be spawned, with a marker and, once
\* it works, the journal of a living process.
OneExtraction ==
    /\ \A x, y \in Extractors : AtWork(x) /\ AtWork(y) => x = y
    /\ \A c, d \in Conversations : Founds(c) /\ Founds(d) => c = d
    /\ \A c \in Conversations, x \in Extractors : ~(Founds(c) /\ AtWork(x))
    /\ \A x \in Extractors : AtWork(x) => marker # "none" /\ journal.exists /\ journal.alive
    /\ \A c \in Conversations : Founds(c) => marker = "fresh"

\* A leftover is cleaned away only when nobody is at work, and can only be left
\* by a mishap.
LeftoversAreDead ==
    /\ \A c \in Conversations : talk[c].pc = "clean" =>
           OneConversation /\ \A x \in Extractors : ~AtWork(x)
    /\ mishaps = 0 /\ marker # "none" =>
           (\E c \in Conversations : Founds(c)) \/ (\E x \in Extractors : AtWork(x))
    /\ mishaps = 0 /\ journal.exists => journal.alive

\* A task that may roll its edit back has read what was recorded.
EditsAreRead ==
    \A x \in Extractors :
        /\ extractor[x].pc \in {"run", "settle"} =>
               \A n \in Extractions : outcome[n] = "recorded" => n \in extractor[x].read
        /\ extractor[x].pc \in {"read", "run"} => ~extractor[x].edited
        /\ extractor[x].pc \in {"read", "run", "settle", "save"} => extractor[x].n \in Extractions
        /\ extractor[x].pc \in {"settle", "save"} /\ extractor[x].edited => extractor[x].n \in memory_file

ExtractInv == ExtractTypeOK /\ OneExtraction /\ LeftoversAreDead /\ EditsAreRead /\ ExtractedStays
=============================================================================
