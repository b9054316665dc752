------------------------------ MODULE MCServices ------------------------------
(***************************************************************************)
(* Small instances of components that share no state, checked in one run:  *)
(* the first state chooses the component that runs, the others stay as     *)
(* they are.                                                               *)
(***************************************************************************)
EXTENDS SessionTurns, DreamConsolidation, MemoryExtraction, LlmCalls, CircuitBreaker,
        LearningReview, GhostReviews, MemoryVectors, TLC

CONSTANTS
    Services,        \* the components of this run: some of those that Only names
    c1, e1, e2

VARIABLE service

MCTools == {1}
MCTwoTools == {1, 2}
MCHome == [t \in Turns |-> c1]
\* The messages of one chat are alike.
TurnSymmetry == Permutations(Turns)
EntryPriority == [e \in Entries |-> IF e = e1 THEN 1 ELSE 2]

servicesVars == <<service, vars, dreamVars, extractVars, callVars, breakerVars,
                  learnVars, ghostVars, memoryVars>>

\* The turns, with all that disturbs them or all but one thing.
MessageServices == {"message", "message, no files", "message, no steering", "message, no agents"}

Only(s) ==
    /\ service = s
    /\ UNCHANGED service
    /\ s \notin MessageServices => UNCHANGED vars
    /\ s # "dream" => UNCHANGED dreamVars
    /\ s # "extraction" => UNCHANGED extractVars
    /\ s # "calls" => UNCHANGED callVars
    /\ s # "breaker" => UNCHANGED breakerVars
    /\ s # "learning" => UNCHANGED learnVars
    /\ s # "ghost" => UNCHANGED ghostVars
    /\ s # "memory" => UNCHANGED memoryVars

ServicesInit ==
    /\ service \in Services
    /\ Init /\ DreamInit /\ ExtractInit /\ CallInit /\ BreakerInit
    /\ LearnInit /\ GhostInit /\ MemoryInit
    /\ service # "extraction" => layer = "auto"

ServicesNext ==
    \/ Only("message") /\ Next
    \/ Only("message, no files") /\ Next /\ UNCHANGED acts
    \/ Only("message, no steering") /\ Next /\ UNCHANGED sent
    \/ Only("message, no agents") /\ Next /\ UNCHANGED agent
    \/ Only("dream") /\ DreamNext
    \/ Only("extraction") /\ ExtractNext /\ (layer = "session" => mishaps' <= 1)
    \/ Only("calls") /\ CallNext
    \/ Only("breaker") /\ BreakerNext
    \/ Only("learning") /\ LearnNext
    \/ Only("ghost") /\ GhostNext
    \/ Only("memory") /\ MemoryNext

\* The fairness of each component, in the runs in which it runs.
ServicesFairness ==
    /\ \A t \in Turns : WF_vars(Only("message") /\ TurnStep(t))
    /\ \A p \in Dreamers : WF_dreamVars(Only("dream") /\ DreamStep(p))
    /\ WF_dreamVars(Only("dream") /\ TimePasses)
    /\ \A c \in Conversations : WF_extractVars(Only("extraction") /\ ChatStep(c))
    /\ \A x \in Extractors : WF_extractVars(Only("extraction") /\ ExtractorStep(x))
    /\ WF_extractVars(Only("extraction") /\ FilesAge)
    /\ \A c \in Callers : WF_callVars(Only("calls") /\ CallStep(c))
    /\ \A u \in Users : WF_breakerVars(Only("breaker") /\ Settles(u))
    /\ WF_breakerVars(Only("breaker") /\ ResetTimeoutPasses)
    /\ \A g \in Ghosts : WF_ghostVars(Only("ghost") /\ GhostStep(g))
    /\ \A e \in Episodes : WF_ghostVars(Only("ghost") /\ LeaseRunsOut(e))

ServicesSafety == ServicesInit /\ [][ServicesNext]_servicesVars

ServicesSpec == ServicesSafety /\ ServicesFairness
=============================================================================
