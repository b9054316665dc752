------------------------------ MODULE LlmCalls ------------------------------
(***************************************************************************)
(* Calls to a language model: the provider pool (crates/providers/src/     *)
(* pool.rs) and AgentRuntime::call_llm_with_retry (crates/agent/src/       *)
(* runtime/message_dispatch.rs).  The turns that overlap share one pool.   *)
(* A call makes up to llm_max_retries + 1 attempts; within an attempt it   *)
(* goes on to another entry while connections fail; the text of a stream   *)
(* goes to the client as it comes and is withdrawn by stream_reset.        *)
(*                                                                         *)
(* One stream's text is one token, named by its attempt.                   *)
(***************************************************************************)
EXTENDS Naturals, FiniteSets

CONSTANTS
    Callers,         \* turns that overlap
    Askers,          \* tasks that ask once: summaries, reviews, chat_with_provider
    Entries,         \* entries of the pool
    Nothing,
    Priority,        \* entry -> its priority, the smallest first
    FailThreshold,   \* fail_threshold
    MaxRetries       \* llm_max_retries

ASSUME CallAssumption ==
    /\ FailThreshold \in Nat \ {0} /\ MaxRetries \in Nat
    /\ Nothing \notin Entries \cup {"answer", "error"}

VARIABLES
    health,          \* entry -> its health; "cooled": its cooldown is over
    fails,           \* entry -> transient_fail_count
    call,            \* caller -> its call
    asked            \* asker -> the entry it is waiting for

callVars == <<health, fails, call, asked>>

Attempts == 0 .. MaxRetries
Kinds == {"RateLimit", "AuthError", "Transient"}   \* ServerError counts as Transient

NoCall == [pc |-> "idle", attempt |-> 0, entry |-> Nothing, excluded |-> {}, tried |-> {},
           revived |-> FALSE, shown |-> {}, result |-> Nothing]

CallInit ==
    /\ health = [e \in Entries |-> "Healthy"]
    /\ fails = [e \in Entries |-> 0]
    /\ call = [c \in Callers |-> NoCall]
    /\ asked = [a \in Askers |-> Nothing]

Is(c, pc) == call[c].pc = pc
goes(c, new) == call' = [call EXCEPT ![c] = new]

\* History: an entry that answers revives the calls that have tried it.
Answering(e) == [c \in Callers |-> [call[c] EXCEPT !.revived = @ \/ e \in call[c].tried]]

-----------------------------------------------------------------------------
(* The pool *)

\* recover_cooling_entries, which every acquire begins with
Recovering == [e \in Entries |-> IF health[e] = "cooled" THEN "Healthy" ELSE health[e]]

\* The entries acquire may select, and which of them it selects from.
Eligible(excluded) == {e \in Entries : Recovering[e] = "Healthy"} \ excluded
Preferred(es) == {e \in es : \A o \in es : Priority[e] <= Priority[o]}

\* Mutant of Trips: one failure too many.
Trips_Late(e) == fails[e] + 1 > FailThreshold
Trips(e) == fails[e] + 1 >= FailThreshold

\* report
Reported(e, kind) ==
    /\ fails' = [fails EXCEPT ![e] = CASE kind = "Success" -> 0
                                       [] kind = "Transient" -> (@ + 1) % FailThreshold
                                       [] OTHER -> @]
    /\ health' = [health EXCEPT ![e] =
                     CASE kind = "AuthError" -> "Dead"
                       [] kind = "RateLimit" -> "Cooling"
                       [] kind = "Transient" /\ Trips(e) -> "Cooling"
                       [] OTHER -> @]

CooldownEnds(e) ==
    /\ health[e] = "Cooling"
    /\ health' = [health EXCEPT ![e] = "cooled"]
    /\ call' = [c \in Callers |-> [call[c] EXCEPT !.revived = ~Is(c, "idle")]]
    /\ UNCHANGED <<fails, asked>>

-----------------------------------------------------------------------------
(* call_llm_with_retry *)

Call(c) ==
    /\ Is(c, "idle")
    /\ goes(c, [NoCall EXCEPT !.pc = "pick"])
    /\ UNCHANGED <<health, fails, asked>>

\* The end of an attempt that answered nothing: the next one, or an error.
NextAttempt(k) ==
    IF k.attempt < MaxRetries
    THEN [k EXCEPT !.pc = "pick", !.attempt = @ + 1, !.entry = Nothing, !.excluded = {}]
    ELSE [NoCall EXCEPT !.shown = k.shown, !.result = "error"]

Pick(c) ==
    /\ Is(c, "pick")
    /\ health' = Recovering
    /\ LET open == Eligible(call[c].excluded)
       IN  \/ /\ open = {}
              /\ goes(c, NextAttempt(call[c]))
           \/ \E e \in Preferred(open) :
                goes(c, [call[c] EXCEPT !.pc = "connect", !.entry = e, !.tried = @ \cup {e}])
    /\ UNCHANGED <<fails, asked>>

Connects(c) ==
    /\ Is(c, "connect")
    /\ goes(c, [call[c] EXCEPT !.pc = "stream"])
    /\ UNCHANGED <<health, fails, asked>>

Excluding(k) == [k EXCEPT !.pc = "pick", !.entry = Nothing, !.excluded = @ \cup {k.entry}]

\* chat_stream fails: in the connection phase the attempt goes on.
ConnectFails(c, kind, connection) ==
    /\ Is(c, "connect")
    /\ Reported(call[c].entry, kind)
    /\ goes(c, IF connection THEN Excluding(call[c]) ELSE NextAttempt(call[c]))
    /\ UNCHANGED asked

Delta(c) ==
    /\ Is(c, "stream")
    /\ call[c].attempt \notin call[c].shown
    /\ goes(c, [call[c] EXCEPT !.shown = @ \cup {call[c].attempt}])
    /\ UNCHANGED <<health, fails, asked>>

\* Done, or the stream closed after it brought something.
StreamDone(c) ==
    /\ Is(c, "stream")
    /\ Reported(call[c].entry, "Success")
    /\ call' = [Answering(call[c].entry) EXCEPT
                   ![c] = [NoCall EXCEPT !.attempt = call[c].attempt, !.shown = call[c].shown,
                                         !.result = "answer"]]
    /\ UNCHANGED asked

\* Mutant of Withdrawn: no stream_reset after the last attempt.
Withdrawn_NotLast(k) == IF k.attempt = MaxRetries THEN k.shown ELSE {}
Withdrawn(k) == {}

\* An error, no chunk for STREAM_TIMEOUT_SECS, or a close with nothing.
StreamBreaks(c, kind) ==
    /\ Is(c, "stream")
    /\ Reported(call[c].entry, kind)
    /\ goes(c, NextAttempt([call[c] EXCEPT !.shown = Withdrawn(call[c])]))
    /\ UNCHANGED asked

\* The turn is aborted: nothing is reported, nothing withdrawn.
Cut(c) ==
    /\ ~Is(c, "idle")
    /\ goes(c, NoCall)
    /\ UNCHANGED <<health, fails, asked>>

\* chat_with_provider and its like: acquire, one request, report.
Ask(a) ==
    /\ asked[a] = Nothing
    /\ health' = Recovering
    /\ \E e \in Preferred(Eligible({})) : asked' = [asked EXCEPT ![a] = e]
    /\ UNCHANGED <<fails, call>>

AskEnds(a, kind) ==
    /\ asked[a] # Nothing
    /\ Reported(asked[a], kind)
    /\ call' = IF kind = "Success" THEN Answering(asked[a]) ELSE call
    /\ asked' = [asked EXCEPT ![a] = Nothing]

CallStep(c) ==
    \/ Pick(c) \/ Connects(c) \/ StreamDone(c)
    \/ \E kind \in Kinds :
         \/ StreamBreaks(c, kind)
         \/ \E connection \in BOOLEAN : ConnectFails(c, kind, connection)

CallNext ==
    \/ \E c \in Callers : CallStep(c) \/ Call(c) \/ Delta(c) \/ Cut(c)
    \/ \E a \in Askers : Ask(a) \/ \E kind \in Kinds \cup {"Success"} : AskEnds(a, kind)
    \/ \E e \in Entries : CooldownEnds(e)

\* Connecting and streaming end by themselves or by their timeouts; nothing
\* is assumed of cooldowns.
CallFairness == \A c \in Callers : WF_callVars(CallStep(c))

CallSpec == CallInit /\ [][CallNext]_callVars /\ CallFairness

-----------------------------------------------------------------------------
(* Properties *)

CallTypeOK ==
    /\ health \in [Entries -> {"Healthy", "Cooling", "cooled", "Dead"}]
    /\ fails \in [Entries -> 0 .. FailThreshold - 1]
    /\ call \in [Callers -> [pc : {"idle", "pick", "connect", "stream"}, attempt : Attempts,
                             entry : Entries \cup {Nothing}, excluded : SUBSET Entries,
                             tried : SUBSET Entries, revived : BOOLEAN, shown : SUBSET Attempts,
                             result : {Nothing, "answer", "error"}]]
    /\ \A c \in Callers : call[c].pc \in {"connect", "stream"} => call[c].entry \in Entries
    /\ asked \in [Askers -> Entries \cup {Nothing}]

\* What the client is left with is the text of the attempt that answered, and
\* none when the call failed: test_stream_retry_emits_reset_before_retrying_ws_response.
ShownIsAnswer ==
    \A c \in Callers :
        /\ call[c].result = "answer" => call[c].shown \subseteq {call[c].attempt}
        /\ call[c].result = "error" => call[c].shown = {}

\* Text is on the screen only while a stream runs, and then only its own.
CallShows == \A c \in Callers :
    /\ call[c].pc \in {"pick", "connect"} => call[c].shown = {}
    /\ call[c].pc = "stream" => call[c].shown \subseteq {call[c].attempt}
    /\ call[c].pc # "idle" => call[c].result = Nothing

CallInv == CallTypeOK /\ ShownIsAnswer /\ CallShows

\* 永久不可用 (EntryHealth::Dead): an entry whose key was refused stays out.
DeadStaysDead == [][\A e \in Entries : health[e] = "Dead" => health'[e] = "Dead"]_callVars

\* Fail-over: a call that gives up has tried every entry in service, unless one
\* that failed it answered another turn or one came back from its cooldown.
GivesUpLast ==
    [][\A c \in Callers :
         call[c].pc # "idle" /\ call'[c].result = "error" /\ ~call[c].revived
            => {e \in Entries : health'[e] = "Healthy"} \subseteq call[c].tried]_callVars

\* The same without the exception.
AlwaysGivesUpLast ==
    [][\A c \in Callers :
         call[c].pc # "idle" /\ call'[c].result = "error"
            => {e \in Entries : health'[e] = "Healthy"} \subseteq call[c].tried]_callVars

-----------------------------------------------------------------------------
(* The inductive invariant behind GivesUpLast, h and f the pool's health and fails *)

\* The entries an acquire could select.
InService(h) == {e \in Entries : h[e] \in {"Healthy", "cooled"}}

\* What the entries a call has tried can still be held to account for, the
\* failure its attempt may end in included: FailThreshold of an entry that is out.
Strikes(h, f, k) ==
    {s \in k.tried \X (1 .. FailThreshold) :
        \/ h[s[1]] # "Healthy"
        \/ s[2] <= f[s[1]]
        \/ k.entry = s[1] /\ s[2] = f[s[1]] + 1}

AttemptsBegun(k) == IF k.entry = Nothing THEN k.attempt ELSE k.attempt + 1

\* What a call that nobody revived knows: it has tried all there is, or each
\* attempt it began is a strike of its own.
GivesUpFairly(h, f, k) ==
    /\ k.entry = Nothing <=> k.pc = "pick"
    /\ k.excluded \subseteq k.tried
    /\ k.entry # Nothing => k.entry \in k.tried
    /\ \A e \in k.tried : h[e] # "cooled"
    /\ InService(h) \subseteq k.tried \/ AttemptsBegun(k) <= Cardinality(Strikes(h, f, k))

GiveUpInv ==
    \A c \in Callers :
        call[c].pc # "idle" /\ ~call[c].revived => GivesUpFairly(health, fails, call[c])
=============================================================================
