--------------------------- MODULE CircuitBreaker ---------------------------
(***************************************************************************)
(* A circuit breaker of crates/agent/src/session_metrics/circuit_breaker.rs, *)
(* as compaction, memory extraction and dream use one: allow, the work,    *)
(* record_success or record_failure.  Every atomic operation is a step of  *)
(* its own, taken to be seen by all users in that order.  A turn that is   *)
(* aborted and a dream that times out record nothing.                      *)
(***************************************************************************)
EXTENDS Naturals

CONSTANTS
    Users,             \* tasks that share the breaker
    MaxFailures,       \* max_failures
    HalfOpenMaxCalls,  \* half_open_max_calls
    MaxLost            \* bound: calls that record nothing

VARIABLES
    circuit,           \* state
    failure_count,     \* counted up to MaxFailures
    last_failure,      \* last_failure_time_ns: 0, or whether reset_timeout has passed
    half_open_calls,   \* counted up to HalfOpenMaxCalls
    user,              \* user -> the atomic operation it is at
    lost               \* calls that recorded nothing so far

breakerVars == <<circuit, failure_count, last_failure, half_open_calls, user, lost>>

BreakerInit ==
    /\ circuit = "Closed"
    /\ failure_count = 0
    /\ last_failure = "zero"
    /\ half_open_calls = 0
    /\ user = [u \in Users |-> "idle"]
    /\ lost = 0

UserAt(u, pc) == user[u] = pc
moves(u, pc) == user' = [user EXCEPT ![u] = pc]
UpTo(n, max) == IF n < max THEN n ELSE max

-----------------------------------------------------------------------------
(* allow *)

LoadState(u) ==
    /\ UserAt(u, "idle")
    /\ moves(u, CASE circuit = "Closed" -> "work"
                  [] circuit = "Open" -> "open"
                  [] circuit = "HalfOpen" -> "probe")
    /\ UNCHANGED <<circuit, failure_count, last_failure, half_open_calls, lost>>

CheckTimeout(u) ==
    /\ UserAt(u, "open")
    /\ IF last_failure = "old"
       THEN circuit' = "HalfOpen" /\ moves(u, "opened")
       ELSE moves(u, "idle") /\ UNCHANGED circuit
    /\ UNCHANGED <<failure_count, last_failure, half_open_calls, lost>>

\* Mutant of ProbesBefore: the call that half-opens the breaker is counted.
ProbesBefore_Counts == 1
ProbesBefore == 0

ResetProbes(u) ==
    /\ UserAt(u, "opened")
    /\ half_open_calls' = ProbesBefore
    /\ moves(u, "work")
    /\ UNCHANGED <<circuit, failure_count, last_failure, lost>>

CountProbe(u) ==
    /\ UserAt(u, "probe")
    /\ half_open_calls' = UpTo(half_open_calls + 1, HalfOpenMaxCalls)
    /\ moves(u, IF half_open_calls < HalfOpenMaxCalls THEN "work" ELSE "idle")
    /\ UNCHANGED <<circuit, failure_count, last_failure, lost>>

-----------------------------------------------------------------------------
(* record_success: the three stores, or the reset of the count alone *)

Succeed(u) ==
    /\ UserAt(u, "work")
    /\ moves(u, CASE circuit = "HalfOpen" -> "close"
                  [] circuit = "Closed" -> "clear"
                  [] circuit = "Open" -> "idle")
    /\ UNCHANGED <<circuit, failure_count, last_failure, half_open_calls, lost>>

StoreClosed(u) ==
    /\ UserAt(u, "close")
    /\ circuit' = "Closed"
    /\ moves(u, "clear all")
    /\ UNCHANGED <<failure_count, last_failure, half_open_calls, lost>>

ClearCount(u) ==
    /\ user[u] \in {"clear", "clear all"}
    /\ failure_count' = 0
    /\ moves(u, IF UserAt(u, "clear") THEN "idle" ELSE "clear time")
    /\ UNCHANGED <<circuit, last_failure, half_open_calls, lost>>

ClearTime(u) ==
    /\ UserAt(u, "clear time")
    /\ last_failure' = "zero"
    /\ moves(u, "idle")
    /\ UNCHANGED <<circuit, failure_count, half_open_calls, lost>>

-----------------------------------------------------------------------------
(* record_failure *)

Fail(u) ==
    /\ UserAt(u, "work")
    /\ failure_count' = UpTo(failure_count + 1, MaxFailures)
    /\ moves(u, IF failure_count + 1 >= MaxFailures THEN "failed max" ELSE "failed")
    /\ UNCHANGED <<circuit, last_failure, half_open_calls, lost>>

DecideToOpen(u) ==
    /\ user[u] \in {"failed", "failed max"}
    /\ moves(u, IF circuit = "HalfOpen" \/ UserAt(u, "failed max") THEN "trip" ELSE "idle")
    /\ UNCHANGED <<circuit, failure_count, last_failure, half_open_calls, lost>>

StoreOpen(u) ==
    /\ UserAt(u, "trip")
    /\ circuit' = "Open"
    /\ moves(u, "stamp")
    /\ UNCHANGED <<failure_count, last_failure, half_open_calls, lost>>

StampTime(u) ==
    /\ UserAt(u, "stamp")
    /\ last_failure' = "recent"
    /\ moves(u, "idle")
    /\ UNCHANGED <<circuit, failure_count, half_open_calls, lost>>

-----------------------------------------------------------------------------

\* The work is dropped between allow and the record.
Lose(u) ==
    /\ UserAt(u, "work")
    /\ lost < MaxLost
    /\ lost' = lost + 1
    /\ moves(u, "idle")
    /\ UNCHANGED <<circuit, failure_count, last_failure, half_open_calls>>

ResetTimeoutPasses ==
    /\ last_failure = "recent"
    /\ last_failure' = "old"
    /\ UNCHANGED <<circuit, failure_count, half_open_calls, user, lost>>

\* The record ends the work one way or the other.
Settles(u) ==
    \/ LoadState(u) \/ CheckTimeout(u) \/ ResetProbes(u) \/ CountProbe(u)
    \/ Succeed(u) \/ StoreClosed(u) \/ ClearCount(u) \/ ClearTime(u)
    \/ Fail(u) \/ DecideToOpen(u) \/ StoreOpen(u) \/ StampTime(u)

BreakerNext == ResetTimeoutPasses \/ \E u \in Users : Settles(u) \/ Lose(u)

\* The users ask again and again, and time passes.
BreakerFairness ==
    WF_breakerVars(ResetTimeoutPasses) /\ \A u \in Users : WF_breakerVars(Settles(u))

BreakerSpec == BreakerInit /\ [][BreakerNext]_breakerVars /\ BreakerFairness

-----------------------------------------------------------------------------
(* Properties *)

BreakerTypeOK ==
    /\ circuit \in {"Closed", "Open", "HalfOpen"}
    /\ failure_count \in 0 .. MaxFailures
    /\ last_failure \in {"zero", "recent", "old"}
    /\ half_open_calls \in 0 .. HalfOpenMaxCalls

\* However often the work fails, the breaker lets a call through again ("连续 3
\* 次失败后熔断，60 秒后尝试恢复"): it is never shut for good.
BreakerRecovers == []<>(circuit = "Closed" \/ \E u \in Users : UserAt(u, "work"))

\* "Maximum calls allowed in half-open state".
HalfOpenIsLimited ==
    [][\A u \in Users : circuit = "HalfOpen" /\ circuit' = "HalfOpen" /\ UserAt(u, "work")'
         /\ ~UserAt(u, "work") => \A v \in Users \ {u} : ~UserAt(v, "work")]_breakerVars
=============================================================================
