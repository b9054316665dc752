----------------------------- MODULE GhostReviews -----------------------------
(***************************************************************************)
(* Reviews of learning episodes: the leases of GhostLedger (crates/        *)
(* storage/src/ghost_ledger.rs) and run_pending_background_reviews         *)
(* (crates/agent/src/ghost_background_review.rs), spawned at the end of    *)
(* every turn and at every tick, by every process that has the ledger      *)
(* open.  A worker claims the oldest episodes under one lease time and     *)
(* reviews them one after another; a second task renews the lease of the   *)
(* episode under review only.                                              *)
(*                                                                         *)
(* A worker that ends is taken up again as a new one, of another id: it    *)
(* touches only what it has claimed since.                                 *)
(***************************************************************************)
EXTENDS Naturals, FiniteSets

CONSTANTS
    Episodes,        \* 1 .. n, in the order of created_at
    Ghosts,          \* workers
    NoGhost,
    Limit,           \* episodes of one claim
    Poison,          \* episodes whose review fails every time
    MaxTroubles      \* stalls, deaths, failed calls and failed reviews (bound)

ASSUME GhostAssumption ==
    /\ Episodes \subseteq Nat \ {0}
    /\ NoGhost \notin Ghosts
    /\ Limit \in Nat /\ MaxTroubles \in Nat

VARIABLES
    status,          \* episode -> status; "none": not captured yet
    owner,           \* episode -> review_owner
    lease,           \* episode -> review_lease_until: "none", "held" or "over"
    completed,       \* episode -> number of completed review runs
    ghost,           \* worker -> what it does
    troubles

ghostVars == <<status, owner, lease, completed, ghost, troubles>>

NoWork == [pc |-> "idle", todo |-> {}, episode |-> 0, lost |-> FALSE]

GhostInit ==
    /\ status = [e \in Episodes |-> "none"]
    /\ owner = [e \in Episodes |-> NoGhost]
    /\ lease = [e \in Episodes |-> "none"]
    /\ completed = [e \in Episodes |-> 0]
    /\ ghost = [g \in Ghosts |-> NoWork]
    /\ troubles = 0

GhostAt(g, pc) == ghost[g].pc = pc
does(g, new) == ghost' = [ghost EXCEPT ![g] = new]
Trouble == troubles < MaxTroubles /\ troubles' = troubles + 1

\* Mutant of Owns: the lease is asked for, not the worker that has it.
Owns_Anyone(g, e) == owner[e] # NoGhost
Owns(g, e) == owner[e] = g

-----------------------------------------------------------------------------
(* The ledger *)

\* insert_episode, with the status of a decision to review
Capture(e) ==
    /\ status[e] = "none"
    /\ \A o \in Episodes : o < e => status[o] # "none"
    /\ status' = [status EXCEPT ![e] = "pending_review"]
    /\ UNCHANGED <<owner, lease, completed, ghost, troubles>>

\* Mutant of Expired: only a lease that was never set.
Expired_Unset(e) == status[e] = "reviewing" /\ lease[e] = "none"
Expired(e) == status[e] = "reviewing" /\ lease[e] # "held"

\* cleanup_expired_leases, before a claim
CleanUp(g) ==
    /\ GhostAt(g, "idle")
    /\ LET over == {e \in Episodes : Expired(e)} IN
       /\ status' = [e \in Episodes |-> IF e \in over THEN "review_failed" ELSE status[e]]
       /\ owner' = [e \in Episodes |-> IF e \in over THEN NoGhost ELSE owner[e]]
       /\ lease' = [e \in Episodes |-> IF e \in over THEN "none" ELSE lease[e]]
    /\ does(g, [NoWork EXCEPT !.pc = "claim"])
    /\ UNCHANGED <<completed, troubles>>

Claimable == {e \in Episodes : status[e] \in {"pending_review", "review_failed"} \/ Expired(e)}

\* The oldest of them.
Claimed == {e \in Claimable : Cardinality({o \in Claimable : o < e}) < Limit}

\* claim_reviewable_episodes
Claim(g) ==
    /\ GhostAt(g, "claim")
    /\ status' = [e \in Episodes |-> IF e \in Claimed THEN "reviewing" ELSE status[e]]
    /\ owner' = [e \in Episodes |-> IF e \in Claimed THEN g ELSE owner[e]]
    /\ lease' = [e \in Episodes |-> IF e \in Claimed THEN "held" ELSE lease[e]]
    /\ does(g, IF Claimed = {} THEN NoWork ELSE [ghost[g] EXCEPT !.pc = "next", !.todo = Claimed])
    /\ UNCHANGED <<completed, troubles>>

\* No heartbeat for REVIEW_LEASE_DURATION_SECS: of a worker that is dead, or
\* of one that is late, with this episode or with those before it.
LeaseRunsOut(e) ==
    /\ lease[e] = "held"
    /\ LET attended == \E g \in Ghosts : Owns(g, e) /\ e \in ghost[g].todo \cup {ghost[g].episode}
       IN IF attended THEN Trouble ELSE UNCHANGED troubles
    /\ lease' = [lease EXCEPT ![e] = "over"]
    /\ UNCHANGED <<status, owner, completed, ghost>>

-----------------------------------------------------------------------------
(* A worker *)

\* The next episode; its lease is renewed first.  One that was lost is left alone.
NextEpisode(g) ==
    /\ GhostAt(g, "next")
    /\ \/ ghost[g].todo = {} /\ does(g, NoWork) /\ UNCHANGED lease
       \/ \E e \in ghost[g].todo :
             /\ \A o \in ghost[g].todo : e <= o
             /\ IF Owns(g, e)
                THEN /\ lease' = [lease EXCEPT ![e] = "held"]
                     /\ does(g, [ghost[g] EXCEPT !.pc = "review", !.todo = @ \ {e}, !.episode = e])
                ELSE does(g, [ghost[g] EXCEPT !.todo = @ \ {e}]) /\ UNCHANGED lease
    /\ UNCHANGED <<status, owner, completed, troubles>>

\* The renewal fails: the episode keeps its lease and is passed over.
PassOver(g) ==
    /\ GhostAt(g, "next")
    /\ Trouble
    /\ \E e \in ghost[g].todo :
          /\ \A o \in ghost[g].todo : e <= o
          /\ does(g, [ghost[g] EXCEPT !.todo = @ \ {e}])
    /\ UNCHANGED <<status, owner, lease, completed>>

\* heartbeat_review_lease by the second task; it tells the review when the
\* lease is lost.
Heartbeat(g) ==
    /\ GhostAt(g, "review") /\ ~ghost[g].lost
    /\ IF Owns(g, ghost[g].episode)
       THEN /\ lease[ghost[g].episode] = "over"
            /\ lease' = [lease EXCEPT ![ghost[g].episode] = "held"]
            /\ UNCHANGED ghost
       ELSE does(g, [ghost[g] EXCEPT !.lost = TRUE]) /\ UNCHANGED lease
    /\ UNCHANGED <<status, owner, completed, troubles>>

\* insert_review_run_if_review_owned, and what the worker makes of the result
Insert(g, run) ==
    LET e == ghost[g].episode IN
    IF Owns(g, e)
    THEN /\ status' = [status EXCEPT ![e] = IF run = "completed" THEN "reviewed" ELSE "review_failed"]
         /\ completed' = [completed EXCEPT ![e] = IF run = "completed" THEN @ + 1 ELSE @]
         /\ does(g, [ghost[g] EXCEPT !.pc = "release"])
    ELSE does(g, [ghost[g] EXCEPT !.pc = "mark"]) /\ UNCHANGED <<status, completed>>

ReviewCompletes(g) ==
    /\ GhostAt(g, "review")
    /\ ghost[g].episode \notin Poison
    /\ Insert(g, "completed")
    /\ UNCHANGED <<owner, lease, troubles>>

\* The review fails, or stops because its lease is lost.
ReviewFails(g) ==
    /\ GhostAt(g, "review")
    /\ IF ghost[g].episode \in Poison \/ ghost[g].lost THEN UNCHANGED troubles ELSE Trouble
    /\ Insert(g, "failed")
    /\ UNCHANGED <<owner, lease>>

\* The run cannot be inserted.
InsertFails(g) ==
    /\ GhostAt(g, "review")
    /\ Trouble
    /\ does(g, [ghost[g] EXCEPT !.pc = "mark"])
    /\ UNCHANGED <<status, owner, lease, completed>>

\* update_episode_status_if_review_owned
MarkFailed(g) ==
    /\ GhostAt(g, "mark")
    /\ status' = IF Owns(g, ghost[g].episode)
                 THEN [status EXCEPT ![ghost[g].episode] = "review_failed"] ELSE status
    /\ does(g, [ghost[g] EXCEPT !.pc = "release"])
    /\ UNCHANGED <<owner, lease, completed, troubles>>

\* release_review_lease
Release(g) ==
    /\ GhostAt(g, "release")
    /\ LET e == ghost[g].episode IN
       IF Owns(g, e)
       THEN /\ owner' = [owner EXCEPT ![e] = NoGhost]
            /\ lease' = [lease EXCEPT ![e] = "none"]
       ELSE UNCHANGED <<owner, lease>>
    /\ does(g, [ghost[g] EXCEPT !.pc = "next", !.episode = 0, !.lost = FALSE])
    /\ UNCHANGED <<status, completed, troubles>>

GhostDies(g) ==
    /\ ~GhostAt(g, "idle")
    /\ Trouble
    /\ does(g, NoWork)
    /\ UNCHANGED <<status, owner, lease, completed>>

GhostStep(g) ==
    CleanUp(g) \/ Claim(g) \/ NextEpisode(g) \/ ReviewCompletes(g) \/ ReviewFails(g) \/ MarkFailed(g) \/ Release(g)

GhostNext ==
    \/ \E g \in Ghosts : GhostStep(g)
    \/ \E g \in Ghosts : PassOver(g) \/ Heartbeat(g) \/ InsertFails(g) \/ GhostDies(g)
    \/ \E e \in Episodes : Capture(e) \/ LeaseRunsOut(e)

\* Turns and ticks spawn workers, every review comes to an end (two rounds at
\* most), and time passes.
GhostFairness ==
    /\ \A g \in Ghosts : WF_ghostVars(GhostStep(g))
    /\ \A e \in Episodes : WF_ghostVars(LeaseRunsOut(e))

GhostSpec == GhostInit /\ [][GhostNext]_ghostVars /\ GhostFairness

-----------------------------------------------------------------------------
GhostWork == [pc : {"idle", "claim", "next", "review", "mark", "release"},
              todo : SUBSET Episodes, episode : Episodes \cup {0}, lost : BOOLEAN]

GhostTypeOK ==
    /\ status \in [Episodes -> {"none", "pending_review", "reviewing", "reviewed", "review_failed"}]
    /\ owner \in [Episodes -> Ghosts \cup {NoGhost}]
    /\ lease \in [Episodes -> {"none", "held", "over"}]
    /\ completed \in [Episodes -> Nat]
    /\ ghost \in [Ghosts -> GhostWork]
    /\ troubles \in 0 .. MaxTroubles

\* An episode has one completed review run when it is reviewed and none
\* before: a worker that lost its lease, and finishes late, neither records a
\* second run nor takes the status back.
ReviewedOnce == \A e \in Episodes : completed[e] = IF status[e] = "reviewed" THEN 1 ELSE 0

\* What a worker knows of the episodes it still has to work on: those it has
\* not lost are under review.
GhostsKnow == \A g \in Ghosts :
    /\ \A e \in ghost[g].todo : Owns(g, e) => status[e] = "reviewing"
    /\ ghost[g].pc \in {"review", "mark"} /\ Owns(g, ghost[g].episode) =>
          status[ghost[g].episode] = "reviewing"
    /\ ghost[g].episode \notin ghost[g].todo
    /\ (ghost[g].episode = 0) = (ghost[g].pc \in {"idle", "claim", "next"})

GhostInv == GhostTypeOK /\ ReviewedOnce /\ GhostsKnow

\* Every episode whose review can succeed is reviewed in the end, although a
\* failed one is taken up again each time.
EpisodesGetReviewed == \A e \in Episodes \ Poison : status[e] # "none" ~> status[e] = "reviewed"
=============================================================================
