---------------------------- MODULE ServicesProofs ----------------------------
(***************************************************************************)
(* Proofs about three services that the message tasks and the background   *)
(* workers share: the review of episodes (GhostReviews), the calls of a    *)
(* model (LlmCalls) and the throttle of reviews (LearningReview).  Each    *)
(* part has an inductive invariant and the property it is for.             *)
(***************************************************************************)
EXTENDS GhostReviews, LlmCalls, LearningReview, FiniteSetTheorems, TLAPS

-----------------------------------------------------------------------------
(* Reviews of episodes *)

\* The records a worker's steps write keep their type.
LEMMA GhostWorkFacts ==
    ASSUME NEW w \in GhostWork
    PROVE  /\ NoWork \in GhostWork /\ [NoWork EXCEPT !.pc = "claim"] \in GhostWork
           /\ w.todo \subseteq Episodes /\ w.episode \in Episodes \cup {0}
           /\ \A es \in SUBSET Episodes : [w EXCEPT !.pc = "next", !.todo = es] \in GhostWork
           /\ \A e \in w.todo :
                 /\ [w EXCEPT !.todo = @ \ {e}] \in GhostWork
                 /\ [w EXCEPT !.pc = "review", !.todo = @ \ {e}, !.episode = e] \in GhostWork
           /\ [w EXCEPT !.pc = "mark"] \in GhostWork /\ [w EXCEPT !.pc = "release"] \in GhostWork
           /\ [w EXCEPT !.lost = TRUE] \in GhostWork
           /\ [w EXCEPT !.pc = "next", !.episode = 0, !.lost = FALSE] \in GhostWork
<1>1. NoWork \in GhostWork /\ [NoWork EXCEPT !.pc = "claim"] \in GhostWork
  BY DEF GhostWork, NoWork
<1>2. w.todo \subseteq Episodes /\ w.episode \in Episodes \cup {0}
  BY DEF GhostWork
<1>3. ASSUME NEW es \in SUBSET Episodes PROVE [w EXCEPT !.pc = "next", !.todo = es] \in GhostWork
  BY DEF GhostWork
<1>4. ASSUME NEW e \in w.todo
      PROVE  /\ [w EXCEPT !.todo = @ \ {e}] \in GhostWork
             /\ [w EXCEPT !.pc = "review", !.todo = @ \ {e}, !.episode = e] \in GhostWork
  BY DEF GhostWork
<1>5. /\ [w EXCEPT !.pc = "mark"] \in GhostWork /\ [w EXCEPT !.pc = "release"] \in GhostWork
      /\ [w EXCEPT !.lost = TRUE] \in GhostWork
  BY DEF GhostWork
<1>6. [w EXCEPT !.pc = "next", !.episode = 0, !.lost = FALSE] \in GhostWork
  BY DEF GhostWork
<1>. QED
  BY <1>1, <1>2, <1>3, <1>4, <1>5, <1>6

LEMMA GhostTypeStep == GhostTypeOK /\ [GhostNext]_ghostVars => GhostTypeOK'
<1> SUFFICES ASSUME GhostTypeOK, [GhostNext]_ghostVars
             PROVE  GhostTypeOK'
  OBVIOUS
<1> USE GhostAssumption DEF GhostTypeOK, GhostAt, does, Trouble
<1>0. ASSUME NEW g \in Ghosts PROVE ghost[g] \in GhostWork
  OBVIOUS
<1>1. ASSUME NEW g \in Ghosts, CleanUp(g) PROVE GhostTypeOK'
  BY <1>1, GhostWorkFacts DEF CleanUp
<1>2. ASSUME NEW g \in Ghosts, Claim(g) PROVE GhostTypeOK'
  <2>1. Claimed \in SUBSET Episodes
    BY DEF Claimed, Claimable
  <2>2. IF Claimed = {} THEN ghost' = [ghost EXCEPT ![g] = NoWork]
        ELSE ghost' = [ghost EXCEPT ![g] = [ghost[g] EXCEPT !.pc = "next", !.todo = Claimed]]
    BY <1>2 DEF Claim
  <2>. QED
    BY <1>0, <1>2, <2>1, <2>2, GhostWorkFacts DEF Claim
<1>3. ASSUME NEW g \in Ghosts, NextEpisode(g) PROVE GhostTypeOK'
  <2>1. CASE does(g, NoWork)
    BY <1>0, <1>3, <2>1, GhostWorkFacts DEF NextEpisode
  <2>2. ASSUME NEW e \in ghost[g].todo,
               \/ does(g, [ghost[g] EXCEPT !.todo = @ \ {e}])
               \/ does(g, [ghost[g] EXCEPT !.pc = "review", !.todo = @ \ {e}, !.episode = e])
        PROVE  ghost' \in [Ghosts -> GhostWork]
    <3>1. /\ [ghost[g] EXCEPT !.todo = @ \ {e}] \in GhostWork
          /\ [ghost[g] EXCEPT !.pc = "review", !.todo = @ \ {e}, !.episode = e] \in GhostWork
      BY <1>0, GhostWorkFacts
    <3>. QED
      BY <2>2, <3>1
  <2>3. ghost[g].todo \subseteq Episodes
    BY <1>0, GhostWorkFacts
  <2>4. UNCHANGED lease \/ \E e \in Episodes : lease' = [lease EXCEPT ![e] = "held"]
    BY <1>3, <2>3 DEF NextEpisode
  <2>. QED
    BY <1>3, <2>1, <2>2, <2>4 DEF NextEpisode
<1>4. ASSUME NEW g \in Ghosts, NEW run \in {"completed", "failed"}, Insert(g, run),
             UNCHANGED <<owner, lease>>, troubles' \in 0 .. MaxTroubles
      PROVE  GhostTypeOK'
  <2>1. /\ [ghost[g] EXCEPT !.pc = "mark"] \in GhostWork
        /\ [ghost[g] EXCEPT !.pc = "release"] \in GhostWork
    BY <1>0, GhostWorkFacts
  <2>. QED
    BY <1>4, <2>1 DEF Insert
<1>5. ASSUME NEW g \in Ghosts, ReviewCompletes(g) PROVE GhostTypeOK'
  BY <1>4, <1>5 DEF ReviewCompletes
<1>6. ASSUME NEW g \in Ghosts, ReviewFails(g) PROVE GhostTypeOK'
  BY <1>4, <1>6 DEF ReviewFails
<1>7. ASSUME NEW g \in Ghosts, MarkFailed(g) PROVE GhostTypeOK'
  <2>1. [ghost[g] EXCEPT !.pc = "release"] \in GhostWork
    BY <1>0, GhostWorkFacts
  <2>. QED
    BY <1>7, <2>1 DEF MarkFailed
<1>8. ASSUME NEW g \in Ghosts, Release(g) PROVE GhostTypeOK'
  <2>1. [ghost[g] EXCEPT !.pc = "next", !.episode = 0, !.lost = FALSE] \in GhostWork
    BY <1>0, GhostWorkFacts
  <2>. QED
    BY <1>8, <2>1 DEF Release
<1>9. ASSUME NEW g \in Ghosts, PassOver(g) PROVE GhostTypeOK'
  <2>1. \A e \in ghost[g].todo : [ghost[g] EXCEPT !.todo = @ \ {e}] \in GhostWork
    BY <1>0, GhostWorkFacts
  <2>. QED
    <3>1. PICK e \in ghost[g].todo : does(g, [ghost[g] EXCEPT !.todo = @ \ {e}])
      BY <1>9 DEF PassOver
    <3>. QED
      BY <1>9, <2>1, <3>1 DEF PassOver
<1>10. ASSUME NEW g \in Ghosts, Heartbeat(g) PROVE GhostTypeOK'
  <2>1. [ghost[g] EXCEPT !.lost = TRUE] \in GhostWork
    BY <1>0, GhostWorkFacts
  <2>. QED
    BY <1>10, <2>1 DEF Heartbeat
<1>11. ASSUME NEW g \in Ghosts, InsertFails(g) PROVE GhostTypeOK'
  <2>1. [ghost[g] EXCEPT !.pc = "mark"] \in GhostWork
    BY <1>0, GhostWorkFacts
  <2>. QED
    BY <1>11, <2>1 DEF InsertFails
<1>12. ASSUME NEW g \in Ghosts, GhostDies(g) PROVE GhostTypeOK'
  <2>1. NoWork \in GhostWork
    BY <1>0, GhostWorkFacts
  <2>. QED
    BY <1>12, <2>1 DEF GhostDies
<1>13. ASSUME NEW e \in Episodes, Capture(e) PROVE GhostTypeOK'
  BY <1>13 DEF Capture
<1>14. ASSUME NEW e \in Episodes, LeaseRunsOut(e) PROVE GhostTypeOK'
  BY <1>14 DEF LeaseRunsOut
<1>15. CASE UNCHANGED ghostVars
  BY <1>15 DEF ghostVars
<1>. QED
  BY <1>1, <1>2, <1>3, <1>5, <1>6, <1>7, <1>8, <1>9, <1>10, <1>11, <1>12, <1>13, <1>14,
     <1>15 DEF GhostNext, GhostStep

\* A step of one worker leaves what the others know alone, and what it knows
\* itself holds again afterwards.
LEMMA GhostStepInv == GhostInv /\ [GhostNext]_ghostVars => GhostInv'
<1> SUFFICES ASSUME GhostInv, [GhostNext]_ghostVars
             PROVE  (ReviewedOnce /\ GhostsKnow)'
  BY GhostTypeStep DEF GhostInv
<1>0. GhostTypeOK'
  BY GhostTypeStep DEF GhostInv
<1> USE <1>0, GhostAssumption
    DEF GhostInv, GhostTypeOK, GhostWork, ReviewedOnce, GhostsKnow, Owns, GhostAt, does, NoWork
<1>1. ASSUME NEW g \in Ghosts, CleanUp(g) PROVE (ReviewedOnce /\ GhostsKnow)'
  BY <1>1 DEF CleanUp, Expired
<1>2. ASSUME NEW g \in Ghosts, Claim(g) PROVE (ReviewedOnce /\ GhostsKnow)'
  <2>1. Claimed \subseteq Claimable /\ Claimable \subseteq Episodes
    BY DEF Claimed, Claimable
  <2>2. ReviewedOnce'
    BY <1>2, <2>1 DEF Claim, Claimable, Expired
  <2>3. ASSUME NEW h \in Ghosts, h # g
        PROVE  ghost'[h] = ghost[h] /\ \A e \in Episodes : Owns(h, e)' =>
                 Owns(h, e) /\ status'[e] = status[e]
    BY <1>2, <2>1, <2>3 DEF Claim
  <2>4. /\ ghost'[g].episode = 0
        /\ ghost'[g].pc \in {"idle", "next"}
        /\ ghost'[g].todo \subseteq Claimed
    BY <1>2, <2>1 DEF Claim
  <2>5. GhostsKnow'
    BY <1>2, <2>1, <2>3, <2>4 DEF Claim
  <2>. QED
    BY <2>2, <2>5
<1>3. ASSUME NEW g \in Ghosts, NextEpisode(g) PROVE (ReviewedOnce /\ GhostsKnow)'
  <2>0. UNCHANGED <<status, owner, completed>> /\ ghost[g].episode = 0
    BY <1>3 DEF NextEpisode
  <2>1. CASE does(g, NoWork)
    BY <2>0, <2>1
  <2>2. ASSUME NEW e \in ghost[g].todo, ~Owns(g, e), does(g, [ghost[g] EXCEPT !.todo = @ \ {e}])
        PROVE  (ReviewedOnce /\ GhostsKnow)'
    BY <2>0, <2>2
  <2>3. ASSUME NEW e \in ghost[g].todo, Owns(g, e),
               does(g, [ghost[g] EXCEPT !.pc = "review", !.todo = @ \ {e}, !.episode = e])
        PROVE  (ReviewedOnce /\ GhostsKnow)'
    <3>1. /\ ghost'[g].pc = "review" /\ ghost'[g].episode = e
          /\ ghost'[g].todo = ghost[g].todo \ {e}
          /\ \A h \in Ghosts : h # g => ghost'[h] = ghost[h]
          /\ e # 0 /\ status[e] = "reviewing"
      BY <2>3
    <3>. QED
      BY <2>0, <2>3, <3>1
  <2>. QED
    BY <1>3, <2>1, <2>2, <2>3 DEF NextEpisode
<1>4. ASSUME NEW g \in Ghosts, ReviewCompletes(g) PROVE (ReviewedOnce /\ GhostsKnow)'
  <2>1. ReviewedOnce'
    BY <1>4 DEF ReviewCompletes, Insert
  <2>2. GhostsKnow'
    BY <1>4 DEF ReviewCompletes, Insert
  <2>. QED
    BY <2>1, <2>2
<1>5. ASSUME NEW g \in Ghosts, ReviewFails(g) PROVE (ReviewedOnce /\ GhostsKnow)'
  BY <1>5 DEF ReviewFails, Insert
<1>6. ASSUME NEW g \in Ghosts, MarkFailed(g) PROVE (ReviewedOnce /\ GhostsKnow)'
  BY <1>6 DEF MarkFailed
<1>7. ASSUME NEW g \in Ghosts, Release(g) PROVE (ReviewedOnce /\ GhostsKnow)'
  <2>1. /\ ghost'[g].pc = "next" /\ ghost'[g].episode = 0
        /\ ghost'[g].todo = ghost[g].todo
        /\ \A h \in Ghosts : h # g => ghost'[h] = ghost[h]
    BY <1>7 DEF Release
  <2>2. \A h \in Ghosts, e \in Episodes : Owns(h, e)' => Owns(h, e)
    BY <1>7 DEF Release
  <2>. QED
    BY <1>7, <2>1, <2>2 DEF Release
<1>8. ASSUME NEW g \in Ghosts, PassOver(g) PROVE (ReviewedOnce /\ GhostsKnow)'
  BY <1>8 DEF PassOver
<1>9. ASSUME NEW g \in Ghosts, Heartbeat(g) PROVE (ReviewedOnce /\ GhostsKnow)'
  BY <1>9 DEF Heartbeat
<1>10. ASSUME NEW g \in Ghosts, InsertFails(g) PROVE (ReviewedOnce /\ GhostsKnow)'
  BY <1>10 DEF InsertFails
<1>11. ASSUME NEW g \in Ghosts, GhostDies(g) PROVE (ReviewedOnce /\ GhostsKnow)'
  BY <1>11 DEF GhostDies
<1>12. ASSUME NEW e \in Episodes, Capture(e) PROVE (ReviewedOnce /\ GhostsKnow)'
  BY <1>12 DEF Capture
<1>13. ASSUME NEW e \in Episodes, LeaseRunsOut(e) PROVE (ReviewedOnce /\ GhostsKnow)'
  BY <1>13 DEF LeaseRunsOut
<1>14. CASE UNCHANGED ghostVars
  BY <1>14 DEF ghostVars
<1>. QED
  BY <1>1, <1>2, <1>3, <1>4, <1>5, <1>6, <1>7, <1>8, <1>9, <1>10, <1>11, <1>12, <1>13,
     <1>14 DEF GhostNext, GhostStep

\* However leases run out and workers die, an episode gets one completed run.
THEOREM ReviewedOnceHolds == GhostSpec => []ReviewedOnce
<1>1. GhostInit => GhostInv
  BY GhostAssumption
     DEF GhostInit, GhostInv, GhostTypeOK, ReviewedOnce, GhostsKnow, Owns, NoWork, GhostWork
<1>2. GhostInv => ReviewedOnce
  BY DEF GhostInv
<1>. QED
  BY <1>1, <1>2, GhostStepInv, PTL DEF GhostSpec
-----------------------------------------------------------------------------
(* Calls of a model *)

CallRecord == [pc : {"idle", "pick", "connect", "stream"}, attempt : Attempts,
               entry : Entries \cup {Nothing}, excluded : SUBSET Entries,
               tried : SUBSET Entries, revived : BOOLEAN, shown : SUBSET Attempts,
               result : {Nothing, "answer", "error"}]

\* A call that is well-formed and shows what it may show.
ShowsOwn(k) ==
    /\ k \in CallRecord
    /\ k.pc \in {"connect", "stream"} => k.entry \in Entries
    /\ k.result = "answer" => k.shown \subseteq {k.attempt}
    /\ k.result = "error" => k.shown = {}
    /\ k.pc \in {"pick", "connect"} => k.shown = {}
    /\ k.pc = "stream" => k.shown \subseteq {k.attempt}
    /\ k.pc # "idle" => k.result = Nothing

\* An attempt that ends without an answer shows nothing any more.
LEMMA NextAttemptFacts ==
    ASSUME NEW k, ShowsOwn(k), k.shown = {}, k.pc # "idle"
    PROVE  ShowsOwn(NextAttempt(k))
<1> USE CallAssumption DEF Attempts
<1>1. CASE k.attempt < MaxRetries
  <2>1. k.attempt + 1 \in 0 .. MaxRetries
    BY <1>1 DEF ShowsOwn, CallRecord
  <2>. QED
    BY <1>1, <2>1 DEF ShowsOwn, CallRecord, NextAttempt
<1>2. CASE ~(k.attempt < MaxRetries)
  <2>1. NextAttempt(k) = [pc |-> "idle", attempt |-> 0, entry |-> Nothing, excluded |-> {},
                          tried |-> {}, revived |-> FALSE, shown |-> {}, result |-> "error"]
    BY <1>2 DEF NextAttempt, NoCall
  <2>2. 0 \in 0 .. MaxRetries
    OBVIOUS
  <2>. QED
    BY <2>1, <2>2 DEF ShowsOwn, CallRecord
<1>. QED
  BY <1>1, <1>2

\* report keeps the types of the pool.
LEMMA ReportedFacts ==
    ASSUME NEW e \in Entries, NEW kind \in Kinds \cup {"Success"}, Reported(e, kind),
           health \in [Entries -> {"Healthy", "Cooling", "cooled", "Dead"}],
           fails \in [Entries -> 0 .. FailThreshold - 1]
    PROVE  /\ health' \in [Entries -> {"Healthy", "Cooling", "cooled", "Dead"}]
           /\ fails' \in [Entries -> 0 .. FailThreshold - 1]
<1>1. (fails[e] + 1) % FailThreshold \in 0 .. FailThreshold - 1
  BY CallAssumption
<1>2. health' \in [Entries -> {"Healthy", "Cooling", "cooled", "Dead"}]
  BY DEF Reported, Trips, Kinds
<1>3. 0 \in 0 .. FailThreshold - 1
  BY CallAssumption
<1>4. fails' \in [Entries -> 0 .. FailThreshold - 1]
  BY <1>1, <1>3 DEF Reported, Kinds
<1>. QED
  BY <1>2, <1>4

\* CallInv, said of each call by itself.
LEMMA CallInvOfEach ==
    CallInv <=>
      /\ health \in [Entries -> {"Healthy", "Cooling", "cooled", "Dead"}]
      /\ fails \in [Entries -> 0 .. FailThreshold - 1]
      /\ asked \in [Askers -> Entries \cup {Nothing}]
      /\ call \in [Callers -> CallRecord]
      /\ \A c \in Callers : ShowsOwn(call[c])
  BY DEF CallInv, CallTypeOK, ShownIsAnswer, CallShows, ShowsOwn, CallRecord

\* No step shows the text of an attempt that did not answer.
LEMMA CallStepInv == CallInv /\ [CallNext]_callVars => CallInv'
<1> SUFFICES ASSUME CallInv, [CallNext]_callVars
             PROVE  CallInv'
  OBVIOUS
<1>0. /\ health \in [Entries -> {"Healthy", "Cooling", "cooled", "Dead"}]
      /\ fails \in [Entries -> 0 .. FailThreshold - 1]
      /\ asked \in [Askers -> Entries \cup {Nothing}]
      /\ call \in [Callers -> CallRecord]
      /\ \A c \in Callers : ShowsOwn(call[c])
  BY CallInvOfEach
<1>a. ASSUME health' \in [Entries -> {"Healthy", "Cooling", "cooled", "Dead"}],
             fails' \in [Entries -> 0 .. FailThreshold - 1],
             asked' \in [Askers -> Entries \cup {Nothing}],
             call' \in [Callers -> CallRecord],
             \A c \in Callers : ShowsOwn(call'[c])
      PROVE  CallInv'
  BY <1>a DEF CallInv, CallTypeOK, ShownIsAnswer, CallShows, ShowsOwn, CallRecord
<1>b. ASSUME NEW c \in Callers, NEW new, ShowsOwn(new), goes(c, new)
      PROVE  call' \in [Callers -> CallRecord] /\ \A d \in Callers : ShowsOwn(call'[d])
  BY <1>0, <1>b DEF goes, ShowsOwn
<1>c. Recovering \in [Entries -> {"Healthy", "Cooling", "cooled", "Dead"}]
  BY <1>0 DEF Recovering
<1>d. ASSUME NEW e \in Entries
      PROVE  /\ Answering(e) \in [Callers -> CallRecord]
             /\ \A d \in Callers : ShowsOwn(Answering(e)[d])
             /\ \A d \in Callers : Answering(e)[d].shown = call[d].shown
  <2>1. ASSUME NEW k, ShowsOwn(k), NEW b \in BOOLEAN
        PROVE  ShowsOwn([k EXCEPT !.revived = b]) /\ [k EXCEPT !.revived = b].shown = k.shown
    BY <2>1 DEF ShowsOwn, CallRecord
  <2>2. ASSUME NEW d \in Callers
        PROVE  /\ Answering(e)[d] = [call[d] EXCEPT !.revived = call[d].revived \/ e \in call[d].tried]
               /\ (call[d].revived \/ e \in call[d].tried) \in BOOLEAN
    BY <1>0 DEF Answering
  <2>3. \A d \in Callers : ShowsOwn(Answering(e)[d]) /\ Answering(e)[d].shown = call[d].shown
    <3>1. TAKE d \in Callers
    <3> DEFINE b == call[d].revived \/ e \in call[d].tried
    <3>2. ShowsOwn(call[d]) /\ b \in BOOLEAN /\ Answering(e)[d] = [call[d] EXCEPT !.revived = b]
      BY <1>0, <2>2
    <3> HIDE DEF b
    <3>. QED
      BY <2>1, <3>2
  <2>4. \A d \in Callers : Answering(e)[d] \in CallRecord
    BY <2>3 DEF ShowsOwn
  <2>5. Answering(e) = [d \in Callers |-> Answering(e)[d]]
    BY DEF Answering
  <2>6. Answering(e) \in [Callers -> CallRecord]
    BY <2>4, <2>5
  <2>. QED
    BY <2>3, <2>6
<1>1. ASSUME NEW c \in Callers, Call(c) PROVE CallInv'
  <2>1. ShowsOwn(NoCall) /\ NoCall.shown = {} /\ NoCall.result = Nothing
    BY CallAssumption DEF ShowsOwn, CallRecord, NoCall, Attempts
  <2>2. ASSUME NEW k, ShowsOwn(k), k.shown = {}, k.result = Nothing
        PROVE  ShowsOwn([k EXCEPT !.pc = "pick"])
    BY <2>2, CallAssumption DEF ShowsOwn, CallRecord
  <2>3. ShowsOwn([NoCall EXCEPT !.pc = "pick"])
    BY <2>1, <2>2
  <2>. QED
    BY <1>0, <1>1, <1>a, <1>b, <2>3 DEF Call
<1>2. ASSUME NEW c \in Callers, Pick(c) PROVE CallInv'
  <2>1. ShowsOwn(call[c]) /\ call[c].pc = "pick" /\ call[c].shown = {}
    BY <1>0, <1>2 DEF Pick, Is, ShowsOwn
  <2>2. ShowsOwn(NextAttempt(call[c]))
    BY <2>1, NextAttemptFacts
  <2>3. ASSUME NEW e \in Entries
        PROVE  ShowsOwn([call[c] EXCEPT !.pc = "connect", !.entry = e, !.tried = @ \cup {e}])
    BY <2>1 DEF ShowsOwn, CallRecord
  <2>4. Preferred(Eligible(call[c].excluded)) \subseteq Entries
    BY DEF Preferred, Eligible
  <2>5. \E new : ShowsOwn(new) /\ goes(c, new)
    BY <1>2, <2>2, <2>3, <2>4 DEF Pick
  <2>. QED
    BY <1>0, <1>2, <1>a, <1>b, <1>c, <2>5 DEF Pick
<1>3. ASSUME NEW c \in Callers, Connects(c) PROVE CallInv'
  <2>1. ShowsOwn([call[c] EXCEPT !.pc = "stream"])
    BY <1>0, <1>3 DEF Connects, Is, ShowsOwn, CallRecord
  <2>. QED
    BY <1>0, <1>3, <1>a, <1>b, <2>1 DEF Connects
<1>4. ASSUME NEW c \in Callers, NEW kind \in Kinds, NEW connection \in BOOLEAN,
             ConnectFails(c, kind, connection)
      PROVE  CallInv'
  <2>1. ShowsOwn(call[c]) /\ call[c].pc = "connect" /\ call[c].shown = {} /\ call[c].entry \in Entries
    BY <1>0, <1>4 DEF ConnectFails, Is, ShowsOwn
  <2>2. ShowsOwn(NextAttempt(call[c]))
    BY <2>1, NextAttemptFacts
  <2>3. ShowsOwn(Excluding(call[c]))
    BY <2>1 DEF Excluding, ShowsOwn, CallRecord
  <2>4. \E new : ShowsOwn(new) /\ goes(c, new)
    BY <1>4, <2>2, <2>3 DEF ConnectFails
  <2>. QED
    BY <1>0, <1>4, <1>a, <1>b, <2>1, <2>4, ReportedFacts DEF ConnectFails
<1>5. ASSUME NEW c \in Callers, Delta(c) PROVE CallInv'
  <2>1. ShowsOwn(call[c]) /\ call[c].pc = "stream"
    BY <1>0, <1>5 DEF Delta, Is
  <2>2. ASSUME NEW k, ShowsOwn(k), k.pc = "stream"
        PROVE  ShowsOwn([k EXCEPT !.shown = @ \cup {k.attempt}])
    <3>1. /\ k \in CallRecord /\ k.entry \in Entries /\ k.shown \subseteq {k.attempt}
          /\ k.result = Nothing /\ k.attempt \in Attempts
      BY <2>2 DEF ShowsOwn, CallRecord
    <3>2. [k EXCEPT !.shown = @ \cup {k.attempt}] = [k EXCEPT !.shown = {k.attempt}]
      BY <3>1 DEF CallRecord
    <3>3. [k EXCEPT !.shown = {k.attempt}] \in CallRecord
      BY <3>1 DEF CallRecord
    <3>. QED
      BY <2>2, <3>1, <3>2, <3>3, CallAssumption DEF ShowsOwn, CallRecord
  <2>3. ShowsOwn([call[c] EXCEPT !.shown = @ \cup {call[c].attempt}])
    BY <2>1, <2>2
  <2>. QED
    BY <1>0, <1>5, <1>a, <1>b, <2>3 DEF Delta
<1>6. ASSUME NEW c \in Callers, StreamDone(c) PROVE CallInv'
  <2>1. ShowsOwn(call[c]) /\ call[c].pc = "stream" /\ call[c].entry \in Entries
    BY <1>0, <1>6 DEF StreamDone, Is, ShowsOwn
  <2> DEFINE new == [NoCall EXCEPT !.attempt = call[c].attempt, !.shown = call[c].shown,
                                   !.result = "answer"]
  <2>2. ShowsOwn(new)
    BY <2>1, CallAssumption DEF ShowsOwn, CallRecord, NoCall
  <2> HIDE DEF new
  <2>3. call' = [Answering(call[c].entry) EXCEPT ![c] = new]
    BY <1>6 DEF StreamDone, new
  <2>4. call' \in [Callers -> CallRecord] /\ \A d \in Callers : ShowsOwn(call'[d])
    BY <1>d, <2>1, <2>2, <2>3 DEF ShowsOwn
  <2>. QED
    BY <1>0, <1>6, <1>a, <2>1, <2>4, ReportedFacts DEF StreamDone
<1>7. ASSUME NEW c \in Callers, NEW kind \in Kinds, StreamBreaks(c, kind) PROVE CallInv'
  <2> DEFINE k == [call[c] EXCEPT !.shown = Withdrawn(call[c])]
  <2>1. ShowsOwn(call[c]) /\ call[c].pc = "stream" /\ call[c].entry \in Entries
    BY <1>0, <1>7 DEF StreamBreaks, Is, ShowsOwn
  <2>2. ShowsOwn(k) /\ k.shown = {} /\ k.pc # "idle"
    BY <2>1 DEF ShowsOwn, CallRecord, Withdrawn
  <2>3. ShowsOwn(NextAttempt(k))
    BY <2>2, NextAttemptFacts
  <2>. QED
    BY <1>0, <1>7, <1>a, <1>b, <2>1, <2>3, ReportedFacts DEF StreamBreaks
<1>8. ASSUME NEW c \in Callers, Cut(c) PROVE CallInv'
  <2>1. ShowsOwn(NoCall)
    BY CallAssumption DEF ShowsOwn, CallRecord, NoCall, Attempts
  <2>. QED
    BY <1>0, <1>8, <1>a, <1>b, <2>1 DEF Cut
<1>9. ASSUME NEW a \in Askers, Ask(a) PROVE CallInv'
  <2>1. Preferred(Eligible({})) \subseteq Entries
    BY DEF Preferred, Eligible
  <2>. QED
    BY <1>0, <1>9, <1>a, <1>c, <2>1 DEF Ask
<1>10. ASSUME NEW a \in Askers, NEW kind \in Kinds \cup {"Success"}, AskEnds(a, kind) PROVE CallInv'
  <2>1. asked[a] \in Entries
    BY <1>0, <1>10 DEF AskEnds
  <2>2. call' = call \/ call' = Answering(asked[a])
    BY <1>10 DEF AskEnds
  <2>3. call' \in [Callers -> CallRecord] /\ \A d \in Callers : ShowsOwn(call'[d])
    BY <1>0, <1>d, <2>1, <2>2
  <2>4. asked' \in [Askers -> Entries \cup {Nothing}]
    BY <1>0, <1>10 DEF AskEnds
  <2>. QED
    BY <1>0, <1>10, <1>a, <2>1, <2>3, <2>4, ReportedFacts DEF AskEnds
<1>11. ASSUME NEW e \in Entries, CooldownEnds(e) PROVE CallInv'
  <2>1. ASSUME NEW d \in Callers PROVE ShowsOwn([call[d] EXCEPT !.revived = ~Is(d, "idle")])
    BY <1>0 DEF ShowsOwn, CallRecord, Is
  <2>2. call' \in [Callers -> CallRecord] /\ \A d \in Callers : ShowsOwn(call'[d])
    BY <1>11, <2>1 DEF CooldownEnds, ShowsOwn
  <2>. QED
    BY <1>0, <1>11, <1>a, <2>2 DEF CooldownEnds
<1>12. CASE UNCHANGED callVars
  BY <1>0, <1>12, <1>a DEF callVars
<1>. QED
  BY <1>1, <1>2, <1>3, <1>4, <1>5, <1>6, <1>7, <1>8, <1>9, <1>10, <1>11, <1>12
     DEF CallNext, CallStep

\* The types of the pool and its calls, and what the client sees of each.
THEOREM CallInvariance == CallSpec => []CallInv
<1>1. CallInit => CallInv
  BY CallAssumption
     DEF CallInit, CallInv, CallTypeOK, ShownIsAnswer, CallShows, NoCall, Attempts
<1>. QED
  BY <1>1, CallStepInv, PTL DEF CallSpec

\* The client is left with the text of the attempt that answered and no other,
\* whatever fails, is retried or cut, for any pool and any number of turns.
THEOREM ShownIsAnswerHolds == CallSpec => []ShownIsAnswer
<1>1. CallInv => ShownIsAnswer
  BY DEF CallInv
<1>. QED
  BY <1>1, CallInvariance, PTL

-----------------------------------------------------------------------------
(* Fail-over *)

Pools == [Entries -> {"Healthy", "Cooling", "cooled", "Dead"}]
Counts == [Entries -> 0 .. FailThreshold - 1]

\* No entry of es comes back or is forgiven a failure, and none comes into service.
Worsens(h, f, h2, f2, es) ==
    /\ \A e \in es : /\ h2[e] # "cooled"
                     /\ h[e] # "Healthy" => h2[e] # "Healthy"
                     /\ h2[e] = "Healthy" => f[e] <= f2[e]
    /\ InService(h2) \subseteq InService(h)

\* There are at most FailThreshold strikes against an entry.
LEMMA StrikesBounded ==
    ASSUME IsFiniteSet(Entries), NEW h, NEW f, NEW k \in CallRecord
    PROVE  /\ IsFiniteSet(Strikes(h, f, k))
           /\ IsFiniteSet(k.tried)
           /\ Cardinality(Strikes(h, f, k)) \in Nat
           /\ Cardinality(Strikes(h, f, k)) <= Cardinality(k.tried) * FailThreshold
<1>1. IsFiniteSet(k.tried)
  <2>1. k.tried \subseteq Entries
    BY DEF CallRecord
  <2>. QED
    BY <2>1, FS_Subset
<1>2. IsFiniteSet(1 .. FailThreshold) /\ Cardinality(1 .. FailThreshold) = FailThreshold
  BY FS_Interval, CallAssumption
<1> DEFINE S == k.tried \X (1 .. FailThreshold)
<1>3. IsFiniteSet(S) /\ Cardinality(S) = Cardinality(k.tried) * FailThreshold
  BY <1>1, <1>2, FS_Product
<1>4. Strikes(h, f, k) \subseteq S
  BY DEF Strikes
<1> HIDE DEF S
<1>5. IsFiniteSet(Strikes(h, f, k)) /\ Cardinality(Strikes(h, f, k)) <= Cardinality(S)
  BY <1>3, <1>4, FS_Subset
<1>6. Cardinality(Strikes(h, f, k)) \in Nat
  BY <1>5, FS_CardinalityType
<1>. QED
  BY <1>1, <1>3, <1>5, <1>6

\* Strikes stay against a pool that worsens, the one counted in advance if the
\* entry the call lets go of did take it.
LEMMA StrikesStay ==
    ASSUME IsFiniteSet(Entries), NEW h \in Pools, NEW f \in Counts, NEW h2 \in Pools, NEW f2 \in Counts,
           NEW k \in CallRecord, NEW n \in CallRecord,
           n.tried = k.tried, Worsens(h, f, h2, f2, k.tried), k.entry # Nothing => k.entry \in k.tried,
           \/ n.entry = k.entry
           \/ k.entry # Nothing /\ (h2[k.entry] = "Healthy" => f[k.entry] + 1 <= f2[k.entry])
    PROVE  Cardinality(Strikes(h, f, k)) <= Cardinality(Strikes(h2, f2, n))
<1>1. k.tried \subseteq Entries
  BY DEF CallRecord
<1>2. ASSUME NEW s \in Strikes(h, f, k) PROVE s \in Strikes(h2, f2, n)
  <2>1. /\ s \in k.tried \X (1 .. FailThreshold) /\ s[1] \in k.tried /\ s[1] \in Entries
        /\ s[2] \in 1 .. FailThreshold
        /\ h[s[1]] # "Healthy" \/ s[2] <= f[s[1]] \/ (k.entry = s[1] /\ s[2] = f[s[1]] + 1)
    BY <1>1, <1>2 DEF Strikes
  <2>2. f[s[1]] \in Nat /\ f2[s[1]] \in Nat
    BY <2>1, CallAssumption DEF Counts
  <2>3. CASE h2[s[1]] # "Healthy"
    BY <2>1, <2>3 DEF Strikes
  <2>4. CASE h2[s[1]] = "Healthy"
    <3>1. h[s[1]] = "Healthy" /\ f[s[1]] <= f2[s[1]]
      BY <2>1, <2>4 DEF Worsens
    <3>2. CASE s[2] <= f[s[1]]
      BY <2>1, <2>2, <3>1, <3>2 DEF Strikes
    <3>3. CASE k.entry = s[1] /\ s[2] = f[s[1]] + 1
      <4>1. CASE f[s[1]] + 1 <= f2[s[1]]
        BY <2>1, <2>2, <3>3, <4>1 DEF Strikes
      <4>2. CASE ~(f[s[1]] + 1 <= f2[s[1]])
        <5>1. f2[s[1]] = f[s[1]] /\ n.entry = k.entry
          BY <2>2, <2>4, <3>1, <3>3, <4>2
        <5>. QED
          BY <2>1, <3>3, <5>1 DEF Strikes
      <4>. QED
        BY <4>1, <4>2
    <3>. QED
      BY <2>1, <3>1, <3>2, <3>3
  <2>. QED
    BY <2>3, <2>4
<1>3. Strikes(h, f, k) \subseteq Strikes(h2, f2, n)
  BY <1>2
<1>. QED
  BY <1>3, StrikesBounded, FS_Subset

\* The steps of others, and those that keep the entry.
LEMMA FairWhileHeld ==
    ASSUME IsFiniteSet(Entries), NEW h \in Pools, NEW f \in Counts, NEW h2 \in Pools, NEW f2 \in Counts,
           NEW k \in CallRecord, NEW n \in CallRecord,
           GivesUpFairly(h, f, k), Worsens(h, f, h2, f2, k.tried),
           n.tried = k.tried, n.excluded = k.excluded, n.entry = k.entry, n.attempt = k.attempt,
           n.pc = "pick" <=> k.pc = "pick"
    PROVE  GivesUpFairly(h2, f2, n)
<1>1. k.entry # Nothing => k.entry \in k.tried
  BY DEF GivesUpFairly
<1>2. Cardinality(Strikes(h, f, k)) <= Cardinality(Strikes(h2, f2, n))
  BY <1>1, StrikesStay
<1>3. Cardinality(Strikes(h, f, k)) \in Nat /\ Cardinality(Strikes(h2, f2, n)) \in Nat
  BY StrikesBounded
<1>4. AttemptsBegun(n) = AttemptsBegun(k) /\ AttemptsBegun(k) \in Nat
  BY CallAssumption DEF AttemptsBegun, CallRecord, Attempts
<1>5. InService(h2) \subseteq n.tried \/ AttemptsBegun(n) <= Cardinality(Strikes(h2, f2, n))
  <2>1. InService(h) \subseteq k.tried \/ AttemptsBegun(k) <= Cardinality(Strikes(h, f, k))
    BY DEF GivesUpFairly
  <2>2. InService(h2) \subseteq InService(h)
    BY DEF Worsens
  <2>3. CASE InService(h) \subseteq k.tried
    BY <2>2, <2>3
  <2>4. CASE AttemptsBegun(k) <= Cardinality(Strikes(h, f, k))
    BY <1>2, <1>3, <1>4, <2>4
  <2>. QED
    BY <2>1, <2>3, <2>4
<1>6. \A e \in n.tried : h2[e] # "cooled"
  BY DEF Worsens
<1>. QED
  BY <1>5, <1>6 DEF GivesUpFairly

\* A failure that is reported is the strike the attempt was begun with.
LEMMA FairWhenDropped ==
    ASSUME IsFiniteSet(Entries), NEW h \in Pools, NEW f \in Counts, NEW h2 \in Pools, NEW f2 \in Counts,
           NEW k \in CallRecord, NEW n \in CallRecord,
           GivesUpFairly(h, f, k), Worsens(h, f, h2, f2, k.tried), k.entry # Nothing,
           h2[k.entry] = "Healthy" => f[k.entry] + 1 <= f2[k.entry],
           n.tried = k.tried, n.excluded \subseteq k.tried, n.entry = Nothing,
           n.attempt <= k.attempt + 1, n.pc = "pick"
    PROVE  GivesUpFairly(h2, f2, n)
<1>1. k.entry # Nothing => k.entry \in k.tried
  BY DEF GivesUpFairly
<1>2. Cardinality(Strikes(h, f, k)) <= Cardinality(Strikes(h2, f2, n))
  BY <1>1, StrikesStay
<1>3. Cardinality(Strikes(h, f, k)) \in Nat /\ Cardinality(Strikes(h2, f2, n)) \in Nat
  BY StrikesBounded
<1>4. AttemptsBegun(n) <= AttemptsBegun(k) /\ AttemptsBegun(k) \in Nat /\ AttemptsBegun(n) \in Nat
  BY CallAssumption DEF AttemptsBegun, CallRecord, Attempts
<1>5. InService(h2) \subseteq n.tried \/ AttemptsBegun(n) <= Cardinality(Strikes(h2, f2, n))
  <2>1. InService(h) \subseteq k.tried \/ AttemptsBegun(k) <= Cardinality(Strikes(h, f, k))
    BY DEF GivesUpFairly
  <2>2. InService(h2) \subseteq InService(h)
    BY DEF Worsens
  <2>3. CASE InService(h) \subseteq k.tried
    BY <2>2, <2>3
  <2>4. CASE AttemptsBegun(k) <= Cardinality(Strikes(h, f, k))
    BY <1>2, <1>3, <1>4, <2>4
  <2>. QED
    BY <2>1, <2>3, <2>4
<1>6. \A e \in n.tried : h2[e] # "cooled"
  BY DEF Worsens
<1>. QED
  BY <1>5, <1>6 DEF GivesUpFairly

\* The attempt that begins has a strike to come that is not yet counted.
LEMMA FairWhenPicked ==
    ASSUME IsFiniteSet(Entries), NEW h \in Pools, NEW f \in Counts, NEW h2 \in Pools,
           NEW k \in CallRecord, NEW n \in CallRecord, NEW e \in Entries,
           GivesUpFairly(h, f, k), Worsens(h, f, h2, f, k.tried), k.entry = Nothing,
           h2[e] = "Healthy", e \in k.tried => h[e] = "Healthy",
           n.tried = k.tried \cup {e}, n.excluded = k.excluded, n.entry = e,
           n.attempt = k.attempt, n.pc = "connect"
    PROVE  GivesUpFairly(h2, f, n)
<1>0. k.tried \subseteq Entries /\ Nothing # e /\ f[e] \in 0 .. FailThreshold - 1
  BY CallAssumption DEF CallRecord, Counts
<1> DEFINE new == <<e, f[e] + 1>>
<1>1. new \in Strikes(h2, f, n)
  BY <1>0, CallAssumption DEF Strikes
<1>2. new \notin Strikes(h, f, k)
  <2>1. SUFFICES ASSUME new \in Strikes(h, f, k) PROVE FALSE
    OBVIOUS
  <2>2. new[1] = e /\ new[2] = f[e] + 1
    OBVIOUS
  <2>3. e \in k.tried /\ (h[e] # "Healthy" \/ f[e] + 1 <= f[e] \/ k.entry = e)
    BY <2>1, <2>2 DEF Strikes
  <2>. QED
    BY <1>0, <2>3
<1>3. Strikes(h, f, k) \subseteq Strikes(h2, f, n)
  <2>1. ASSUME NEW s \in Strikes(h, f, k) PROVE s \in Strikes(h2, f, n)
    <3>1. /\ s \in k.tried \X (1 .. FailThreshold) /\ s[1] \in k.tried
          /\ h[s[1]] # "Healthy" \/ s[2] <= f[s[1]] \/ (k.entry = s[1] /\ s[2] = f[s[1]] + 1)
      BY <2>1 DEF Strikes
    <3>2. s[1] # Nothing
      BY <1>0, <3>1, CallAssumption
    <3>3. h2[s[1]] # "Healthy" \/ s[2] <= f[s[1]]
      BY <3>1, <3>2 DEF Worsens
    <3>4. s \in n.tried \X (1 .. FailThreshold)
      BY <3>1
    <3>. QED
      BY <3>3, <3>4 DEF Strikes
  <2>. QED
    BY <2>1
<1>4. /\ IsFiniteSet(Strikes(h, f, k)) /\ IsFiniteSet(Strikes(h2, f, n))
      /\ Cardinality(Strikes(h, f, k)) \in Nat /\ Cardinality(Strikes(h2, f, n)) \in Nat
  BY StrikesBounded
<1> HIDE DEF new
<1>5. Cardinality(Strikes(h, f, k)) + 1 <= Cardinality(Strikes(h2, f, n))
  <2>1. /\ IsFiniteSet(Strikes(h, f, k) \cup {new})
        /\ Cardinality(Strikes(h, f, k) \cup {new}) = Cardinality(Strikes(h, f, k)) + 1
    BY <1>2, <1>4, FS_AddElement
  <2>2. Strikes(h, f, k) \cup {new} \subseteq Strikes(h2, f, n)
    BY <1>1, <1>3
  <2>. QED
    BY <1>4, <2>1, <2>2, FS_Subset
<1>6. AttemptsBegun(n) = AttemptsBegun(k) + 1 /\ AttemptsBegun(k) \in Nat
  BY <1>0, CallAssumption DEF AttemptsBegun, CallRecord, Attempts
<1>7. InService(h2) \subseteq n.tried \/ AttemptsBegun(n) <= Cardinality(Strikes(h2, f, n))
  <2>1. InService(h) \subseteq k.tried \/ AttemptsBegun(k) <= Cardinality(Strikes(h, f, k))
    BY DEF GivesUpFairly
  <2>2. InService(h2) \subseteq InService(h)
    BY DEF Worsens
  <2>3. CASE InService(h) \subseteq k.tried
    BY <2>2, <2>3
  <2>4. CASE AttemptsBegun(k) <= Cardinality(Strikes(h, f, k))
    BY <1>4, <1>5, <1>6, <2>4
  <2>. QED
    BY <2>1, <2>3, <2>4
<1>8. \A o \in n.tried : h2[o] # "cooled"
  BY DEF Worsens
<1>9. n.excluded \subseteq n.tried
  BY DEF GivesUpFairly
<1>. QED
  BY <1>0, <1>7, <1>8, <1>9 DEF GivesUpFairly

\* With attempts for FailThreshold failures of every entry but one, none is
\* left over at the end of the last.
LEMMA NoneLeftOver ==
    ASSUME IsFiniteSet(Entries), MaxRetries >= FailThreshold * (Cardinality(Entries) - 1),
           NEW h \in Pools, NEW f \in Counts, NEW k \in CallRecord,
           GivesUpFairly(h, f, k), k.attempt = MaxRetries, k.entry # Nothing
    PROVE  InService(h) \subseteq k.tried
<1>1. SUFFICES ASSUME ~(InService(h) \subseteq k.tried) PROVE FALSE
  OBVIOUS
<1>2. PICK e \in Entries : e \notin k.tried
  BY <1>1 DEF InService
<1>3. /\ MaxRetries + 1 <= Cardinality(Strikes(h, f, k))
      /\ Cardinality(Strikes(h, f, k)) \in Nat /\ IsFiniteSet(k.tried)
      /\ Cardinality(Strikes(h, f, k)) <= Cardinality(k.tried) * FailThreshold
  BY <1>1, StrikesBounded DEF GivesUpFairly, AttemptsBegun
<1>4. Cardinality(k.tried) <= Cardinality(Entries) - 1
  <2>1. Cardinality(k.tried \cup {e}) = Cardinality(k.tried) + 1
    BY <1>2, <1>3, FS_AddElement
  <2>2. k.tried \cup {e} \subseteq Entries
    BY DEF CallRecord
  <2>3. Cardinality(k.tried \cup {e}) <= Cardinality(Entries)
    BY <2>2, FS_Subset
  <2>4. Cardinality(k.tried) \in Nat /\ Cardinality(Entries) \in Nat
    BY <1>3, FS_CardinalityType
  <2>. QED
    BY <2>1, <2>3, <2>4
<1>5. Cardinality(k.tried) \in Nat /\ Cardinality(Entries) \in Nat
  BY <1>3, FS_CardinalityType
<1>6. \A x, y \in Nat : x <= y - 1 => x * FailThreshold <= FailThreshold * (y - 1)
  BY CallAssumption
<1>7. Cardinality(k.tried) * FailThreshold <= FailThreshold * (Cardinality(Entries) - 1)
  BY <1>4, <1>5, <1>6
<1>8. /\ Cardinality(k.tried) * FailThreshold \in Nat
      /\ FailThreshold * (Cardinality(Entries) - 1) \in Int /\ MaxRetries \in Nat
  BY <1>5, CallAssumption
<1>. QED
  BY <1>3, <1>7, <1>8

\* Reports keep or take out what they speak of; only an answer forgives.
LEMMA ReportWorsens ==
    ASSUME NEW e \in Entries, NEW kind \in Kinds \cup {"Success"}, Reported(e, kind),
           health \in Pools, fails \in Counts, NEW es \in SUBSET Entries,
           \A o \in es : health[o] # "cooled", kind = "Success" => e \notin es
    PROVE  /\ Worsens(health, fails, health', fails', es)
           /\ kind # "Success" /\ health'[e] = "Healthy" => fails[e] + 1 <= fails'[e]
<1>1. \A o \in Entries : o # e => health'[o] = health[o] /\ fails'[o] = fails[o]
  BY DEF Reported, Pools, Counts
<1>2. fails[e] \in Nat /\ fails[e] < FailThreshold /\ fails'[e] \in Nat
  BY ReportedFacts, CallAssumption DEF Pools, Counts
<1>3. health'[e] = "Healthy" => health[e] = "Healthy" /\ kind \in {"Transient", "Success"}
  BY DEF Reported, Pools, Kinds
<1>4. health'[e] = "cooled" => health[e] = "cooled"
  BY DEF Reported, Pools, Kinds
<1>5. kind = "Transient" /\ health'[e] = "Healthy" => fails'[e] = fails[e] + 1
  <2>1. SUFFICES ASSUME kind = "Transient", health'[e] = "Healthy" PROVE fails'[e] = fails[e] + 1
    OBVIOUS
  <2>2. ~Trips(e) /\ fails'[e] = (fails[e] + 1) % FailThreshold
    BY <2>1 DEF Reported, Pools, Counts
  <2>3. fails[e] + 1 < FailThreshold
    BY <1>2, <2>2, CallAssumption DEF Trips
  <2>4. \A x \in Nat : x < FailThreshold => x % FailThreshold = x
    BY CallAssumption
  <2>. QED
    BY <1>2, <2>2, <2>3, <2>4
<1>6. \A o \in es : /\ health'[o] # "cooled"
                    /\ health[o] # "Healthy" => health'[o] # "Healthy"
                    /\ health'[o] = "Healthy" => fails[o] <= fails'[o]
  <2>1. ASSUME NEW o \in es, o # e
        PROVE  /\ health'[o] # "cooled" /\ (health[o] # "Healthy" => health'[o] # "Healthy")
               /\ fails[o] <= fails'[o]
    <3>1. fails[o] \in Nat
      BY <2>1, CallAssumption DEF Counts
    <3>. QED
      BY <1>1, <2>1, <3>1
  <2>2. ASSUME e \in es
        PROVE  /\ health'[e] # "cooled" /\ (health[e] # "Healthy" => health'[e] # "Healthy")
               /\ health'[e] = "Healthy" => fails[e] <= fails'[e]
    BY <1>2, <1>3, <1>4, <1>5, <2>2
  <2>. QED
    BY <2>1, <2>2
<1>7. InService(health') \subseteq InService(health)
  BY <1>1, <1>3, <1>4 DEF InService
<1>8. kind # "Success" /\ health'[e] = "Healthy" => fails[e] + 1 <= fails'[e]
  BY <1>2, <1>3, <1>5
<1>. QED
  BY <1>6, <1>7, <1>8 DEF Worsens

LEMMA RecoveringWorsens ==
    ASSUME health \in Pools, fails \in Counts, NEW es \in SUBSET Entries,
           \A e \in es : health[e] # "cooled"
    PROVE  Worsens(health, fails, Recovering, fails, es) /\ Recovering \in Pools
<1>1. \A e \in es : fails[e] \in Nat
  BY CallAssumption DEF Counts
<1>. QED
  BY <1>1 DEF Worsens, Recovering, InService, Pools

LEMMA NothingWorsens ==
    ASSUME health \in Pools, fails \in Counts, NEW es \in SUBSET Entries,
           \A e \in es : health[e] # "cooled"
    PROVE  Worsens(health, fails, health, fails, es)
<1>1. \A e \in es : fails[e] \in Nat
  BY CallAssumption DEF Counts
<1>. QED
  BY <1>1 DEF Worsens

\* What NextAttempt returns, as GivesUpFairly sees it.
LEMMA NextAttemptTries ==
    ASSUME NEW k \in CallRecord, k.pc # "idle", k.result = Nothing
    PROVE  /\ k.attempt = MaxRetries => NextAttempt(k).pc = "idle"
           /\ k.attempt # MaxRetries =>
                 /\ NextAttempt(k).pc = "pick" /\ NextAttempt(k).attempt = k.attempt + 1
                 /\ NextAttempt(k).entry = Nothing /\ NextAttempt(k).excluded = {}
                 /\ NextAttempt(k).tried = k.tried /\ NextAttempt(k).revived = k.revived
                 /\ NextAttempt(k).result = Nothing
<1>1. k.attempt # MaxRetries <=> k.attempt < MaxRetries
  BY CallAssumption DEF CallRecord, Attempts
<1>2. CASE k.attempt = MaxRetries
  BY <1>1, <1>2 DEF NextAttempt, NoCall
<1>3. CASE k.attempt # MaxRetries
  BY <1>1, <1>3 DEF NextAttempt, CallRecord
<1>. QED
  BY <1>2, <1>3

LEMMA GiveUpStep ==
    ASSUME IsFiniteSet(Entries), CallInv, GiveUpInv, [CallNext]_callVars
    PROVE  GiveUpInv'
<1> DEFINE Tries(c) == call'[c].pc # "idle" /\ ~call'[c].revived
<1>0. /\ health \in Pools /\ fails \in Counts /\ call \in [Callers -> CallRecord]
      /\ \A c \in Callers : ShowsOwn(call[c])
  BY CallInvOfEach DEF Pools, Counts
<1>00. health' \in Pools /\ fails' \in Counts /\ call' \in [Callers -> CallRecord]
  <2>1. CallInv'
    BY CallStepInv
  <2>. QED
    BY <2>1 DEF CallInv, CallTypeOK, Pools, Counts, CallRecord
<1>a. ASSUME NEW c \in Callers, call[c].pc # "idle", ~call[c].revived
      PROVE  /\ GivesUpFairly(health, fails, call[c]) /\ call[c] \in CallRecord
             /\ call[c].tried \in SUBSET Entries
             /\ \A e \in call[c].tried : health[e] # "cooled"
  BY <1>0, <1>a DEF GiveUpInv, GivesUpFairly, CallRecord
<1>b. SUFFICES ASSUME NEW c \in Callers, Tries(c)
               PROVE  GivesUpFairly(health', fails', call'[c])
  BY DEF GiveUpInv
<1>c. call'[c] \in CallRecord /\ call[c] \in CallRecord
  BY <1>0, <1>00
\* Another's step, and one that keeps the entry.
<1>d. ASSUME call[c].pc # "idle", ~call[c].revived,
             Worsens(health, fails, health', fails', call[c].tried),
             call'[c].tried = call[c].tried, call'[c].excluded = call[c].excluded,
             call'[c].entry = call[c].entry, call'[c].attempt = call[c].attempt,
             call'[c].pc = "pick" <=> call[c].pc = "pick"
      PROVE  GivesUpFairly(health', fails', call'[c])
  BY <1>0, <1>00, <1>a, <1>c, <1>d, FairWhileHeld
<1>e. ASSUME call'[c] = call[c], Worsens(health, fails, health', fails', call[c].tried)
      PROVE  GivesUpFairly(health', fails', call'[c])
  BY <1>b, <1>d, <1>e
<1>f. ASSUME NEW d \in Callers, NEW new, goes(d, new), c # d
      PROVE  call'[c] = call[c]
  BY <1>0, <1>f DEF goes
<1>g. ASSUME NEW d \in Callers, NEW new, goes(d, new), c = d
      PROVE  call'[c] = new
  BY <1>0, <1>g DEF goes
<1>h. ASSUME health' = health, fails' = fails, call[c].pc # "idle", ~call[c].revived
      PROVE  Worsens(health, fails, health', fails', call[c].tried)
  BY <1>0, <1>a, <1>h, NothingWorsens
<1>1. ASSUME NEW d \in Callers, Call(d) PROVE GivesUpFairly(health', fails', call'[c])
  <2>1. CASE c = d
    <3>1. call'[c] = [NoCall EXCEPT !.pc = "pick"]
      BY <1>1, <1>g, <2>1 DEF Call
    <3>2. /\ call'[c].pc = "pick" /\ call'[c].entry = Nothing /\ call'[c].attempt = 0
          /\ call'[c].excluded = {} /\ call'[c].tried = {}
      BY <3>1 DEF NoCall
    <3>3. Cardinality(Strikes(health', fails', call'[c])) \in Nat
      BY <1>c, StrikesBounded
    <3>4. AttemptsBegun(call'[c]) = 0
      BY <3>2 DEF AttemptsBegun
    <3>. QED
      BY <3>2, <3>3, <3>4 DEF GivesUpFairly
  <2>2. CASE c # d
    BY <1>1, <1>b, <1>e, <1>f, <1>h, <2>2 DEF Call
  <2>. QED
    BY <2>1, <2>2
<1>2. ASSUME NEW d \in Callers, Pick(d) PROVE GivesUpFairly(health', fails', call'[c])
  <2>0. health' = Recovering /\ fails' = fails
    BY <1>2 DEF Pick
  <2>a. ASSUME call[c].pc # "idle", ~call[c].revived
        PROVE  Worsens(health, fails, health', fails', call[c].tried)
    BY <1>0, <1>a, <2>0, <2>a, RecoveringWorsens
  <2>1. CASE c # d
    <3>1. call'[c] = call[c]
      BY <1>2, <1>f, <2>1 DEF Pick
    <3>. QED
      BY <1>b, <1>e, <2>a, <3>1
  <2>2. CASE c = d
    <3>1. call[c].pc = "pick" /\ ShowsOwn(call[c]) /\ call[c].result = Nothing
      BY <1>0, <1>2, <2>2 DEF Pick, Is, ShowsOwn
    <3>2. CASE Eligible(call[c].excluded) = {} /\ goes(c, NextAttempt(call[c]))
      <4>1. call'[c] = NextAttempt(call[c])
        BY <1>g, <3>2
      <4>2. call[c].attempt # MaxRetries
        BY <1>b, <1>c, <3>1, <4>1, NextAttemptTries
      <4>3. /\ call'[c].pc = "pick" /\ call'[c].entry = Nothing /\ call'[c].excluded = {}
            /\ call'[c].tried = call[c].tried /\ call'[c].revived = call[c].revived
        BY <1>c, <3>1, <4>1, <4>2, NextAttemptTries
      <4>4. call[c].pc # "idle" /\ ~call[c].revived
        BY <1>b, <3>1, <4>3
      <4>5. InService(health) \subseteq call[c].tried
        <5>1. InService(health) \subseteq call[c].excluded
          BY <1>0, <3>2 DEF InService, Eligible, Recovering, Pools
        <5>. QED
          BY <1>a, <4>4, <5>1 DEF GivesUpFairly
      <4>6. Worsens(health, fails, health', fails', call[c].tried)
        BY <2>a, <4>4
      <4>. QED
        BY <4>3, <4>5, <4>6 DEF GivesUpFairly, Worsens
    <3>3. ASSUME NEW e \in Preferred(Eligible(call[c].excluded)),
                 goes(c, [call[c] EXCEPT !.pc = "connect", !.entry = e, !.tried = @ \cup {e}])
          PROVE  GivesUpFairly(health', fails', call'[c])
      <4>1. call'[c] = [call[c] EXCEPT !.pc = "connect", !.entry = e, !.tried = @ \cup {e}]
        BY <1>g, <3>3
      <4>2. /\ call'[c].pc = "connect" /\ call'[c].entry = e /\ call'[c].excluded = call[c].excluded
            /\ call'[c].tried = call[c].tried \cup {e} /\ call'[c].attempt = call[c].attempt
            /\ call'[c].revived = call[c].revived
        BY <1>c, <4>1 DEF CallRecord
      <4>3. call[c].pc # "idle" /\ ~call[c].revived
        BY <1>b, <3>1, <4>2
      <4>4. /\ GivesUpFairly(health, fails, call[c]) /\ call[c].entry = Nothing
            /\ Worsens(health, fails, health', fails', call[c].tried)
        BY <1>a, <2>a, <3>1, <4>3 DEF GivesUpFairly
      <4>5. e \in Entries /\ health'[e] = "Healthy"
        BY <2>0, <3>3 DEF Preferred, Eligible
      <4>6. e \in call[c].tried => health[e] = "Healthy"
        BY <1>0, <2>0, <4>4, <4>5 DEF GivesUpFairly, Recovering
      <4>. QED
        BY <1>0, <1>00, <1>c, <2>0, <4>2, <4>4, <4>5, <4>6, FairWhenPicked
    <3>. QED
      BY <1>2, <2>2, <3>2, <3>3 DEF Pick
  <2>. QED
    BY <2>1, <2>2
<1>3. ASSUME NEW d \in Callers, NEW new, goes(d, new), health' = health, fails' = fails,
             call[d].pc \in {"connect", "stream"}, new.pc \in {"connect", "stream"},
             new.tried = call[d].tried, new.excluded = call[d].excluded,
             new.entry = call[d].entry, new.attempt = call[d].attempt,
             new.revived = call[d].revived
      PROVE  GivesUpFairly(health', fails', call'[c])
  <2>1. CASE c = d
    BY <1>3, <1>b, <1>d, <1>g, <1>h, <2>1
  <2>2. CASE c # d
    BY <1>3, <1>b, <1>e, <1>f, <1>h, <2>2
  <2>. QED
    BY <2>1, <2>2
<1>4. ASSUME NEW d \in Callers, Connects(d) PROVE GivesUpFairly(health', fails', call'[c])
  <2> DEFINE new == [call[d] EXCEPT !.pc = "stream"]
  <2>1. /\ new.pc = "stream" /\ new.tried = call[d].tried /\ new.excluded = call[d].excluded
        /\ new.entry = call[d].entry /\ new.attempt = call[d].attempt /\ new.revived = call[d].revived
    BY <1>0 DEF CallRecord
  <2>2. goes(d, new) /\ call[d].pc = "connect" /\ health' = health /\ fails' = fails
    BY <1>4 DEF Connects, Is
  <2> HIDE DEF new
  <2>. QED
    BY <1>3, <2>1, <2>2
<1>5. ASSUME NEW d \in Callers, Delta(d) PROVE GivesUpFairly(health', fails', call'[c])
  <2> DEFINE new == [call[d] EXCEPT !.shown = @ \cup {call[d].attempt}]
  <2>1. /\ new.pc = call[d].pc /\ new.tried = call[d].tried /\ new.excluded = call[d].excluded
        /\ new.entry = call[d].entry /\ new.attempt = call[d].attempt /\ new.revived = call[d].revived
    BY <1>0 DEF CallRecord
  <2>2. goes(d, new) /\ call[d].pc = "stream" /\ health' = health /\ fails' = fails
    BY <1>5 DEF Delta, Is
  <2> HIDE DEF new
  <2>. QED
    BY <1>3, <2>1, <2>2
\* A failure the call reports of its entry.
<1>6. ASSUME NEW d \in Callers, NEW new, goes(d, new), NEW kind \in Kinds,
             Reported(call[d].entry, kind), call[d].pc \in {"connect", "stream"},
             \/ new.pc = "idle"
             \/ /\ new.pc = "pick" /\ new.tried = call[d].tried /\ new.entry = Nothing
                /\ new.excluded \subseteq call[d].excluded \cup {call[d].entry}
                /\ new.attempt <= call[d].attempt + 1 /\ new.revived = call[d].revived
      PROVE  GivesUpFairly(health', fails', call'[c])
  <2>0. call[d].entry \in Entries /\ kind # "Success"
    BY <1>0, <1>6 DEF ShowsOwn, Kinds
  <2>a. ASSUME call[c].pc # "idle", ~call[c].revived
        PROVE  /\ Worsens(health, fails, health', fails', call[c].tried)
               /\ health'[call[d].entry] = "Healthy" => fails[call[d].entry] + 1 <= fails'[call[d].entry]
    BY <1>0, <1>6, <1>a, <2>0, <2>a, ReportWorsens
  <2>1. CASE c # d
    BY <1>6, <1>b, <1>e, <1>f, <2>1, <2>a
  <2>2. CASE c = d
    <3>1. call'[c] = new
      BY <1>6, <1>g, <2>2
    <3>2. call[c].pc # "idle" /\ ~call[c].revived
      BY <1>6, <1>b, <2>2, <3>1
    <3>3. GivesUpFairly(health, fails, call[c])
      BY <1>a, <3>2
    <3>4. call[c].entry # Nothing /\ call'[c].excluded \subseteq call[c].tried
      BY <1>6, <1>b, <2>2, <3>1, <3>3 DEF GivesUpFairly
    <3>. QED
      BY <1>0, <1>00, <1>6, <1>b, <1>c, <2>2, <2>a, <3>1, <3>2, <3>3, <3>4, FairWhenDropped
  <2>. QED
    BY <2>1, <2>2
<1>7. ASSUME NEW k \in CallRecord, k.pc # "idle", k.result = Nothing
      PROVE  LET new == NextAttempt(k) IN
             \/ new.pc = "idle"
             \/ /\ new.pc = "pick" /\ new.tried = k.tried /\ new.entry = Nothing
                /\ new.excluded = {} /\ new.attempt <= k.attempt + 1 /\ new.revived = k.revived
  <2>1. k.attempt + 1 \in Nat
    BY <1>7, CallAssumption DEF CallRecord, Attempts
  <2>. QED
    BY <1>7, <2>1, NextAttemptTries
<1>8. ASSUME NEW d \in Callers, NEW kind \in Kinds, NEW connection \in BOOLEAN,
             ConnectFails(d, kind, connection)
      PROVE  GivesUpFairly(health', fails', call'[c])
  <2>0. /\ call[d].pc = "connect" /\ call[d].result = Nothing /\ call[d] \in CallRecord
        /\ Reported(call[d].entry, kind)
    BY <1>0, <1>8 DEF ConnectFails, Is, ShowsOwn
  <2>1. CASE connection
    <3> DEFINE new == Excluding(call[d])
    <3>1. /\ new.pc = "pick" /\ new.tried = call[d].tried /\ new.entry = Nothing
          /\ new.excluded = call[d].excluded \cup {call[d].entry}
          /\ new.attempt = call[d].attempt /\ new.revived = call[d].revived
      BY <2>0 DEF Excluding, CallRecord
    <3>2. goes(d, new)
      BY <1>8, <2>1 DEF ConnectFails
    <3>3. new.attempt <= call[d].attempt + 1
      BY <2>0, <3>1, CallAssumption DEF CallRecord, Attempts
    <3> HIDE DEF new
    <3>. QED
      BY <1>6, <2>0, <3>1, <3>2, <3>3
  <2>2. CASE ~connection
    <3> DEFINE new == NextAttempt(call[d])
    <3>1. goes(d, new)
      BY <1>8, <2>2 DEF ConnectFails
    <3>2. \/ new.pc = "idle"
          \/ /\ new.pc = "pick" /\ new.tried = call[d].tried /\ new.entry = Nothing
             /\ new.excluded = {} /\ new.attempt <= call[d].attempt + 1 /\ new.revived = call[d].revived
      BY <1>7, <2>0
    <3> HIDE DEF new
    <3>. QED
      BY <1>6, <2>0, <3>1, <3>2
  <2>. QED
    BY <2>1, <2>2
<1>9. ASSUME NEW d \in Callers, NEW kind \in Kinds, StreamBreaks(d, kind)
      PROVE  GivesUpFairly(health', fails', call'[c])
  <2> DEFINE k == [call[d] EXCEPT !.shown = Withdrawn(call[d])]
             new == NextAttempt(k)
  <2>0. /\ call[d].pc = "stream" /\ call[d].result = Nothing /\ call[d] \in CallRecord
        /\ Reported(call[d].entry, kind) /\ goes(d, new)
    BY <1>0, <1>9 DEF StreamBreaks, Is, ShowsOwn
  <2>1. /\ k \in CallRecord /\ k.pc = "stream" /\ k.result = Nothing /\ k.tried = call[d].tried
        /\ k.attempt = call[d].attempt /\ k.revived = call[d].revived
    BY <2>0 DEF CallRecord, Withdrawn
  <2> HIDE DEF k
  <2>2. \/ new.pc = "idle"
        \/ /\ new.pc = "pick" /\ new.tried = call[d].tried /\ new.entry = Nothing
           /\ new.excluded = {} /\ new.attempt <= call[d].attempt + 1 /\ new.revived = call[d].revived
    BY <1>7, <2>1
  <2> HIDE DEF new
  <2>. QED
    BY <1>6, <2>0, <2>2
\* An answer: those that have tried the entry are revived by it.
<1>10. ASSUME NEW e \in Entries, Reported(e, "Success"),
              call'[c] = [call[c] EXCEPT !.revived = @ \/ e \in call[c].tried]
       PROVE  GivesUpFairly(health', fails', call'[c])
  <2>1. /\ call'[c].pc = call[c].pc /\ call'[c].tried = call[c].tried
        /\ call'[c].excluded = call[c].excluded /\ call'[c].entry = call[c].entry
        /\ call'[c].attempt = call[c].attempt
        /\ call'[c].revived = (call[c].revived \/ e \in call[c].tried)
    BY <1>10, <1>c DEF CallRecord
  <2>2. call[c].pc # "idle" /\ ~call[c].revived /\ e \notin call[c].tried
    BY <1>b, <2>1
  <2>3. Worsens(health, fails, health', fails', call[c].tried)
    BY <1>0, <1>10, <1>a, <2>2, ReportWorsens
  <2>. QED
    BY <1>d, <2>1, <2>2, <2>3
<1>11. ASSUME NEW d \in Callers, StreamDone(d) PROVE GivesUpFairly(health', fails', call'[c])
  <2>1. call[d].entry \in Entries /\ Reported(call[d].entry, "Success")
    BY <1>0, <1>11 DEF StreamDone, Is, ShowsOwn
  <2>2. CASE c # d
    BY <1>10, <1>11, <2>1, <2>2 DEF StreamDone, Answering
  <2>3. CASE c = d
    <3>1. call'[c].pc = "idle"
      BY <1>11, <2>3 DEF StreamDone, Answering, NoCall
    <3>. QED
      BY <1>b, <3>1
  <2>. QED
    BY <2>2, <2>3
<1>12. ASSUME NEW d \in Callers, Cut(d) PROVE GivesUpFairly(health', fails', call'[c])
  <2>1. CASE c = d
    BY <1>12, <1>b, <1>g, <2>1 DEF Cut, NoCall
  <2>2. CASE c # d
    BY <1>12, <1>b, <1>e, <1>f, <1>h, <2>2 DEF Cut
  <2>. QED
    BY <2>1, <2>2
<1>13. ASSUME NEW a \in Askers, Ask(a) PROVE GivesUpFairly(health', fails', call'[c])
  <2>1. health' = Recovering /\ fails' = fails /\ call' = call
    BY <1>13 DEF Ask
  <2>2. call[c].pc # "idle" /\ ~call[c].revived
    BY <1>b, <2>1
  <2>. QED
    BY <1>0, <1>a, <1>e, <2>1, <2>2, RecoveringWorsens
<1>14. ASSUME NEW a \in Askers, NEW kind \in Kinds \cup {"Success"}, AskEnds(a, kind)
       PROVE  GivesUpFairly(health', fails', call'[c])
  <2>1. asked[a] \in Entries /\ Reported(asked[a], kind)
    BY <1>14, CallInvOfEach DEF AskEnds
  <2>2. CASE kind = "Success"
    BY <1>10, <1>14, <2>1, <2>2 DEF AskEnds, Answering
  <2>3. CASE kind # "Success"
    <3>1. call' = call
      BY <1>14, <2>3 DEF AskEnds
    <3>2. call[c].pc # "idle" /\ ~call[c].revived
      BY <1>b, <3>1
    <3>. QED
      BY <1>0, <1>a, <1>e, <2>1, <2>3, <3>1, <3>2, ReportWorsens
  <2>. QED
    BY <2>2, <2>3
<1>15. ASSUME NEW e \in Entries, CooldownEnds(e) PROVE GivesUpFairly(health', fails', call'[c])
  <2>1. call'[c] = [call[c] EXCEPT !.revived = ~Is(c, "idle")]
    BY <1>15 DEF CooldownEnds
  <2>2. call'[c].pc = call[c].pc /\ call'[c].revived = (call[c].pc # "idle")
    BY <1>c, <2>1 DEF CallRecord, Is
  <2>. QED
    BY <1>b, <2>2
<1>16. ASSUME UNCHANGED callVars PROVE GivesUpFairly(health', fails', call'[c])
  BY <1>16, <1>b, <1>e, <1>h DEF callVars
<1>. QED
  BY <1>1, <1>2, <1>4, <1>5, <1>8, <1>9, <1>11, <1>12, <1>13, <1>14, <1>15, <1>16
  DEF CallNext, CallStep

\* A pool starts with nothing tried, so nothing is owed.
LEMMA GiveUpInitHolds == CallInit => GiveUpInv
  BY DEF CallInit, GiveUpInv, NoCall

\* Only the end of its last attempt leaves a call with an error.
LEMMA ErrorIsTheLast ==
    ASSUME IsFiniteSet(Entries), MaxRetries >= FailThreshold * (Cardinality(Entries) - 1),
           CallInv, GiveUpInv, [CallNext]_callVars, NEW c \in Callers,
           call[c].pc # "idle", call'[c].result = "error", ~call[c].revived
    PROVE  {e \in Entries : health'[e] = "Healthy"} \subseteq call[c].tried
<1>0. /\ health \in Pools /\ fails \in Counts /\ call \in [Callers -> CallRecord]
      /\ \A d \in Callers : ShowsOwn(call[d])
  BY CallInvOfEach DEF Pools, Counts
<1>1. /\ call[c] \in CallRecord /\ call[c].result = Nothing /\ Nothing # "error"
      /\ GivesUpFairly(health, fails, call[c])
  BY <1>0, CallAssumption DEF ShowsOwn, GiveUpInv
<1>a. ASSUME NEW new, new.result = Nothing PROVE ~goes(c, new)
  BY <1>0, <1>1, <1>a DEF goes
<1>b. ASSUME NEW d \in Callers, NEW new, goes(d, new) PROVE d = c
  BY <1>0, <1>1, <1>b DEF goes
<1>c. ASSUME InService(health) \subseteq call[c].tried,
             \A e \in Entries : health'[e] = "Healthy" => health[e] \in {"Healthy", "cooled"}
      PROVE  {e \in Entries : health'[e] = "Healthy"} \subseteq call[c].tried
  BY <1>c DEF InService
<1>d. ASSUME NEW e \in Entries, NEW kind \in Kinds \cup {"Success"}, Reported(e, kind)
      PROVE  \A o \in Entries : health'[o] = "Healthy" => health[o] \in {"Healthy", "cooled"}
  BY <1>0, <1>d DEF Reported, Pools, Kinds
\* The last attempt of a call that holds an entry.
<1>e. ASSUME NEW kind \in Kinds, Reported(call[c].entry, kind), call[c].pc \in {"connect", "stream"},
             call[c].attempt = MaxRetries
      PROVE  {e \in Entries : health'[e] = "Healthy"} \subseteq call[c].tried
  <2>1. call[c].entry \in Entries /\ call[c].entry # Nothing
    BY <1>0, <1>e, CallAssumption DEF ShowsOwn
  <2>2. InService(health) \subseteq call[c].tried
    BY <1>0, <1>1, <1>e, <2>1, NoneLeftOver
  <2>. QED
    BY <1>c, <1>d, <1>e, <2>1, <2>2
<1>f. ASSUME NEW d \in Callers, d # c, NEW e \in Entries
      PROVE  Answering(e)[c].result = Nothing
  BY <1>1 DEF Answering, CallRecord
<1>2. ASSUME NEW d \in Callers, Call(d) PROVE FALSE
  BY <1>2, <1>a, <1>b DEF Call, NoCall
<1>3. ASSUME NEW d \in Callers, Pick(d)
      PROVE  {e \in Entries : health'[e] = "Healthy"} \subseteq call[c].tried
  <2>1. Pick(c)
    BY <1>3, <1>b DEF Pick
  <2>2. ASSUME NEW e \in Entries
        PROVE  [call[c] EXCEPT !.pc = "connect", !.entry = e, !.tried = @ \cup {e}].result = Nothing
    BY <1>1 DEF CallRecord
  <2>3. Eligible(call[c].excluded) = {} /\ health' = Recovering
    BY <1>a, <2>1, <2>2 DEF Pick, Preferred, Eligible
  <2>4. InService(health) \subseteq call[c].tried
    BY <1>0, <1>1, <2>3 DEF InService, Eligible, Recovering, Pools, GivesUpFairly
  <2>. QED
    BY <1>0, <1>c, <2>3, <2>4 DEF Recovering
<1>4. ASSUME NEW d \in Callers, Connects(d) PROVE FALSE
  <2>1. Connects(c)
    BY <1>4, <1>b DEF Connects
  <2>. QED
    BY <1>1, <1>a, <2>1 DEF Connects, CallRecord
<1>5. ASSUME NEW d \in Callers, Delta(d) PROVE FALSE
  <2>1. Delta(c)
    BY <1>5, <1>b DEF Delta
  <2>. QED
    BY <1>1, <1>a, <2>1 DEF Delta, CallRecord
<1>6. ASSUME NEW d \in Callers, NEW kind \in Kinds, NEW connection \in BOOLEAN,
             ConnectFails(d, kind, connection)
      PROVE  {e \in Entries : health'[e] = "Healthy"} \subseteq call[c].tried
  <2>1. ConnectFails(c, kind, connection) /\ call[c].pc = "connect" /\ Reported(call[c].entry, kind)
    BY <1>6, <1>b DEF ConnectFails, Is
  <2>2. Excluding(call[c]).result = Nothing
    BY <1>1 DEF Excluding, CallRecord
  <2>3. goes(c, NextAttempt(call[c]))
    BY <1>a, <2>1, <2>2 DEF ConnectFails
  <2>4. call[c].attempt = MaxRetries
    BY <1>1, <1>a, <2>3, NextAttemptTries
  <2>. QED
    BY <1>e, <2>1, <2>4
<1>7. ASSUME NEW d \in Callers, NEW kind \in Kinds, StreamBreaks(d, kind)
      PROVE  {e \in Entries : health'[e] = "Healthy"} \subseteq call[c].tried
  <2> DEFINE k == [call[c] EXCEPT !.shown = Withdrawn(call[c])]
  <2>1. /\ StreamBreaks(c, kind) /\ call[c].pc = "stream" /\ Reported(call[c].entry, kind)
        /\ goes(c, NextAttempt(k))
    BY <1>7, <1>b DEF StreamBreaks, Is
  <2>2. k \in CallRecord /\ k.pc = "stream" /\ k.result = Nothing /\ k.attempt = call[c].attempt
    BY <1>1, <2>1 DEF CallRecord, Withdrawn
  <2> HIDE DEF k
  <2>3. call[c].attempt = MaxRetries
    BY <1>a, <2>1, <2>2, NextAttemptTries
  <2>. QED
    BY <1>e, <2>1, <2>3
<1>8. ASSUME NEW d \in Callers, StreamDone(d) PROVE FALSE
  <2>1. call[d].entry \in Entries
    BY <1>0, <1>8 DEF StreamDone, Is, ShowsOwn
  <2>2. CASE d # c
    <3>1. call'[c] = Answering(call[d].entry)[c]
      BY <1>8, <2>2 DEF StreamDone, Answering
    <3>. QED
      BY <1>1, <1>f, <2>1, <2>2, <3>1
  <2>3. CASE d = c
    BY <1>8, <2>3 DEF StreamDone, Answering, NoCall
  <2>. QED
    BY <2>2, <2>3
<1>9. ASSUME NEW d \in Callers, Cut(d) PROVE FALSE
  BY <1>9, <1>a, <1>b DEF Cut, NoCall
<1>10. ASSUME NEW a \in Askers, Ask(a) PROVE FALSE
  BY <1>1, <1>10 DEF Ask
<1>11. ASSUME NEW a \in Askers, NEW kind \in Kinds \cup {"Success"}, AskEnds(a, kind) PROVE FALSE
  <2>1. \A e \in Entries : Answering(e)[c].result = Nothing
    BY <1>1 DEF Answering, CallRecord
  <2>2. asked[a] \in Entries
    BY <1>11, CallInvOfEach DEF AskEnds
  <2>. QED
    BY <1>1, <1>11, <2>1, <2>2 DEF AskEnds
<1>12. ASSUME NEW e \in Entries, CooldownEnds(e) PROVE FALSE
  BY <1>1, <1>12 DEF CooldownEnds, CallRecord
<1>13. ASSUME UNCHANGED callVars PROVE FALSE
  BY <1>1, <1>13 DEF callVars
<1>. QED
  BY <1>2, <1>3, <1>4, <1>5, <1>6, <1>7, <1>8, <1>9, <1>10, <1>11, <1>12, <1>13
  DEF CallNext, CallStep

\* For any pool with attempts for FailThreshold failures of every entry but one
\* (the defaults, 3 of both, suffice for two entries): a call that gives up has
\* tried every entry in service, unless it was revived.
THEOREM GivesUpLastHolds ==
    ASSUME IsFiniteSet(Entries), MaxRetries >= FailThreshold * (Cardinality(Entries) - 1)
    PROVE  CallSpec => GivesUpLast
<1>0. CallSpec => []CallInv
  BY CallInvariance
<1>1. CallInit => GiveUpInv
  BY GiveUpInitHolds
<1>2. CallInv /\ GiveUpInv /\ [CallNext]_callVars => GiveUpInv'
  BY GiveUpStep
<1>3. CallInv /\ GiveUpInv /\ [CallNext]_callVars
        => [\A c \in Callers :
              call[c].pc # "idle" /\ call'[c].result = "error" /\ ~call[c].revived
                 => {e \in Entries : health'[e] = "Healthy"} \subseteq call[c].tried]_callVars
  BY ErrorIsTheLast
<1>. QED
  BY <1>0, <1>1, <1>2, <1>3, PTL DEF CallSpec, GivesUpLast
-----------------------------------------------------------------------------
(* Reviews a turn asks for *)

\* A turn that has the slots its place in the code entitles it to.
RightSlots(l) ==
    /\ l \in LearnerRecord
    /\ "check" \in l.holds <=>
          l.pc \in {"dedup", "record", "nudge"} /\ ~(l.kind = "skill" /\ l.mode = "Memory")
    /\ l.pc \in {"throttle", "reserve"} => ~(l.kind = "skill" /\ l.mode = "Memory")
    /\ "guard" \in l.holds <=> l.mode # "None"
    /\ l.pc \in {"idle", "loop", "model", "checked"} => (l.kind = "memory" <=> l.pc = "idle")
    /\ l.kind = "memory" => l.mode = "None"
    /\ ~LongTurns /\ l.mode \in {"Skill", "Combined"} =>
          l.pc \notin {"throttle", "reserve", "dedup", "record", "nudge"}

NudgedLately == ~LongTurns =>
    \A t \in Learners : learner[t].mode \in {"Skill", "Combined"} => "skill" \in lately

Slots == Cardinality(Holders("check")) + Cardinality(Holders("guard")) + Cardinality(Reviewing)

\* The part of LearnTypeOK that is not about the turns.
ThrottleTypeOK ==
    /\ active \in 0 .. MaxReviews
    /\ cooling \in BOOLEAN
    /\ count \in [NudgeKinds -> 0 .. SoftThreshold]
    /\ lately \subseteq NudgeKinds
    /\ recent \subseteq NudgeKinds \cup {"combined"}
    /\ review \in [Reviewers -> {"none", "running", "stamping"}]

SlotsCount == Slots <= active /\ (LongTurns \/ active = Slots)

LEMMA LearnInvOfEach ==
    LearnInv <=>
      /\ ThrottleTypeOK /\ NudgedLately /\ SlotsCount
      /\ learner \in [Learners -> LearnerRecord]
      /\ \A t \in Learners : RightSlots(learner[t])
<1>1. LearnInv => /\ ThrottleTypeOK /\ learner \in [Learners -> LearnerRecord]
                  /\ NudgedLately /\ \A t \in Learners : RightSlots(learner[t])
  BY DEF LearnInv, LearnTypeOK, ThrottleTypeOK, LearnersHold, NudgedLately, RightSlots, Covered
<1>2. LearnInv => SlotsCount
  BY DEF LearnInv, SlotsCount, Slots, SlotsAreOwned
<1>3. ASSUME ThrottleTypeOK, NudgedLately, SlotsCount, learner \in [Learners -> LearnerRecord],
             \A t \in Learners : RightSlots(learner[t])
      PROVE  LearnInv
  <2>1. LearnTypeOK
    BY <1>3 DEF ThrottleTypeOK, LearnTypeOK
  <2>2. LearnersHold
    BY <1>3 DEF LearnersHold, RightSlots, Covered, NudgedLately
  <2>. QED
    BY <1>3, <2>1, <2>2 DEF LearnInv, SlotsCount, Slots, SlotsAreOwned
<1>. QED
  BY <1>1, <1>2, <1>3

Has(l, slot) == IF slot \in l.holds THEN 1 ELSE 0

\* The slots a turn has in l beyond those it has in k.
Gain(l, k) == Has(l, "check") + Has(l, "guard") - Has(k, "check") - Has(k, "guard")

LEMMA SlotSetsAreFinite ==
    /\ \A slot : Cardinality(Holders(slot)) \in Nat /\ IsFiniteSet(Holders(slot))
    /\ Cardinality(Reviewing) \in Nat /\ IsFiniteSet(Reviewing)
<1>1. \A slot : Holders(slot) \subseteq Learners
  BY DEF Holders
<1>2. Reviewing \subseteq Reviewers
  BY DEF Reviewing
<1>3. (\A slot : IsFiniteSet(Holders(slot))) /\ IsFiniteSet(Reviewing)
  BY <1>1, <1>2, LearnAssumption, FS_Subset
<1>. QED
  BY <1>3, FS_CardinalityType

\* How a step of one turn moves the number of those that hold a slot.
LEMMA HoldersStep ==
    ASSUME learner \in [Learners -> LearnerRecord],
           NEW t \in Learners, NEW l, becomes(t, l), NEW slot
    PROVE  Cardinality(Holders(slot)') =
             Cardinality(Holders(slot)) + Has(l, slot) - Has(learner[t], slot)
<1> DEFINE H == Holders(slot)
<1>1. IsFiniteSet(H) /\ Cardinality(H) \in Nat
  BY SlotSetsAreFinite
<1>2. t \in H <=> slot \in learner[t].holds
  BY DEF Holders
<1>3. Holders(slot)' = IF slot \in l.holds THEN H \cup {t} ELSE H \ {t}
  BY DEF Holders, becomes
<1> HIDE DEF H
<1>4. Cardinality(H \cup {t}) = IF t \in H THEN Cardinality(H) ELSE Cardinality(H) + 1
  BY <1>1, FS_AddElement
<1>5. Cardinality(H \ {t}) = IF t \in H THEN Cardinality(H) - 1 ELSE Cardinality(H)
  BY <1>1, FS_RemoveElement
<1>6. Cardinality(Holders(slot)') =
        IF slot \in l.holds
        THEN IF slot \in learner[t].holds THEN Cardinality(H) ELSE Cardinality(H) + 1
        ELSE IF slot \in learner[t].holds THEN Cardinality(H) - 1 ELSE Cardinality(H)
  BY <1>2, <1>3, <1>4, <1>5
<1>. QED
  BY <1>1, <1>6 DEF Has, H

LEMMA HolderCounts ==
    ASSUME NEW t \in Learners, NEW slot
    PROVE  Has(learner[t], slot) <= Cardinality(Holders(slot))
<1>1. IsFiniteSet(Holders(slot)) /\ Cardinality(Holders(slot)) \in Nat
  BY SlotSetsAreFinite
<1>2. slot \in learner[t].holds => Holders(slot) # {}
  BY DEF Holders
<1>3. Holders(slot) # {} => Cardinality(Holders(slot)) # 0
  BY <1>1, FS_EmptySet
<1>. QED
  BY <1>1, <1>2, <1>3 DEF Has

\* The same of a review that starts or ends.
LEMMA ReviewingStep ==
    ASSUME review \in [Reviewers -> {"none", "running", "stamping"}],
           NEW r \in Reviewers, NEW new, review' = [review EXCEPT ![r] = new]
    PROVE  Cardinality(Reviewing') =
             Cardinality(Reviewing) + (IF new = "running" THEN 1 ELSE 0)
                                    - (IF review[r] = "running" THEN 1 ELSE 0)
<1> DEFINE R == Reviewing
<1>1. IsFiniteSet(R) /\ Cardinality(R) \in Nat
  BY SlotSetsAreFinite
<1>2. r \in R <=> review[r] = "running"
  BY DEF Reviewing
<1>3. Reviewing' = IF new = "running" THEN R \cup {r} ELSE R \ {r}
  BY DEF Reviewing
<1> HIDE DEF R
<1>4. Cardinality(R \cup {r}) = IF r \in R THEN Cardinality(R) ELSE Cardinality(R) + 1
  BY <1>1, FS_AddElement
<1>5. Cardinality(R \ {r}) = IF r \in R THEN Cardinality(R) - 1 ELSE Cardinality(R)
  BY <1>1, FS_RemoveElement
<1>6. Cardinality(Reviewing') =
        IF new = "running"
        THEN IF review[r] = "running" THEN Cardinality(R) ELSE Cardinality(R) + 1
        ELSE IF review[r] = "running" THEN Cardinality(R) - 1 ELSE Cardinality(R)
  BY <1>2, <1>3, <1>4, <1>5
<1>. QED
  BY <1>1, <1>6 DEF R

LEMMA OneMoreFacts ==
    ASSUME count \in [NudgeKinds -> 0 .. SoftThreshold], NEW k \in NudgeKinds
    PROVE  OneMore(k) \in [NudgeKinds -> 0 .. SoftThreshold]
<1>1. (IF count[k] < SoftThreshold THEN count[k] + 1 ELSE count[k]) \in 0 .. SoftThreshold
  BY LearnAssumption
<1>. QED
  BY <1>1 DEF OneMore

\* The end of a check that brought no review: its slot is given back.
LEMMA ResumedFacts ==
    ASSUME NEW t \in Learners, RightSlots(learner[t]),
           learner[t].pc \in {"ask", "throttle", "reserve", "dedup", "record", "nudge"}
    PROVE  /\ RightSlots(Resumed(t)) /\ Resumed(t).mode = learner[t].mode
           /\ Has(Resumed(t), "check") = 0
           /\ Has(Resumed(t), "guard") = Has(learner[t], "guard")
<1>1. learner[t] \in LearnerRecord
  BY DEF RightSlots
<1>2. /\ Resumed(t).pc = IF learner[t].kind = "memory" THEN "loop" ELSE "checked"
      /\ Resumed(t).kind = "skill" /\ Resumed(t).mode = learner[t].mode
      /\ Resumed(t).holds = learner[t].holds \ {"check"}
  BY <1>1 DEF Resumed, LearnerRecord
<1>3. Resumed(t) \in LearnerRecord
  BY <1>1 DEF Resumed, LearnerRecord, NudgeKinds
<1>. QED
  BY <1>2, <1>3 DEF RightSlots, Has

\* A turn that goes on with the slots it has.
LEMMA MovedFacts ==
    ASSUME NEW l, l \in LearnerRecord,
           NEW pc \in {"ask", "throttle", "reserve", "dedup", "record", "nudge", "loop", "model",
                       "checked"},
           NEW m, m = [l EXCEPT !.pc = pc]
    PROVE  /\ m \in LearnerRecord /\ m.pc = pc /\ m.kind = l.kind /\ m.mode = l.mode
           /\ m.holds = l.holds /\ Gain(m, l) = 0
  BY DEF LearnerRecord, Gain, Has

\* A nudge: the slot of the check becomes the turn's guard.
LEMMA NudgedFacts ==
    ASSUME NEW t \in Learners, RightSlots(learner[t]), learner[t].pc = "nudge"
    PROVE  /\ RightSlots(Nudged(t)) /\ Gain(Nudged(t), learner[t]) <= 0
           /\ LongTurns \/ Gain(Nudged(t), learner[t]) = 0
           /\ ~LongTurns /\ Nudged(t).mode \in {"Skill", "Combined"} => learner[t].kind = "skill"
<1>1. /\ learner[t] \in LearnerRecord /\ Resumed(t) \in LearnerRecord
      /\ Resumed(t).pc \in {"loop", "checked"} /\ Resumed(t).kind = "skill"
      /\ Resumed(t).mode = learner[t].mode /\ Resumed(t).holds = learner[t].holds \ {"check"}
  BY DEF Resumed, LearnerRecord, RightSlots, NudgeKinds
<1> DEFINE m == CASE learner[t].mode = "None" /\ learner[t].kind = "memory" -> "Memory"
                  [] learner[t].mode = "None" /\ learner[t].kind = "skill" -> "Skill"
                  [] learner[t].mode = "Memory" -> "Combined"
                  [] OTHER -> learner[t].mode
           h == IF learner[t].mode = "None" THEN (learner[t].holds \ {"check"}) \cup {"guard"}
                ELSE learner[t].holds \ {"check"}
<1>2. Nudged(t) = [Resumed(t) EXCEPT !.mode = m, !.holds = h]
  BY <1>1 DEF Nudged, LearnerRecord
<1>3. m \in Modes \ {"None"} /\ "guard" \in h /\ "check" \notin h /\ h \in SUBSET {"check", "guard"}
  BY <1>1 DEF LearnerRecord, RightSlots, Modes, NudgeKinds
<1>4. ~LongTurns /\ m \in {"Skill", "Combined"} => learner[t].kind = "skill"
  BY DEF RightSlots, LearnerRecord, NudgeKinds
<1>5. /\ Has(learner[t], "check") \in {0, 1}
      /\ Has(learner[t], "check") + Has(learner[t], "guard") >= 1
      /\ LongTurns \/ Has(learner[t], "check") + Has(learner[t], "guard") = 1
  BY <1>1 DEF RightSlots, LearnerRecord, Modes, NudgeKinds, Has
<1> HIDE DEF m, h
<1>6. /\ Nudged(t) \in LearnerRecord /\ Nudged(t).mode = m /\ Nudged(t).holds = h
      /\ Nudged(t).pc \in {"loop", "checked"} /\ Nudged(t).kind = "skill"
  BY <1>1, <1>2, <1>3 DEF LearnerRecord
<1>7. RightSlots(Nudged(t))
  BY <1>3, <1>6 DEF RightSlots
<1>8. Has(Nudged(t), "check") = 0 /\ Has(Nudged(t), "guard") = 1
  BY <1>3, <1>6 DEF Has
<1>9. Gain(Nudged(t), learner[t]) <= 0 /\ (LongTurns \/ Gain(Nudged(t), learner[t]) = 0)
  BY <1>5, <1>8 DEF Gain, Has
<1>. QED
  BY <1>4, <1>6, <1>7, <1>9

\* Every slot a step takes or gives back, it takes or gives back in active.
LEMMA LearnStepInv == LearnInv /\ [LearnNext]_learnVars => LearnInv'
<1> SUFFICES ASSUME LearnInv, [LearnNext]_learnVars
             PROVE  LearnInv'
  OBVIOUS
<1>0. /\ ThrottleTypeOK /\ NudgedLately /\ SlotsCount
      /\ learner \in [Learners -> LearnerRecord]
      /\ \A t \in Learners : RightSlots(learner[t])
  BY LearnInvOfEach
<1>a. ASSUME ThrottleTypeOK', NudgedLately', SlotsCount',
             learner' \in [Learners -> LearnerRecord], \A t \in Learners : RightSlots(learner'[t])
      PROVE  LearnInv'
  <2>1. ThrottleTypeOK' => LearnTypeOK'
    BY <1>a DEF ThrottleTypeOK, LearnTypeOK
  <2>2. LearnersHold'
    BY <1>a DEF LearnersHold, RightSlots, Covered, NudgedLately
  <2>. QED
    BY <1>a, <2>1, <2>2 DEF LearnInv, SlotsCount, Slots, SlotsAreOwned
<1>b. ASSUME NEW t \in Learners, NEW l, RightSlots(l), becomes(t, l)
      PROVE  learner' \in [Learners -> LearnerRecord] /\ \A u \in Learners : RightSlots(learner'[u])
  BY <1>0, <1>b DEF becomes, RightSlots
\* A step of a turn that starts or ends no review.
<1>c. ASSUME NEW t \in Learners, NEW l, RightSlots(l), becomes(t, l), ThrottleTypeOK',
             UNCHANGED review, lately \subseteq lately',
             ~LongTurns /\ l.mode \in {"Skill", "Combined"} => "skill" \in lately',
             Gain(l, learner[t]) <= active' - active,
             LongTurns \/ active' - active = Gain(l, learner[t])
      PROVE  LearnInv'
  <2>1. NudgedLately'
    BY <1>0, <1>c DEF NudgedLately, becomes
  <2>2. SlotsCount'
    <3>1. /\ Cardinality(Holders("check")') =
               Cardinality(Holders("check")) + Has(l, "check") - Has(learner[t], "check")
          /\ Cardinality(Holders("guard")') =
               Cardinality(Holders("guard")) + Has(l, "guard") - Has(learner[t], "guard")
      BY <1>0, <1>c, HoldersStep
    <3>2. Reviewing' = Reviewing
      BY <1>c DEF Reviewing
    <3>3. Slots' = Slots + Gain(l, learner[t]) /\ Slots \in Nat /\ Gain(l, learner[t]) \in Int
      BY <3>1, <3>2, SlotSetsAreFinite DEF Slots, Gain, Has
    <3>4. active \in Int /\ active' \in Int
      BY <1>0, <1>c, LearnAssumption DEF ThrottleTypeOK
    <3>. QED
      BY <1>0, <1>c, <3>3, <3>4 DEF SlotsCount
  <2>. QED
    BY <1>a, <1>b, <1>c, <2>1, <2>2
<1>d. ASSUME NEW t \in Learners
      PROVE  /\ RightSlots(learner[t])
             /\ ~LongTurns /\ learner[t].mode \in {"Skill", "Combined"} => "skill" \in lately
             /\ active \in 0 .. MaxReviews /\ MaxReviews \in Nat
             /\ Has(learner[t], "check") + Has(learner[t], "guard") <= active
  <2>1. Has(learner[t], "check") <= Cardinality(Holders("check"))
    BY HolderCounts
  <2>2. Has(learner[t], "guard") <= Cardinality(Holders("guard"))
    BY HolderCounts
  <2>3. Has(learner[t], "check") + Has(learner[t], "guard") <= active
    BY <1>0, <2>1, <2>2, SlotSetsAreFinite, LearnAssumption
       DEF SlotsCount, Slots, Has, ThrottleTypeOK
  <2>. QED
    BY <1>0, <2>3, LearnAssumption DEF NudgedLately, ThrottleTypeOK
\* A check that ends without a review.
<1>e. ASSUME NEW t \in Learners,
             learner[t].pc \in {"ask", "throttle", "reserve", "dedup", "record", "nudge"}
      PROVE  /\ RightSlots(Resumed(t)) /\ Resumed(t).mode = learner[t].mode
             /\ Has(Resumed(t), "check") = 0
             /\ Has(Resumed(t), "guard") = Has(learner[t], "guard")
  BY <1>d, <1>e, ResumedFacts
<1>f. ASSUME NEW t \in Learners, learner[t].pc \in {"dedup", "nudge"}, GivesBack(t),
             UNCHANGED <<cooling, count, lately, review>>,
             recent' = recent
      PROVE  LearnInv'
  <2>1. Has(learner[t], "check") = IF Covered(t) THEN 0 ELSE 1
    BY <1>d, <1>f DEF RightSlots, Covered, Has
  <2>2. active' - active = Gain(Resumed(t), learner[t])
    BY <1>d, <1>e, <1>f, <2>1 DEF GivesBack, Cancelled, Gain, Has
  <2>3. active' \in 0 .. MaxReviews
    BY <1>d, <1>f DEF GivesBack, Cancelled
  <2>. QED
    BY <1>0, <1>c, <1>d, <1>e, <1>f, <2>2, <2>3 DEF GivesBack, ThrottleTypeOK
<1>g. ASSUME NEW t \in Learners, NEW pc \in {"ask", "throttle", "reserve", "dedup", "record",
                                             "nudge", "loop", "model", "checked"},
             becomes(t, [learner[t] EXCEPT !.pc = pc]), UNCHANGED <<active, review, lately>>,
             ThrottleTypeOK',
             /\ pc \in {"dedup", "record", "nudge"} /\ ~Covered(t) <=> "check" \in learner[t].holds
             /\ pc \in {"throttle", "reserve"} => ~Covered(t)
             /\ pc \in {"loop", "model", "checked"} => learner[t].kind = "skill"
             /\ ~LongTurns /\ learner[t].mode \in {"Skill", "Combined"} =>
                   pc \notin {"throttle", "reserve", "dedup", "record", "nudge"}
      PROVE  LearnInv'
  <2>0. learner[t] \in LearnerRecord
    BY <1>0
  <2> DEFINE l == [learner[t] EXCEPT !.pc = pc]
  <2>1. /\ l \in LearnerRecord /\ l.pc = pc /\ l.kind = learner[t].kind
        /\ l.mode = learner[t].mode /\ l.holds = learner[t].holds /\ Gain(l, learner[t]) = 0
    BY <2>0, MovedFacts
  <2>2. becomes(t, l) /\ active' - active = 0 /\ lately' = lately /\ review' = review
    BY <1>d, <1>g
  <2> HIDE DEF l
  <2>3. RightSlots(l)
    <3>1. /\ "check" \in l.holds <=> l.pc \in {"dedup", "record", "nudge"}
                                       /\ ~(l.kind = "skill" /\ l.mode = "Memory")
          /\ l.pc \in {"throttle", "reserve"} => ~(l.kind = "skill" /\ l.mode = "Memory")
      BY <1>g, <2>1 DEF Covered
    <3>2. /\ "guard" \in l.holds <=> l.mode # "None"
          /\ l.kind = "memory" => l.mode = "None"
      BY <1>d, <2>1 DEF RightSlots
    <3>3. /\ l.pc \in {"idle", "loop", "model", "checked"} => (l.kind = "memory" <=> l.pc = "idle")
          /\ ~LongTurns /\ l.mode \in {"Skill", "Combined"} =>
                l.pc \notin {"throttle", "reserve", "dedup", "record", "nudge"}
      BY <1>g, <2>1
    <3>. QED
      BY <2>1, <3>1, <3>2, <3>3 DEF RightSlots
  <2>. QED
    BY <1>c, <1>d, <1>g, <2>1, <2>2, <2>3
<1>1. ASSUME NEW t \in Learners, AskNudge(t) PROVE LearnInv'
  <2>1. learner[t].pc = "ask" /\ UNCHANGED <<active, cooling, count, lately, recent, review>>
    BY <1>1 DEF AskNudge, LearnerAt
  <2>2. CASE Due(learner[t].kind)
    <3>1. PICK pc \in {"dedup", "throttle"} :
             becomes(t, [learner[t] EXCEPT !.pc = pc]) /\ (pc = "dedup" <=> Covered(t))
      BY <1>1, <2>2 DEF AskNudge
    <3>2. "check" \notin learner[t].holds
      BY <1>d, <2>1 DEF RightSlots
    <3>3. LongTurns \/ learner[t].mode \notin {"Skill", "Combined"}
      BY <1>d, <2>2 DEF RightSlots, LearnerRecord, NudgeKinds, Due
    <3>4. ThrottleTypeOK'
      BY <1>0, <2>1 DEF ThrottleTypeOK
    <3>. QED
      BY <1>g, <2>1, <3>1, <3>2, <3>3, <3>4
  <2>3. CASE ~Due(learner[t].kind)
    <3>1. Gain(Resumed(t), learner[t]) = 0
      BY <1>1, <1>d, <1>e DEF AskNudge, LearnerAt, RightSlots, Gain, Has
    <3>. QED
      BY <1>0, <1>1, <1>c, <1>d, <1>e, <2>3, <3>1 DEF AskNudge, LearnerAt, ThrottleTypeOK
  <2>. QED
    BY <2>2, <2>3
<1>2. ASSUME NEW t \in Learners, PassThrottle(t) PROVE LearnInv'
  <2>2. Gain(Resumed(t), learner[t]) = 0
    BY <1>2, <1>d, <1>e DEF PassThrottle, LearnerAt, RightSlots, Gain, Has
  <2>3. CASE cooling
    BY <1>0, <1>2, <1>c, <1>d, <1>e, <2>2, <2>3 DEF PassThrottle, LearnerAt, ThrottleTypeOK
  <2>4. CASE ~cooling
    <3>1. ThrottleTypeOK' /\ learner[t].pc = "throttle"
      BY <1>0, <1>2 DEF PassThrottle, LearnerAt, ThrottleTypeOK
    <3>2. /\ "check" \notin learner[t].holds /\ ~Covered(t)
          /\ LongTurns \/ learner[t].mode \notin {"Skill", "Combined"}
      BY <1>d, <3>1 DEF RightSlots, Covered
    <3>3. /\ becomes(t, [learner[t] EXCEPT !.pc = "reserve"])
          /\ UNCHANGED <<active, review, lately>>
      BY <1>2, <2>4 DEF PassThrottle
    <3>. QED
      BY <1>g, <3>1, <3>2, <3>3
  <2>. QED
    BY <2>3, <2>4
<1>3. ASSUME NEW t \in Learners, Reserve(t) PROVE LearnInv'
  <2> DEFINE new == [learner[t] EXCEPT !.pc = "dedup", !.holds = @ \cup {"check"}]
  <2>1. RightSlots(new) /\ Gain(new, learner[t]) = 1 /\ new.mode = learner[t].mode
    <3>1. learner[t] \in LearnerRecord /\ learner[t].pc = "reserve"
      BY <1>0, <1>3 DEF Reserve, LearnerAt
    <3>2. /\ new \in LearnerRecord /\ new.pc = "dedup" /\ new.kind = learner[t].kind
          /\ new.mode = learner[t].mode /\ new.holds = learner[t].holds \cup {"check"}
      BY <3>1 DEF LearnerRecord
    <3> HIDE DEF new
    <3>3. "check" \notin learner[t].holds
      BY <1>d, <3>1 DEF RightSlots
    <3>. QED
      BY <1>d, <3>1, <3>2, <3>3 DEF RightSlots, Gain, Has
  <2>2. Gain(Resumed(t), learner[t]) = 0
    BY <1>3, <1>d, <1>e DEF Reserve, LearnerAt, RightSlots, Gain, Has
  <2>3. CASE active >= MaxReviews
    BY <1>0, <1>3, <1>c, <1>d, <1>e, <2>2, <2>3 DEF Reserve, LearnerAt, ThrottleTypeOK
  <2>4. CASE ~(active >= MaxReviews)
    <3>1. active' = active + 1 /\ active' \in 0 .. MaxReviews /\ becomes(t, new)
      BY <1>3, <1>d, <2>4 DEF Reserve
    <3> HIDE DEF new
    <3>. QED
      BY <1>0, <1>3, <1>c, <1>d, <2>1, <3>1 DEF Reserve, ThrottleTypeOK
  <2>. QED
    BY <2>3, <2>4
<1>4. ASSUME NEW t \in Learners, Dedup(t) PROVE LearnInv'
  <2>2. CASE KeyOf(t) \in recent
    BY <1>4, <1>f, <2>2 DEF Dedup, LearnerAt
  <2>3. CASE KeyOf(t) \notin recent
    <3>1. ThrottleTypeOK' /\ learner[t].pc = "dedup"
      BY <1>0, <1>4, <2>3 DEF Dedup, LearnerAt, ThrottleTypeOK
    <3>2. /\ "check" \in learner[t].holds <=> ~Covered(t)
          /\ LongTurns \/ learner[t].mode \notin {"Skill", "Combined"}
      BY <1>d, <3>1 DEF RightSlots, Covered
    <3>3. /\ becomes(t, [learner[t] EXCEPT !.pc = "record"])
          /\ UNCHANGED <<active, review, lately>>
      BY <1>4, <2>3 DEF Dedup
    <3>. QED
      BY <1>g, <3>1, <3>2, <3>3
  <2>. QED
    BY <2>2, <2>3
<1>5. ASSUME NEW t \in Learners, RecordKey(t) PROVE LearnInv'
  <2>2. KeyOf(t) \in NudgeKinds \cup {"combined"}
    BY <1>d DEF KeyOf, RightSlots, LearnerRecord
  <2>. QED
    <3>1. ThrottleTypeOK' /\ learner[t].pc = "record"
      BY <1>0, <1>5, <2>2 DEF RecordKey, LearnerAt, ThrottleTypeOK
    <3>2. /\ "check" \in learner[t].holds <=> ~Covered(t)
          /\ LongTurns \/ learner[t].mode \notin {"Skill", "Combined"}
      BY <1>d, <3>1 DEF RightSlots, Covered
    <3>3. /\ becomes(t, [learner[t] EXCEPT !.pc = "nudge"])
          /\ UNCHANGED <<active, review, lately>>
      BY <1>5 DEF RecordKey
    <3>. QED
      BY <1>g, <3>1, <3>2, <3>3
<1>6. ASSUME NEW t \in Learners, Nudge(t) PROVE LearnInv'
  <2> DEFINE k == learner[t].kind
  <2>1. CASE Due(k)
    <3>1. /\ becomes(t, Nudged(t)) /\ lately' = lately \cup {k} /\ count' = [count EXCEPT ![k] = 0]
          /\ UNCHANGED <<active, cooling, recent, review>> /\ learner[t].pc = "nudge"
      BY <1>6, <2>1 DEF Nudge, LearnerAt
    <3>2. k \in NudgeKinds
      BY <1>d DEF RightSlots, LearnerRecord
    <3>3. /\ RightSlots(Nudged(t)) /\ Gain(Nudged(t), learner[t]) <= 0
          /\ LongTurns \/ Gain(Nudged(t), learner[t]) = 0
          /\ ~LongTurns /\ Nudged(t).mode \in {"Skill", "Combined"} => k = "skill"
      BY <1>d, <3>1, NudgedFacts
    <3>4. ThrottleTypeOK'
      BY <1>0, <3>1, <3>2, LearnAssumption DEF ThrottleTypeOK
    <3>5. active' - active = 0
      BY <1>d, <3>1
    <3>6. Gain(Nudged(t), learner[t]) <= active' - active
      BY <3>3, <3>5
    <3>. QED
      BY <1>c, <3>1, <3>3, <3>4, <3>5, <3>6
  <2>2. CASE ~Due(k)
    BY <1>6, <1>f, <2>2 DEF Nudge, LearnerAt
  <2>. QED
    BY <2>1, <2>2
<1>7. ASSUME NEW t \in Learners, BeginTurn(t) PROVE LearnInv'
  <2>1. RightSlots([NoLearner EXCEPT !.pc = "ask"])
    BY DEF RightSlots, NoLearner, LearnerRecord, NudgeKinds, Modes
  <2>2. Gain([NoLearner EXCEPT !.pc = "ask"], learner[t]) = 0
    BY <1>7, <1>d DEF BeginTurn, LearnerAt, RightSlots, NoLearner, Gain, Has
  <2>3. count' \in [NudgeKinds -> 0 .. SoftThreshold]
    BY <1>0, <1>7, OneMoreFacts DEF BeginTurn, ThrottleTypeOK, NudgeKinds
  <2> DEFINE l == [NoLearner EXCEPT !.pc = "ask"]
  <2>4. becomes(t, l) /\ l.mode = "None" /\ Gain(l, learner[t]) = 0 /\ RightSlots(l)
    BY <1>7, <2>1, <2>2 DEF BeginTurn, NoLearner
  <2>5. UNCHANGED <<active, cooling, lately, recent, review>> /\ active' - active = 0
    BY <1>7, <1>d DEF BeginTurn
  <2>6. ThrottleTypeOK'
    BY <1>0, <2>3, <2>5 DEF ThrottleTypeOK
  <2> HIDE DEF l
  <2>. QED
    BY <1>c, <2>4, <2>5, <2>6
<1>8. ASSUME NEW t \in Learners, CallModel(t) PROVE LearnInv'
  <2>2. count' \in [NudgeKinds -> 0 .. SoftThreshold]
    BY <1>0, <1>8, OneMoreFacts DEF CallModel, ThrottleTypeOK, NudgeKinds
  <2>3. /\ becomes(t, [learner[t] EXCEPT !.pc = "model"]) /\ learner[t].pc \in {"loop", "checked"}
        /\ UNCHANGED <<active, cooling, lately, recent, review>>
    BY <1>8 DEF CallModel
  <2>4. ThrottleTypeOK'
    BY <1>0, <2>2, <2>3 DEF ThrottleTypeOK
  <2>5. "check" \notin learner[t].holds /\ learner[t].kind = "skill"
    BY <1>d, <2>3 DEF RightSlots, LearnerRecord, NudgeKinds
  <2>. QED
    BY <1>g, <2>3, <2>4, <2>5
<1>9. ASSUME NEW t \in Learners, RunTools(t) PROVE LearnInv'
  <2>2. PICK pc \in {"loop", "ask"} : becomes(t, [learner[t] EXCEPT !.pc = pc])
    BY <1>9 DEF RunTools
  <2>3. count' \in [NudgeKinds -> 0 .. SoftThreshold]
    BY <1>0, <1>9, LearnAssumption DEF RunTools, ThrottleTypeOK
  <2>. QED
    <3>1. ThrottleTypeOK' /\ UNCHANGED <<active, lately, review>> /\ learner[t].pc = "model"
      BY <1>0, <1>9, <2>3 DEF RunTools, LearnerAt, ThrottleTypeOK
    <3>2. "check" \notin learner[t].holds /\ learner[t].kind = "skill"
      BY <1>d, <3>1 DEF RightSlots, LearnerRecord, NudgeKinds
    <3>. QED
      BY <1>g, <2>2, <3>1, <3>2
<1>10. ASSUME NEW t \in Learners, Answer(t) PROVE LearnInv'
  <2>1. /\ RightSlots(NoLearner) /\ NoLearner.mode = "None"
        /\ Has(NoLearner, "check") = 0 /\ Has(NoLearner, "guard") = 0
    BY DEF RightSlots, NoLearner, LearnerRecord, NudgeKinds, Modes, Has
  <2>2. Has(learner[t], "check") = 0
    BY <1>10, <1>d DEF Answer, RightSlots, Has
  <2>3. CASE "guard" \notin learner[t].holds
    <3>1. Gain(NoLearner, learner[t]) = 0
      BY <2>1, <2>2, <2>3 DEF Gain, Has
    <3>. QED
      BY <1>0, <1>10, <1>c, <1>d, <2>1, <2>3, <3>1 DEF Answer, ThrottleTypeOK
  <2>4. CASE "guard" \in learner[t].holds
    <3>1. PICK r \in Reviewers : review[r] = "none" /\ review' = [review EXCEPT ![r] = "running"]
      BY <1>10, <2>4 DEF Answer
    <3>2. Cardinality(Reviewing') = Cardinality(Reviewing) + 1
      <4>1. Cardinality(Reviewing') = Cardinality(Reviewing) + (IF "running" = "running" THEN 1 ELSE 0)
                                        - (IF review[r] = "running" THEN 1 ELSE 0)
        BY <1>0, <3>1, ReviewingStep DEF ThrottleTypeOK
      <4>. QED
        BY <3>1, <4>1, SlotSetsAreFinite
    <3>3. /\ Cardinality(Holders("check")') = Cardinality(Holders("check"))
          /\ Cardinality(Holders("guard")') = Cardinality(Holders("guard")) - 1
      <4>1. becomes(t, NoLearner) /\ Has(learner[t], "guard") = 1
        BY <1>10, <2>4 DEF Answer, Has
      <4>2. /\ Cardinality(Holders("check")') = Cardinality(Holders("check")) + 0 - 0
            /\ Cardinality(Holders("guard")') = Cardinality(Holders("guard")) + 0 - 1
        BY <1>0, <2>1, <2>2, <4>1, HoldersStep
      <4>. QED
        BY <4>2, SlotSetsAreFinite
    <3>4. Slots' = Slots
      BY <3>2, <3>3, SlotSetsAreFinite DEF Slots
    <3>5. SlotsCount'
      BY <1>0, <1>10, <3>4 DEF SlotsCount, Answer
    <3>6. NudgedLately'
      BY <1>0, <1>10, <2>1 DEF Answer, NudgedLately, becomes
    <3>7. ThrottleTypeOK'
      BY <1>0, <1>10, <3>1 DEF Answer, ThrottleTypeOK
    <3>. QED
      BY <1>10, <1>a, <1>b, <2>1, <3>5, <3>6, <3>7 DEF Answer
  <2>. QED
    BY <2>3, <2>4
<1>11. ASSUME NEW t \in Learners, Leave(t) PROVE LearnInv'
  <2>1. /\ RightSlots(NoLearner) /\ NoLearner.mode = "None"
        /\ Has(NoLearner, "check") = 0 /\ Has(NoLearner, "guard") = 0
    BY DEF RightSlots, NoLearner, LearnerRecord, NudgeKinds, Modes, Has
  <2>2. Has(learner[t], "check") = 0
    BY <1>11, <1>d DEF Leave, RightSlots, Has
  <2>3. active' - active = Gain(NoLearner, learner[t]) /\ active' \in 0 .. MaxReviews
    BY <1>11, <1>d, <2>1, <2>2 DEF Leave, Cancelled, Gain, Has
  <2>. QED
    BY <1>0, <1>11, <1>c, <1>d, <2>1, <2>3 DEF Leave, ThrottleTypeOK
<1>12. ASSUME UNCHANGED learner, ThrottleTypeOK', NudgedLately', SlotsCount' PROVE LearnInv'
  BY <1>0, <1>12, <1>a
<1>13. ASSUME UNCHANGED <<learner, review, active>>, ThrottleTypeOK', NudgedLately' PROVE LearnInv'
  <2>1. Slots' = Slots
    BY <1>13 DEF Slots, Holders, Reviewing
  <2>. QED
    BY <1>0, <1>12, <1>13, <2>1 DEF SlotsCount
<1>14. ASSUME NEW r \in Reviewers, ReviewEnds(r) PROVE LearnInv'
  <2>1. PICK new \in {"none", "stamping"} : review' = [review EXCEPT ![r] = new]
    BY <1>14 DEF ReviewEnds
  <2>2. Cardinality(Reviewing') = Cardinality(Reviewing) - 1
    <3>1. Cardinality(Reviewing') = Cardinality(Reviewing) + 0 - 1
      BY <1>0, <1>14, <2>1, ReviewingStep DEF ThrottleTypeOK, ReviewEnds
    <3>. QED
      BY <3>1, SlotSetsAreFinite
  <2>3. Cardinality(Reviewing) >= 1
    BY <1>14, SlotSetsAreFinite, FS_EmptySet DEF Reviewing, ReviewEnds
  <2>4. Slots' = Slots - 1 /\ Slots >= 1 /\ Slots \in Nat
    <3>1. UNCHANGED <<Holders("check"), Holders("guard")>>
      BY <1>14 DEF Holders, ReviewEnds
    <3>. QED
      BY <2>2, <2>3, <3>1, SlotSetsAreFinite DEF Slots
  <2>5. active \in 0 .. MaxReviews /\ MaxReviews \in Nat /\ Slots <= active
    BY <1>0, LearnAssumption DEF ThrottleTypeOK, SlotsCount
  <2>6. active' = active - 1 /\ active' \in 0 .. MaxReviews
    BY <1>14, <2>4, <2>5 DEF ReviewEnds, Cancelled
  <2>7. SlotsCount'
    BY <1>0, <2>4, <2>5, <2>6 DEF SlotsCount
  <2>8. ThrottleTypeOK' /\ NudgedLately'
    BY <1>0, <1>14, <2>1, <2>6 DEF ThrottleTypeOK, NudgedLately, ReviewEnds
  <2>. QED
    BY <1>12, <1>14, <2>7, <2>8 DEF ReviewEnds
<1>15. ASSUME NEW r \in Reviewers, NoteTime(r) PROVE LearnInv'
  <2>1. Cardinality(Reviewing') = Cardinality(Reviewing) + 0 - 0
    <3>1. Cardinality(Reviewing') = Cardinality(Reviewing) + (IF "none" = "running" THEN 1 ELSE 0)
                                      - (IF review[r] = "running" THEN 1 ELSE 0)
      BY <1>0, <1>15, ReviewingStep DEF ThrottleTypeOK, NoteTime
    <3>. QED
      BY <1>15, <3>1 DEF NoteTime
  <2>2. Slots' = Slots
    <3>1. UNCHANGED <<Holders("check"), Holders("guard")>>
      BY <1>15 DEF Holders, NoteTime
    <3>. QED
      BY <2>1, <3>1, SlotSetsAreFinite DEF Slots
  <2>3. SlotsCount'
    BY <1>0, <1>15, <2>2 DEF SlotsCount, NoteTime
  <2>4. ThrottleTypeOK' /\ NudgedLately'
    BY <1>0, <1>15 DEF ThrottleTypeOK, NudgedLately, NoteTime
  <2>. QED
    BY <1>12, <1>15, <2>3, <2>4 DEF NoteTime
<1>16. CASE CooldownPasses
  BY <1>0, <1>13, <1>16 DEF CooldownPasses, ThrottleTypeOK, NudgedLately
<1>17. ASSUME NEW k \in NudgeKinds, IntervalPasses(k) PROVE LearnInv'
  <2>1. NudgedLately'
    BY <1>0, <1>17 DEF IntervalPasses, NudgedLately
  <2>. QED
    BY <1>0, <1>13, <1>17, <2>1 DEF IntervalPasses, ThrottleTypeOK
<1>18. ASSUME NEW key \in NudgeKinds \cup {"combined"}, WindowPasses(key) PROVE LearnInv'
  BY <1>0, <1>13, <1>18 DEF WindowPasses, ThrottleTypeOK, NudgedLately
<1>19. CASE UNCHANGED learnVars
  BY <1>0, <1>13, <1>19 DEF learnVars, ThrottleTypeOK, NudgedLately
<1>. QED
  BY <1>1, <1>2, <1>3, <1>4, <1>5, <1>6, <1>7, <1>8, <1>9, <1>10, <1>11, <1>14, <1>15, <1>16,
     <1>17, <1>18, <1>19 DEF LearnNext, CheckStep

LEMMA LearnInitInv == LearnInit => LearnInv
<1> SUFFICES ASSUME LearnInit PROVE LearnInv
  OBVIOUS
<1>1. RightSlots(NoLearner) /\ NoLearner.holds = {} /\ NoLearner.mode = "None"
  BY DEF RightSlots, NoLearner, LearnerRecord, NudgeKinds, Modes
<1>2. Holders("check") = {} /\ Holders("guard") = {} /\ Reviewing = {}
  BY <1>1 DEF LearnInit, Holders, Reviewing
<1>3. Slots = 0
  BY <1>2, FS_EmptySet DEF Slots
<1>4. ThrottleTypeOK /\ NudgedLately /\ SlotsCount
  <2>1. 0 \in 0 .. MaxReviews /\ 0 \in 0 .. SoftThreshold
    BY LearnAssumption
  <2>2. ThrottleTypeOK
    BY <2>1 DEF LearnInit, ThrottleTypeOK
  <2>3. NudgedLately
    BY <1>1 DEF LearnInit, NudgedLately
  <2>4. SlotsCount
    BY <1>3 DEF LearnInit, SlotsCount
  <2>. QED
    BY <2>2, <2>3, <2>4
<1>5. learner \in [Learners -> LearnerRecord] /\ \A t \in Learners : RightSlots(learner[t])
  BY <1>1 DEF LearnInit, RightSlots
<1>. QED
  BY <1>4, <1>5, LearnInvOfEach

\* Each slot in use is counted once, for any number of turns and reviews.
THEOREM LearnInvariance == LearnSpec => []LearnInv
  BY LearnInitInv, LearnStepInv, PTL DEF LearnSpec

\* No slot of the throttle is ever lost or given back twice, whatever the
\* interleaving of the turns, as long as no turn lasts min_nudge_interval_secs
\* after its skill nudge.
THEOREM SlotsAreOwnedHolds ==
    ASSUME ~LongTurns
    PROVE  LearnSpec => []SlotsAreOwned
<1>1. LearnInv => SlotsAreOwned
  BY DEF LearnInv
<1>. QED
  BY <1>1, LearnInvariance, PTL

\* Never more than max_concurrent_reviews reviews at once, long turns or not:
\* a slot may be lost to a long turn but is never handed out twice.
THEOREM ReviewsAreLimitedHolds == LearnSpec => []ReviewsAreLimited
<1>1. LearnInv => ReviewsAreLimited
  <2> SUFFICES ASSUME LearnInv PROVE Cardinality(Reviewing) <= MaxReviews
    BY DEF ReviewsAreLimited
  <2>1. /\ Cardinality(Holders("check")) + Cardinality(Holders("guard"))
             + Cardinality(Reviewing) <= active
        /\ active \in 0 .. MaxReviews
    BY DEF LearnInv, LearnTypeOK
  <2>. QED
    BY <2>1, SlotSetsAreFinite, LearnAssumption
<1>. QED
  BY <1>1, LearnInvariance, PTL

=============================================================================
