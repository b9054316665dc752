---------------------------- MODULE MCSessionTurns ----------------------------
(* Instances of SessionTurns for TLC. *)
EXTENDS SessionTurns, TLC

CONSTANTS t1, t2, t3, c1, cron

MCTools == {1}
MCTwoTools == {1, 2}

\* Every turn is a message of one chat; with MCDelivered, t2 is a cron job
\* whose answer goes to that chat's session.
MCHome == [t \in Turns |-> c1]
MCDelivered == [t \in Turns |-> IF t = t2 THEN cron ELSE c1]
MCSession == [t \in Turns |-> c1]
\* The messages of one chat are alike.
TurnSymmetry == Permutations(Turns)
=============================================================================
