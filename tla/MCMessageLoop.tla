---------------------------- MODULE MCMessageLoop ----------------------------
(***************************************************************************)
(* Instances of MessageLoop for TLC.                                       *)
(***************************************************************************)
EXTENDS MessageLoop, TLC

CONSTANTS m1, m2, m3, c1, c2

\* All messages belong to one conversation: m1 is never steered and replaces
\* what runs; m2 and m3 may be a task of their own, steered or rejected.
MCOneConv == [m \in Tasks |-> c1]
\* m3 belongs to a second conversation.
MCTwoConvs == [m \in Tasks |-> IF m = m3 THEN c2 ELSE c1]

MCSymmetry == Permutations({m2, m3})
=============================================================================
