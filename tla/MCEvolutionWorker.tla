-------------------------- MODULE MCEvolutionWorker --------------------------
(* Model-checking instances of EvolutionWorker. *)
EXTENDS EvolutionWorker, TLC

MCSymmetry == Permutations(Workers) \cup Permutations(Workflows)

\* Every call may fail, except the two whose error path gives the lease back
\* while the row is still Claimed.
MCKeepsLease == StoreCalls \ {"insert", "promoteNoStep"}

MCInsertOnly == {"insert"}
=============================================================================
