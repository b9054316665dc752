---------------------------- MODULE MCTypedAgents ----------------------------
(***************************************************************************)
(* Instances of TypedAgents for TLC.                                       *)
(***************************************************************************)
EXTENDS TypedAgents, TLC

CONSTANTS t1, t2, p1, p2

\* Two coders whose scopes overlap in p1.
MCCoders == (t1 :> {p1, p2}) @@ (t2 :> {p1})
\* A coder and an agent without a scope.
MCCoderAndOther == (t1 :> {p1}) @@ (t2 :> {})
\* One of each alone.
MCCoder == t1 :> {p1}
MCOther == t2 :> {}
=============================================================================
