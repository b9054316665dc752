---------------------------- MODULE MCCronService ----------------------------
(***************************************************************************)
(* Instances of CronService for TLC.                                       *)
(***************************************************************************)
EXTENDS CronService, TLC

CONSTANTS a, e

\* A one-time job for time 1 and a repeated one.
MCKind == (a :> "at") @@ (e :> "every")
MCAt == (a :> 1) @@ (e :> 0)
=============================================================================
