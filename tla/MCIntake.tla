------------------------------ MODULE MCIntake ------------------------------
(***************************************************************************)
(* A small instance of Intake: a periodic and a manual capture and         *)
(* two incidents of different urgency.                                     *)
(***************************************************************************)
EXTENDS Intake, TLC

CONSTANTS periodic, manual, worker, db, disk

FoundSets == (periodic :> {<<disk, db>>}) @@ (manual :> {<<db>>})
UrgencyOf == (db :> 2) @@ (disk :> 1)
=============================================================================
