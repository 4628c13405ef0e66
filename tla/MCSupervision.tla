---------------------------- MODULE MCSupervision ----------------------------
(***************************************************************************)
(* Instances of Supervision for TLC.                                       *)
(***************************************************************************)
EXTENDS Supervision, TLC

CONSTANTS a1, a2, r1, r2

Limits(requests, panics, faults) ==
  [requests |-> requests, panics |-> panics, faults |-> faults]

SupervisionBudget == Limits(1, 3, 1)
==============================================================================
