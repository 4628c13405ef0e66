----------------------------- MODULE MCScheduler -----------------------------
(***************************************************************************)
(* Instances of Scheduler for TLC.                                         *)
(***************************************************************************)
EXTENDS Scheduler, TLC

CONSTANTS s1, s2, i1, i2, i3

Symmetry == Permutations(Sources) \cup Permutations(Indexers)

\* How often the environment may act, in the order of BudgetKeys.
Limits(requests, faults, edits, pauses, restarts) ==
  [requests |-> requests, faults |-> faults, edits |-> edits, pauses |-> pauses,
   restarts |-> restarts]

IndexingBudget == Limits(1, 0, 1, 1, 0)
IndexRestartBudget == Limits(1, 1, 0, 0, 2)
IndexProgressBudget == Limits(0, 0, 0, 1, 0)
NoEvents == Limits(0, 0, 0, 0, 0)
==============================================================================
