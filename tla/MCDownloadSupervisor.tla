------------------------ MODULE MCDownloadSupervisor ------------------------
(***************************************************************************)
(* Instances of DownloadSupervisor for TLC.  Slots of tasks and, where no   *)
(* run tells them apart, videos are interchangeable.                        *)
(***************************************************************************)
EXTENDS DownloadSupervisor, TLC

CONSTANTS v1, v2, t1, t2, t3, c1

OneVideo == {v1}
TwoVideos == {v1, v2}
TwoTasks == {t1, t2}
ThreeTasks == {t1, t2, t3}

Symmetry == Permutations(Tasks)

FullSymmetry == Permutations(Tasks) \cup Permutations(Videos)

\* How often the environment may act, in the order of BudgetKeys.
Limits(requests, faults, changes, pauses, restarts, crashes) ==
  [requests |-> requests, faults |-> faults, changes |-> changes, pauses |-> pauses,
   restarts |-> restarts, crashes |-> crashes]

SteadyBudget == Limits(0, 1, 1, 1, 0, 0)
RecoveryBudget == Limits(1, 0, 0, 0, 1, 1)
ProgressBudget == Limits(1, 1, 0, 1, 0, 0)
CancelRedispatchBudget == Limits(2, 0, 0, 0, 0, 0)
=============================================================================
