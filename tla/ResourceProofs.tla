--------------------------- MODULE ResourceProofs ----------------------------
(***************************************************************************)
(* What a dispatch holds of the supervisor: a permit, a reservation and a  *)
(* registration, for every number of tasks, every set of targets and every *)
(* number of restarts and crashes.                                         *)
(***************************************************************************)
EXTENDS DownloadSupervisorProofs

-----------------------------------------------------------------------------
(* Permits.  The semaphores keep exact accounts and implement the pools of  *)
(* permits of PermitPools.                                                  *)

(***************************************************************************)
(* PermitAccounting is not inductive by itself: that the semaphore which a *)
(* restart creates starts with nobody holding a permit of it rests on no   *)
(* task being older than the incarnation that spawned it.                  *)
(***************************************************************************)

SpawnedBefore == \A t \in Tasks : task[t].semaphore <= incarnation

PermitInv == TypeInv /\ SpawnedBefore /\ PermitAccounting

\* A step that moves no task across the acquire or the drop of its permit.
SameHolders ==
  \A t \in Tasks : /\ HoldsPermit(t)' <=> HoldsPermit(t)
                   /\ HoldsPermit(t) => task'[t].semaphore = task[t].semaphore

\* What a step can do to the semaphores.
PermitStep ==
  \/ SameHolders /\ free' = free /\ permits_total' = permits_total
  \/ SameHolders /\ incarnation' = incarnation /\ \E n \in Targets : ResizeSemaphore(n)
  \/ \E t \in Tasks : Acquire(t) \/ ReleasePermit(t)
  \/ RestartSupervisor
  \/ CrashAndBoot

LEMMA HoldersFacts ==
  ASSUME TypeInv, NEW k
  PROVE  IsFiniteSet(Holders(k)) /\ Cardinality(Holders(k)) \in Nat
<1>1. Holders(k) \subseteq Tasks
  BY DEF Holders
<1>2. QED
  BY <1>1, ConstantsAssumption, FS_Subset, FS_CardinalityType

LEMMA PermitInvInit == Init => PermitInv
<1> SUFFICES ASSUME Init PROVE PermitInv
  OBVIOUS
<1>1. TypeInv
  BY TypeInvInit
<1>2. SpawnedBefore
  BY DEF Init, UnusedTask, SpawnedBefore
<1>3. ASSUME NEW k \in Incarnation
      PROVE  free[k] + Cardinality(Holders(k)) = permits_total[k]
  <2>1. Holders(k) = {}
    BY DEF Init, Holders, HoldsPermit, UnusedTask
  <2>2. free[k] = permits_total[k] /\ free[k] \in Nat
    BY <1>1 DEF Init, TypeInv, TypeOK
  <2>3. QED
    BY <2>1, <2>2, FS_EmptySet
<1>4. QED
  BY <1>1, <1>2, <1>3 DEF PermitInv, PermitAccounting

LEMMA DispatchHolds ==
  ASSUME TypeInv, SpawnedBefore, NEW v, NEW snapshot, DispatchDownload(v, snapshot),
         incarnation' = incarnation
  PROVE  SpawnedBefore' /\ SameHolders
<1> DEFINE parked == [UnusedTask EXCEPT !.pc = "parked", !.video = v, !.semaphore = incarnation]
<1>1. parked.pc = "parked" /\ parked.semaphore = incarnation /\ incarnation \in Nat
  BY DEF TypeInv, TypeOK, UnusedTask, Incarnation
<1> HIDE DEF parked
<1>2. \/ task' = task
      \/ \E t \in Tasks : task[t].pc = "unused" /\ task' = [task EXCEPT ![t] = parked]
  BY DEF DispatchDownload, parked
<1>3. task \in [Tasks -> Task]
  BY DEF TypeInv, TypeOK
<1>4. QED
  BY <1>1, <1>2, <1>3 DEF SpawnedBefore, SameHolders, HoldsPermit

LEMMA StopHolds ==
  ASSUME TypeInv, SpawnedBefore, NEW workers, StopWorkers(workers),
         incarnation' \in Nat, incarnation' >= incarnation
  PROVE  SpawnedBefore' /\ SameHolders
<1>1. \A t \in Tasks : task'[t].pc = task[t].pc /\ task'[t].semaphore = task[t].semaphore
  BY DEF TypeInv, TypeOK, StopWorkers, Task
<1>2. incarnation \in Nat /\ \A t \in Tasks : task[t].semaphore \in Nat
  BY DEF TypeInv, TypeOK, Task, Incarnation
<1>3. QED
  BY <1>1, <1>2 DEF SpawnedBefore, SameHolders, HoldsPermit

\* Every step is one of the permit steps, and none spawns a task ahead of
\* its incarnation.
LEMMA StepIsPermitStep ==
  ASSUME TypeInv, SpawnedBefore, [Next]_vars
  PROVE  SpawnedBefore' /\ PermitStep
<1> USE DEF configVars, supervisorVars
<1>1. task \in [Tasks -> Task] /\ incarnation \in Nat /\ UnusedTask.semaphore = 1
      /\ incarnation >= 1 /\ target \in Targets
  BY DEF TypeInv, TypeOK, Incarnation, UnusedTask
<1>2. ASSUME task' = task, incarnation' = incarnation
      PROVE  SpawnedBefore' /\ SameHolders
  BY <1>2 DEF SpawnedBefore, SameHolders, HoldsPermit
<1>3. ASSUME NEW t \in Tasks, NEW next \in Task, task' = [task EXCEPT ![t] = next],
             incarnation' = incarnation, next.semaphore <= incarnation
      PROVE  /\ SpawnedBefore'
             /\ (/\ HoldsPermit(t) => /\ next.pc \in {"spawned", "registered", "queued",
                                                        "downloading", "finished"}
                                      /\ next.semaphore = task[t].semaphore
                 /\ ~HoldsPermit(t) => next.pc \notin {"spawned", "registered", "queued",
                                                         "downloading", "finished"})
                => SameHolders
  BY <1>1, <1>3 DEF SpawnedBefore, SameHolders, HoldsPermit
<1>4. CASE UNCHANGED vars
  BY <1>2, <1>4 DEF vars, PermitStep
<1>5. CASE SupervisorStep
  <2>1. CASE EnqueueDownload
    <3>1. SpawnedBefore' /\ SameHolders
      BY <2>1, DispatchHolds DEF EnqueueDownload
    <3>2. QED
      BY <2>1, <3>1 DEF EnqueueDownload, PermitStep
  <2>2. CASE RegisterWorker \/ ReportOutcome \/ ProcessPendingDownloads \/ GetSupervisorStatus
    BY <1>2, <2>2
    DEF RegisterWorker, ReportOutcome, ProcessPendingDownloads, GetSupervisorStatus, PermitStep
  <2>3. CASE DownloadCompleted
    BY <1>1, <1>2, <2>3 DEF DownloadCompleted, PermitStep
  <2>4. CASE SweepVideo
    <3>1. PICK s \in sweep : SweepVideo!(s)
      BY <2>4 DEF SweepVideo
    <3>2. /\ incarnation' = incarnation /\ free' = free /\ permits_total' = permits_total
          /\ task' = task \/ DispatchDownload(s.video, s.snapshot)
      BY <3>1
    <3>3. SpawnedBefore' /\ SameHolders
      BY <1>2, <3>2, DispatchHolds
    <3>4. QED
      BY <3>2, <3>3 DEF PermitStep
  <2>5. CASE ApplySemaphoreTarget
    <3>1. Head(mailbox).target \in Targets
      BY <2>5, ReceiveFacts, MessageFields
      DEF ApplySemaphoreTarget, TypeInv, TypeOK
    <3>2. QED
      BY <1>2, <2>5, <3>1 DEF ApplySemaphoreTarget, PermitStep
  <2>6. CASE CancelDownload
    <3>1. SpawnedBefore' /\ SameHolders
      BY <1>1, <2>6, StopHolds DEF CancelDownload
    <3>2. QED
      BY <2>6, <3>1 DEF CancelDownload, PermitStep
  <2>7. CASE JudgeFailure \/ RecordFailure
    BY <1>2, <2>7 DEF JudgeFailure, RecordFailure, PermitStep
  <2>8. QED
    BY <1>5, <2>1, <2>2, <2>3, <2>4, <2>5, <2>6, <2>7 DEF SupervisorStep
<1>6. ASSUME NEW t \in Tasks, Acquire(t) \/ TaskStep(t) PROVE SpawnedBefore' /\ PermitStep
  <2>1. task[t] \in Task /\ task[t].semaphore <= incarnation /\ incarnation' = incarnation
    BY <1>1, <1>6
    DEF SpawnedBefore, TaskStep, Acquire, TellRegisterWorker, AskStartDownload, ClaimVideo,
        EndDownload, ReleasePermit, TellDownloadCompleted, TellReportOutcome
  <2>2. /\ \/ Acquire(t) \/ ReleasePermit(t)
           \/ free' = free /\ permits_total' = permits_total
    BY <1>6
    DEF TaskStep, TellRegisterWorker, AskStartDownload, ClaimVideo,
        EndDownload, TellDownloadCompleted, TellReportOutcome
  <2>3. PICK next \in Task : task' = [task EXCEPT ![t] = next]
    <3>1. task' \in [Tasks -> Task]
      BY TypeInvNext, <1>6 DEF Next, TypeInv, TypeOK
    <3>2. \A u \in Tasks \ {t} : task'[u] = task[u]
      BY <1>1, <1>6
      DEF TaskStep, Acquire, TellRegisterWorker, AskStartDownload, ClaimVideo, EndDownload,
          ReleasePermit, TellDownloadCompleted, TellReportOutcome, Move, Finish
    <3>3. task' = [task EXCEPT ![t] = task'[t]]
      BY <1>1, <3>1, <3>2
    <3>4. QED
      BY <3>1, <3>3
  <2>4. next = task'[t]
    BY <1>1, <2>3
  <2>5. next.semaphore = task[t].semaphore \/ next.semaphore = 1
    BY <1>1, <1>6, <2>4
    DEF TaskStep, Acquire, TellRegisterWorker, AskStartDownload, ClaimVideo, EndDownload,
        ReleasePermit, TellDownloadCompleted, TellReportOutcome, Move, Finish, Task
  <2>6. SpawnedBefore'
    BY <1>1, <1>3, <2>1, <2>3, <2>5
  <2>7. CASE Acquire(t) \/ ReleasePermit(t)
    BY <2>6, <2>7 DEF PermitStep
  <2>8. CASE TaskStep(t) /\ ~ReleasePermit(t)
    <3>1. /\ HoldsPermit(t) => /\ next.pc \in {"spawned", "registered", "queued",
                                                 "downloading", "finished"}
                               /\ next.semaphore = task[t].semaphore
          /\ ~HoldsPermit(t) => next.pc \notin {"spawned", "registered", "queued",
                                                  "downloading", "finished"}
      BY <1>1, <2>4, <2>8
      DEF TaskStep, TellRegisterWorker, AskStartDownload, ClaimVideo, EndDownload,
          TellDownloadCompleted, TellReportOutcome, Move, Finish, Task, HoldsPermit, UnusedTask
    <3>2. SameHolders
      BY <1>1, <1>3, <2>1, <2>3, <2>5, <3>1
    <3>3. free' = free /\ permits_total' = permits_total
      BY <2>8
      DEF TaskStep, TellRegisterWorker, AskStartDownload, ClaimVideo,
          EndDownload, TellDownloadCompleted, TellReportOutcome
    <3>4. QED
      BY <2>6, <3>2, <3>3 DEF PermitStep
  <2>9. QED
    BY <1>6, <2>7, <2>8
<1>7. ASSUME NEW c \in Clients, ClientStep(c) PROVE SpawnedBefore' /\ PermitStep
  BY <1>2, <1>7
  DEF ClientStep, BeginOperation, ResetToPending, RereadVideo, ReleaseVideo,
      TellEnqueueDownload, AskCancelDownload, RemoveVideo, AbandonOperation,
      clientUnchanged, PermitStep
<1>8. CASE Environment
  <2>1. CASE RestartSupervisor
    <3>1. incarnation' \in Nat /\ incarnation' >= incarnation
      BY <1>1, <2>1 DEF RestartSupervisor
    <3>2. QED
      BY <2>1, <3>1, StopHolds DEF RestartSupervisor, PermitStep
  <2>2. CASE CrashAndBoot
    BY <1>1, <2>2 DEF CrashAndBoot, PermitStep, SpawnedBefore
  <2>3. CASE ~RestartSupervisor /\ ~CrashAndBoot
    BY <1>2, <1>8, <2>3
    DEF Environment, SchedulerTick, DbBackoffElapses, SetTarget, WatchTarget, TogglePause,
        BeginDrain, ProbeQuiescence, RetryBecomesDue, PermitStep
  <2>4. QED
    BY <2>1, <2>2, <2>3
<1>9. QED
  BY <1>4, <1>5, <1>6, <1>7, <1>8 DEF Next

\* A step that keeps the holders and the difference of size and free permits
\* keeps the accounts.
LEMMA AccountsKept ==
  ASSUME TypeInv, TypeInv', PermitAccounting, NEW k \in Incarnation,
         Holders(k)' = Holders(k), permits_total'[k] - free'[k] = permits_total[k] - free[k]
  PROVE  free'[k] + Cardinality(Holders(k)') = permits_total'[k]
<1>1. /\ free[k] \in Nat /\ permits_total[k] \in Nat /\ Cardinality(Holders(k)) \in Nat
      /\ free'[k] \in Nat /\ permits_total'[k] \in Nat
  BY HoldersFacts DEF TypeInv, TypeOK
<1>2. QED
  BY <1>1 DEF PermitAccounting

\* A task that acquires a permit is counted once, in the semaphore it asked.
LEMMA AcquireHolders ==
  ASSUME TypeInv, NEW t \in Tasks, Acquire(t), NEW k \in Incarnation
  PROVE  Holders(k)' = IF k = task[t].semaphore THEN Holders(k) \cup {t} ELSE Holders(k)
<1>1. task \in [Tasks -> Task]
  BY DEF TypeInv, TypeOK
<1>2. /\ task' = [task EXCEPT ![t].pc = "spawned"] /\ task[t].pc = "parked"
  BY DEF Acquire, Move
<1>3. \A u \in Tasks : /\ task'[u].semaphore = task[u].semaphore
                       /\ HoldsPermit(u)' <=> (HoldsPermit(u) \/ u = t)
  BY <1>1, <1>2 DEF Task, HoldsPermit
<1>4. QED
  BY <1>3 DEF Holders

LEMMA ReleaseHolders ==
  ASSUME TypeInv, NEW t \in Tasks, ReleasePermit(t), NEW k \in Incarnation
  PROVE  Holders(k)' = Holders(k) \ {t}
<1>1. task \in [Tasks -> Task]
  BY DEF TypeInv, TypeOK
<1>2. /\ task' = [task EXCEPT ![t].pc = "released"]
  BY DEF ReleasePermit, Move
<1>3. \A u \in Tasks : /\ task'[u].semaphore = task[u].semaphore
                       /\ HoldsPermit(u)' <=> (HoldsPermit(u) /\ u # t)
  BY <1>1, <1>2 DEF Task, HoldsPermit
<1>4. QED
  BY <1>3 DEF Holders

LEMMA KeptHolders ==
  ASSUME TypeInv, SameHolders, NEW k
  PROVE  Holders(k)' = Holders(k)
BY DEF SameHolders, Holders

\* A restart's semaphore has no holder, neither before nor after the restart.
LEMMA RestartHolders ==
  ASSUME TypeInv, SpawnedBefore, RestartSupervisor, NEW k \in Incarnation
  PROVE  /\ Holders(k)' = Holders(k)
         /\ k = incarnation + 1 => Holders(k) = {}
<1>1. incarnation \in Nat /\ task \in [Tasks -> Task]
      /\ \A t \in Tasks : task[t].semaphore \in Nat
  BY DEF TypeInv, TypeOK, Task, Incarnation
<1>2. SameHolders
  BY <1>1, StopHolds DEF RestartSupervisor
<1>3. k = incarnation + 1 => Holders(k) = {}
  BY <1>1 DEF SpawnedBefore, Holders
<1>4. QED
  BY <1>2, <1>3, KeptHolders

LEMMA PermitInvNext == PermitInv /\ [Next]_vars => PermitInv'
<1> SUFFICES ASSUME PermitInv, [Next]_vars PROVE PermitInv'
  OBVIOUS
<1> USE DEF PermitInv
<1>1. TypeInv' /\ SpawnedBefore' /\ PermitStep
  BY TypeInvNext, StepIsPermitStep
<1>2. free \in [Incarnation -> Nat] /\ permits_total \in [Incarnation -> Nat]
      /\ incarnation \in Incarnation /\ target \in Nat
  BY ConstantsAssumption DEF TypeInv, TypeOK
<1>3. SUFFICES ASSUME NEW k \in Incarnation
               PROVE  free'[k] + Cardinality(Holders(k)') = permits_total'[k]
  BY <1>1 DEF PermitAccounting
<1>4. IsFiniteSet(Holders(k)) /\ Cardinality(Holders(k)) \in Nat
      /\ free[k] + Cardinality(Holders(k)) = permits_total[k]
  BY HoldersFacts DEF PermitAccounting
<1>5. CASE SameHolders /\ free' = free /\ permits_total' = permits_total
  BY <1>1, <1>5, AccountsKept, KeptHolders
<1>6. CASE SameHolders /\ \E n \in Targets : ResizeSemaphore(n)
  <2>1. permits_total'[k] - free'[k] = permits_total[k] - free[k]
    BY <1>2, <1>6, ResizeFacts, ConstantsAssumption
  <2>2. QED
    BY <1>1, <1>6, <2>1, AccountsKept, KeptHolders
<1>7. ASSUME NEW t \in Tasks, Acquire(t)
      PROVE  free'[k] + Cardinality(Holders(k)') = permits_total'[k]
  <2>1. permits_total' = permits_total /\ free[task[t].semaphore] > 0
        /\ free' = [free EXCEPT ![task[t].semaphore] = @ - 1]
    BY <1>7 DEF Acquire
  <2>2. CASE k = task[t].semaphore
    <3>1. t \notin Holders(k) /\ Holders(k)' = Holders(k) \cup {t}
      BY <1>7, <2>2, AcquireHolders DEF Acquire, Holders, HoldsPermit
    <3>2. Cardinality(Holders(k)') = Cardinality(Holders(k)) + 1
      BY <1>4, <3>1, FS_AddElement
    <3>3. free'[k] = free[k] - 1 /\ free[k] \in Nat
      BY <1>2, <2>1, <2>2
    <3>4. QED
      BY <1>4, <2>1, <3>2, <3>3
  <2>3. CASE k # task[t].semaphore
    BY <1>2, <1>4, <1>7, <2>1, <2>3, AcquireHolders
  <2>4. QED
    BY <2>2, <2>3
<1>8. ASSUME NEW t \in Tasks, ReleasePermit(t)
      PROVE  free'[k] + Cardinality(Holders(k)') = permits_total'[k]
  <2>1. permits_total' = permits_total /\ task[t].pc = "finished"
        /\ free' = [free EXCEPT ![task[t].semaphore] = @ + 1]
    BY <1>8 DEF ReleasePermit
  <2>2. Holders(k)' = Holders(k) \ {t} /\ (t \in Holders(k) <=> k = task[t].semaphore)
    BY <1>8, <2>1, ReleaseHolders DEF Holders, HoldsPermit
  <2>3. Cardinality(Holders(k)') = IF k = task[t].semaphore THEN Cardinality(Holders(k)) - 1
                                   ELSE Cardinality(Holders(k))
    BY <1>4, <2>2, FS_RemoveElement
  <2>4. free'[k] = IF k = task[t].semaphore THEN free[k] + 1 ELSE free[k]
    BY <1>2, <2>1
  <2>5. free[k] \in Nat
    BY <1>2
  <2>6. QED
    BY <1>4, <2>1, <2>3, <2>4, <2>5
<1>9. CASE RestartSupervisor
  <2>1. /\ free' = [free EXCEPT ![incarnation + 1] = target]
        /\ permits_total' = [permits_total EXCEPT ![incarnation + 1] = target]
    BY <1>9 DEF RestartSupervisor
  <2>2. Holders(k)' = Holders(k) /\ (k = incarnation + 1 => Cardinality(Holders(k)) = 0)
    BY <1>9, RestartHolders, FS_EmptySet
  <2>3. QED
    BY <1>2, <1>4, <2>1, <2>2
<1>10. CASE CrashAndBoot
  <2>1. Holders(k)' = {}
    BY <1>10 DEF CrashAndBoot, Holders, HoldsPermit, UnusedTask
  <2>2. free' = permits_total' /\ free'[k] \in Nat
    BY <1>1, <1>10 DEF CrashAndBoot, TypeInv, TypeOK
  <2>3. QED
    BY <2>1, <2>2, FS_EmptySet
<1>11. QED
  BY <1>1, <1>5, <1>6, <1>7, <1>8, <1>9, <1>10 DEF PermitStep

\* Permit accounting holds whatever the constants are: no cancel, resize,
\* restart or crash loses a permit or mints one.
THEOREM PermitsAccounted == Spec => []PermitAccounting
<1>1. PermitInv => PermitAccounting
  BY DEF PermitInv
<1>2. QED
  BY PermitInvInit, PermitInvNext, <1>1, PTL DEF Spec

(***************************************************************************)
(* The cap on concurrency.  What is held never exceeds what the semaphore  *)
(* is sized to, and that is at most the largest target there was: it was   *)
(* given a target when it was made, growth gives it another, and a shrink  *)
(* that cannot take all it wants only leaves it smaller than before.       *)
(***************************************************************************)

SizedWithin(n) == \A k \in Incarnation : permits_total[k] <= n

CappedAt(n) == \A k \in Incarnation : Cardinality(Holders(k)) <= n

LEMMA ResizeCaps ==
  ASSUME PermitInv, NEW most \in Nat, SizedWithin(most), NEW n \in Nat, n <= most,
         ResizeSemaphore(n)
  PROVE  SizedWithin(most)'
<1>1. /\ incarnation \in Incarnation
      /\ free \in [Incarnation -> Nat] /\ permits_total \in [Incarnation -> Nat]
  BY DEF PermitInv, TypeInv, TypeOK
<1>2. \A k \in Incarnation \ {incarnation} : permits_total'[k] = permits_total[k]
  BY <1>1, ResizeFacts
<1>3. permits_total'[incarnation] <= most
  <2> DEFINE f == free[incarnation]
             p == permits_total[incarnation]
             removed == IF p - n < f THEN p - n ELSE f
  <2>1. f \in Nat /\ p \in Nat /\ p <= most
    BY <1>1 DEF SizedWithin
  <2>2. CASE n >= p
    BY <1>1, <2>2 DEF ResizeSemaphore
  <2>3. CASE ~(n >= p)
    <3>1. permits_total'[incarnation] = p - removed
      BY <1>1, <2>3 DEF ResizeSemaphore
    <3>2. removed \in Nat
      BY <2>1, <2>3
    <3>3. QED
      BY <2>1, <3>1, <3>2
  <2>4. QED
    BY <2>2, <2>3
<1>4. QED
  BY <1>1, <1>2, <1>3 DEF SizedWithin

LEMMA SizedNext ==
  ASSUME NEW most \in Nat, \A n \in Targets : n <= most
  PROVE  PermitInv /\ SizedWithin(most) /\ [Next]_vars => SizedWithin(most)'
<1> SUFFICES ASSUME PermitInv, SizedWithin(most), [Next]_vars PROVE SizedWithin(most)'
  OBVIOUS
<1>1. PermitStep
  BY StepIsPermitStep DEF PermitInv
<1>2. /\ permits_total \in [Incarnation -> Nat] /\ target \in Targets /\ Targets \subseteq Nat
  BY ConstantsAssumption DEF PermitInv, TypeInv, TypeOK
<1>3. ASSUME UNCHANGED permits_total PROVE SizedWithin(most)'
  BY <1>3 DEF SizedWithin
<1>4. ASSUME NEW n \in Targets, ResizeSemaphore(n) PROVE SizedWithin(most)'
  BY <1>2, <1>4, ResizeCaps
<1>5. ASSUME NEW t \in Tasks, Acquire(t) \/ ReleasePermit(t) PROVE SizedWithin(most)'
  BY <1>3, <1>5 DEF Acquire, ReleasePermit
<1>6. CASE RestartSupervisor
  <2>1. permits_total' = [permits_total EXCEPT ![incarnation + 1] = target]
    BY <1>6 DEF RestartSupervisor
  <2>2. QED
    BY <1>2, <2>1 DEF SizedWithin
<1>7. CASE CrashAndBoot
  <2>1. \A k \in Incarnation : permits_total'[k] \in {0, target}
    BY <1>7 DEF CrashAndBoot, FreshSemaphore
  <2>2. QED
    BY <1>2, <2>1 DEF SizedWithin
<1>8. QED
  BY <1>1, <1>3, <1>4, <1>5, <1>6, <1>7 DEF PermitStep

\* No semaphore ever runs more downloads at once than the largest value
\* max_concurrent_downloads was given, through shrinks below what is running,
\* releases, restarts and crashes.  (A restart makes a new semaphore, while
\* the downloads of the old one go on with its permits.)
THEOREM ConcurrencyIsCapped ==
  ASSUME NEW most \in Nat, \A n \in Targets : n <= most
  PROVE  Spec => []CappedAt(most)
<1>1. Init => SizedWithin(most)
  <2>1. Init => \A k \in Incarnation : permits_total[k] \in {0, target} /\ target \in Targets
    BY DEF Init, FreshSemaphore
  <2>2. QED
    BY <2>1 DEF SizedWithin
<1>2. PermitInv /\ SizedWithin(most) => CappedAt(most)
  <2> SUFFICES ASSUME PermitInv, SizedWithin(most), NEW k \in Incarnation
               PROVE  Cardinality(Holders(k)) <= most
    BY DEF CappedAt
  <2>1. /\ free[k] \in Nat /\ permits_total[k] \in Nat /\ Cardinality(Holders(k)) \in Nat
        /\ free[k] + Cardinality(Holders(k)) = permits_total[k] /\ permits_total[k] <= most
    BY HoldersFacts DEF PermitInv, PermitAccounting, SizedWithin, TypeInv, TypeOK
  <2>2. QED
    BY <2>1
<1>3. QED
  BY <1>1, <1>2, PermitInvInit, PermitInvNext, SizedNext, PTL DEF Spec

(***************************************************************************)
(* What PendingIsDispatched and ReservationsReleased rest on: a task that  *)
(* waits for a permit waits on a semaphore that has some, free or held by  *)
(* a task that will release it.                                            *)
(***************************************************************************)

Parked(t) == task[t].pc = "parked"

NobodyWaitsInVain ==
  \A t \in Tasks : Parked(t) =>
     free[task[t].semaphore] > 0 \/ Holders(task[t].semaphore) # {}

Sized(k) == permits_total[k] > 0

WaitersSized ==
  /\ Sized(incarnation)
  /\ \A t \in Tasks : Parked(t) => Sized(task[t].semaphore)

\* A task begins to wait on the semaphore of the incarnation that spawns it,
\* and only a restart begins an incarnation.
LEMMA ParkedStep ==
  ASSUME TypeInv, [Next]_vars
  PROVE  /\ RestartSupervisor \/ incarnation' = incarnation
         /\ \A t \in Tasks : Parked(t)' =>
               \/ Parked(t) /\ task'[t].semaphore = task[t].semaphore
               \/ task'[t].semaphore = incarnation
<1> DEFINE Waits ==
             \A t \in Tasks : Parked(t)' =>
                \/ Parked(t) /\ task'[t].semaphore = task[t].semaphore
                \/ task'[t].semaphore = incarnation
<1> USE DEF configVars, supervisorVars
<1>1. task \in [Tasks -> Task]
  BY DEF TypeInv, TypeOK
<1>2. ASSUME task' = task PROVE Waits
  BY <1>2 DEF Parked
<1>3. ASSUME NEW v, NEW snapshot, DispatchDownload(v, snapshot) PROVE Waits
  <2> DEFINE parked == [UnusedTask EXCEPT !.pc = "parked", !.video = v, !.semaphore = incarnation]
  <2>1. parked.semaphore = incarnation
    BY DEF UnusedTask
  <2> HIDE DEF parked
  <2>2. \/ task' = task
        \/ \E t \in Tasks : task' = [task EXCEPT ![t] = parked]
    BY <1>3 DEF DispatchDownload, parked
  <2>3. QED
    BY <1>1, <1>2, <2>1, <2>2 DEF Parked
<1>4. ASSUME NEW workers, StopWorkers(workers) PROVE Waits
  BY <1>1, <1>4 DEF StopWorkers, Task, Parked
<1>5. CASE UNCHANGED vars
  BY <1>2, <1>5 DEF vars
<1>6. CASE SupervisorStep
  <2>1. CASE EnqueueDownload
    BY <1>3, <2>1 DEF EnqueueDownload
  <2>2. CASE SweepVideo
    <3>1. PICK s \in sweep : SweepVideo!(s)
      BY <2>2 DEF SweepVideo
    <3>2. incarnation' = incarnation /\ (task' = task \/ DispatchDownload(s.video, s.snapshot))
      BY <3>1
    <3>3. QED
      BY <1>2, <1>3, <3>2
  <2>3. CASE CancelDownload
    BY <1>2, <1>4, <2>3 DEF CancelDownload
  <2>4. CASE \/ RegisterWorker \/ DownloadCompleted
             \/ ReportOutcome \/ JudgeFailure \/ RecordFailure
             \/ ProcessPendingDownloads \/ ApplySemaphoreTarget \/ GetSupervisorStatus
    BY <1>2, <2>4
    DEF RegisterWorker, DownloadCompleted, ReportOutcome, JudgeFailure, RecordFailure,
        ProcessPendingDownloads, ApplySemaphoreTarget, GetSupervisorStatus
  <2>5. QED
    BY <1>6, <2>1, <2>2, <2>3, <2>4 DEF SupervisorStep
<1>7. ASSUME NEW t \in Tasks, Acquire(t) \/ TaskStep(t)
      PROVE  incarnation' = incarnation /\ Waits
  <2>1. incarnation' = incarnation
    BY <1>7
    DEF TaskStep, Acquire, TellRegisterWorker, AskStartDownload, ClaimVideo,
        EndDownload, ReleasePermit, TellDownloadCompleted, TellReportOutcome
  <2>2. \A u \in Tasks \ {t} : task'[u] = task[u]
    BY <1>1, <1>7
    DEF TaskStep, Acquire, TellRegisterWorker, AskStartDownload, ClaimVideo, EndDownload,
        ReleasePermit, TellDownloadCompleted, TellReportOutcome, Move, Finish
  <2>3. task'[t].pc # "parked"
    BY <1>1, <1>7
    DEF TaskStep, Acquire, TellRegisterWorker, AskStartDownload, ClaimVideo, EndDownload,
        ReleasePermit, TellDownloadCompleted, TellReportOutcome, Move, Finish, UnusedTask, Task
  <2>4. QED
    BY <2>1, <2>2, <2>3 DEF Parked
<1>8. ASSUME NEW c \in Clients, ClientStep(c)
      PROVE  incarnation' = incarnation /\ Waits
  BY <1>2, <1>8
  DEF ClientStep, BeginOperation, ResetToPending, RereadVideo, ReleaseVideo,
      TellEnqueueDownload, AskCancelDownload, RemoveVideo, AbandonOperation,
      clientUnchanged
<1>9. CASE Environment
  <2>1. CASE RestartSupervisor
    BY <1>4, <2>1 DEF RestartSupervisor
  <2>2. CASE CrashAndBoot
    BY <2>2 DEF CrashAndBoot, Parked, UnusedTask
  <2>3. CASE ~RestartSupervisor /\ ~CrashAndBoot
    BY <1>2, <1>9, <2>3
    DEF Environment, SchedulerTick, DbBackoffElapses, SetTarget, WatchTarget, TogglePause,
        BeginDrain, ProbeQuiescence, RetryBecomesDue
  <2>4. QED
    BY <2>1, <2>2, <2>3
<1>10. QED
  BY <1>5, <1>6, <1>7, <1>8, <1>9 DEF Next

\* A shrink never takes the last permit as long as the target is not zero.
LEMMA ResizeKeepsSized ==
  ASSUME TypeInv, NEW n \in Nat \ {0}, ResizeSemaphore(n), NEW k \in Incarnation, Sized(k)
  PROVE  Sized(k)'
<1>1. /\ incarnation \in Incarnation
      /\ free \in [Incarnation -> Nat] /\ permits_total \in [Incarnation -> Nat]
  BY DEF TypeInv, TypeOK
<1>2. CASE k # incarnation
  BY <1>1, <1>2, ResizeFacts DEF Sized
<1>3. CASE k = incarnation
  <2> DEFINE f == free[k]
             p == permits_total[k]
             removed == IF p - n < f THEN p - n ELSE f
  <2>1. f \in Nat /\ p \in Nat /\ p > 0
    BY <1>1 DEF Sized
  <2>2. CASE n >= p
    BY <1>1, <1>3, <2>2 DEF ResizeSemaphore, Sized
  <2>3. CASE ~(n >= p)
    <3>1. permits_total'[k] = p - removed
      BY <1>1, <1>3, <2>3 DEF ResizeSemaphore
    <3>2. removed <= p - n /\ removed \in Nat
      BY <2>1, <2>3
    <3>3. QED
      BY <2>1, <3>1, <3>2 DEF Sized
  <2>4. QED
    BY <2>2, <2>3
<1>4. QED
  BY <1>2, <1>3

LEMMA WaitersSizedNext ==
  ASSUME 0 \notin Targets
  PROVE  PermitInv /\ WaitersSized /\ [Next]_vars => WaitersSized'
<1> SUFFICES ASSUME PermitInv, WaitersSized, [Next]_vars PROVE WaitersSized'
  OBVIOUS
<1>1. TypeInv /\ SpawnedBefore /\ PermitStep
  BY StepIsPermitStep DEF PermitInv
<1>2. /\ permits_total \in [Incarnation -> Nat] /\ target \in Nat \ {0}
      /\ incarnation \in Incarnation /\ incarnation \in Nat
      /\ \A t \in Tasks : task[t].semaphore \in Incarnation
      /\ \A n \in Targets : n \in Nat \ {0}
  BY <1>1, ConstantsAssumption DEF TypeInv, TypeOK, Task, Incarnation
<1>3. CASE CrashAndBoot
  <2>1. Sized(incarnation)'
    BY <1>2, <1>3 DEF CrashAndBoot, FreshSemaphore, Sized
  <2>2. \A t \in Tasks : ~Parked(t)'
    BY <1>3 DEF CrashAndBoot, Parked, UnusedTask
  <2>3. QED
    BY <2>1, <2>2 DEF WaitersSized
<1>4. CASE ~CrashAndBoot
  <2>1. ASSUME NEW k \in Incarnation, Sized(k) PROVE Sized(k)'
    <3>1. CASE UNCHANGED permits_total
      BY <2>1, <3>1 DEF Sized
    <3>2. ASSUME NEW n \in Targets, ResizeSemaphore(n) PROVE Sized(k)'
      BY <1>1, <1>2, <2>1, <3>2, ResizeKeepsSized
    <3>3. CASE RestartSupervisor
      BY <1>2, <2>1, <3>3 DEF RestartSupervisor, Sized
    <3>4. ASSUME NEW t \in Tasks, Acquire(t) \/ ReleasePermit(t) PROVE UNCHANGED permits_total
      BY <3>4 DEF Acquire, ReleasePermit
    <3>5. QED
      BY <1>1, <1>4, <3>1, <3>2, <3>3, <3>4 DEF PermitStep
  <2>2. Sized(incarnation)'
    <3>1. CASE incarnation' = incarnation
      <4>1. PICK k \in Incarnation : k = incarnation
        BY <1>2
      <4>2. Sized(k)'
        BY <2>1, <4>1 DEF WaitersSized
      <4>3. QED
        BY <3>1, <4>1, <4>2 DEF Sized
    <3>2. CASE RestartSupervisor
      <4>1. incarnation + 1 \in Incarnation
        <5>1. TypeInv'
          BY PermitInvNext DEF PermitInv
        <5>2. QED
          BY <3>2, <5>1 DEF RestartSupervisor, TypeInv, TypeOK
      <4>2. QED
        BY <1>2, <3>2, <4>1 DEF RestartSupervisor, Sized
    <3>3. QED
      BY <1>1, <3>1, <3>2, ParkedStep
  <2>3. ASSUME NEW t \in Tasks, Parked(t)' PROVE Sized(task[t].semaphore)'
    <3>1. PICK k \in Incarnation : k = task'[t].semaphore /\ Sized(k)
      BY <1>1, <1>2, <2>3, ParkedStep DEF WaitersSized
    <3>2. Sized(k)'
      BY <2>1, <3>1
    <3>3. QED
      BY <3>1, <3>2 DEF Sized
  <2>4. QED
    BY <2>2, <2>3 DEF WaitersSized
<1>5. QED
  BY <1>3, <1>4

\* Nobody waits for a permit that cannot come: a task that waits has a free
\* permit of its semaphore or somebody who holds one, although a shrink takes
\* free permits under the eyes of those that wait and a restart leaves the
\* waiters behind on the old semaphore.  max_concurrent_downloads is at least
\* 1, which validate_patch and the table's CHECK both see to.
THEOREM WaitersAreServed ==
  ASSUME 0 \notin Targets
  PROVE  Spec => []NobodyWaitsInVain
<1>1. Init => WaitersSized
  <2> SUFFICES ASSUME Init PROVE WaitersSized
    OBVIOUS
  <2>1. TypeInv
    BY TypeInvInit
  <2>2. target \in Nat \ {0} /\ incarnation = 1 /\ incarnation \in Incarnation
    BY <2>1, ConstantsAssumption DEF Init, TypeInv, TypeOK
  <2>3. Sized(incarnation)
    BY <2>2 DEF Init, FreshSemaphore, Sized
  <2>4. \A t \in Tasks : ~Parked(t)
    BY DEF Init, Parked, UnusedTask
  <2>5. QED
    BY <2>3, <2>4 DEF WaitersSized
<1>2. PermitInv /\ WaitersSized => NobodyWaitsInVain
  <2> SUFFICES ASSUME PermitInv, WaitersSized, NEW t \in Tasks, Parked(t)
               PROVE  free[task[t].semaphore] > 0 \/ Holders(task[t].semaphore) # {}
    BY DEF NobodyWaitsInVain
  <2>1. PICK k \in Incarnation : k = task[t].semaphore
    BY DEF PermitInv, TypeInv, TypeOK, Task
  <2>2. /\ free[k] \in Nat /\ permits_total[k] > 0
        /\ free[k] + Cardinality(Holders(k)) = permits_total[k]
    BY <2>1 DEF PermitInv, PermitAccounting, WaitersSized, Sized, TypeInv, TypeOK
  <2>3. Holders(k) = {} => Cardinality(Holders(k)) = 0
    BY FS_EmptySet
  <2>4. QED
    BY <2>1, <2>2, <2>3
<1>3. QED
  BY <1>1, <1>2, PermitInvInit, PermitInvNext, WaitersSizedNext, PTL DEF Spec

(***************************************************************************)
(* Refinement of PermitPools.  Each step of the pipeline is an acquire, a  *)
(* release, a resize of one pool, a reset, or leaves the pools unchanged.  *)
(***************************************************************************)

\* The instance sees FiniteSets through its own name.
LEMMA PoolCardinality == \A S : Permits!Cardinality(S) = Cardinality(S)
BY Zenon DEF Permits!Cardinality, Cardinality

LEMMA PoolsInit == Init => Permits!Init
<1> SUFFICES ASSUME Init PROVE Permits!Init
  OBVIOUS
<1>1. TypeInv
  BY TypeInvInit
<1>2. \A k : Holders(k) = {}
  BY DEF Init, Holders, HoldsPermit, UnusedTask
<1>3. QED
  BY <1>1, <1>2 DEF Permits!Init, TypeInv, TypeOK

LEMMA PoolsNext == PermitInv /\ PermitInv' /\ [Next]_vars => [Permits!Next]_(Permits!vars)
<1> SUFFICES ASSUME PermitInv, PermitInv', [Next]_vars PROVE [Permits!Next]_(Permits!vars)
  OBVIOUS
<1> USE DEF PermitInv
<1> DEFINE held == [k \in Incarnation |-> Holders(k)]
<1>1. PermitStep
  BY StepIsPermitStep
<1>2. /\ free \in [Incarnation -> Nat] /\ permits_total \in [Incarnation -> Nat]
      /\ free' \in [Incarnation -> Nat] /\ permits_total' \in [Incarnation -> Nat]
      /\ incarnation \in Incarnation /\ target \in Nat /\ task \in [Tasks -> Task]
  BY ConstantsAssumption DEF TypeInv, TypeOK
<1>3. \A k \in Incarnation : /\ Cardinality(Holders(k)) \in Nat
                             /\ free[k] + Cardinality(Holders(k)) = permits_total[k]
                             /\ free'[k] + Cardinality(Holders(k)') = permits_total'[k]
  BY HoldersFacts DEF PermitAccounting
<1>4. ASSUME \A k \in Incarnation : Holders(k)' = Holders(k) PROVE held' = held
  BY <1>4
<1>5. CASE SameHolders /\ free' = free /\ permits_total' = permits_total
  BY <1>4, <1>5, KeptHolders DEF Permits!vars
<1>6. CASE SameHolders /\ \E n \in Targets : ResizeSemaphore(n)
  <2>1. \A k \in Incarnation : Holders(k)' = Holders(k)
    BY <1>6, KeptHolders
  <2>2. \A k \in Incarnation \ {incarnation} : permits_total'[k] = permits_total[k]
    BY <1>2, <1>6, ResizeFacts, ConstantsAssumption
  <2>3. permits_total'[incarnation] >= Cardinality(Holders(incarnation))
    BY <1>2, <1>3, <2>1
  <2>4. held' = held /\ held[incarnation] = Holders(incarnation)
    BY <1>2, <1>4, <2>1
  <2>5. permits_total'[incarnation] >= Cardinality(held[incarnation])
    BY <2>3, <2>4
  <2>6. Permits!Resize(incarnation)
    BY <1>2, <2>2, <2>4, <2>5, PoolCardinality DEF Permits!Resize
  <2>7. QED
    BY <1>2, <2>6 DEF Permits!Next
<1>7. ASSUME NEW t \in Tasks, Acquire(t) PROVE Permits!Next
  <2> DEFINE s == task[t].semaphore
  <2>1. s \in Incarnation /\ permits_total' = permits_total /\ free[s] > 0
        /\ task[t].pc = "parked"
    BY <1>2, <1>7 DEF Acquire, Task
  <2>2. \A k \in Incarnation : t \notin Holders(k)
    BY <2>1 DEF Holders, HoldsPermit
  <2>3. Cardinality(Holders(s)) < permits_total[s]
    BY <1>2, <1>3, <2>1
  <2>4. held' = [held EXCEPT ![s] = Holders(s) \cup {t}]
    BY <1>7, AcquireHolders
  <2>5. held[s] = Holders(s) /\ \A k \in Incarnation : t \notin held[k]
    BY <2>1, <2>2
  <2>6. Cardinality(held[s]) < permits_total[s] /\ held' = [held EXCEPT ![s] = held[s] \cup {t}]
    BY <2>3, <2>4, <2>5
  <2>7. Permits!Acquire(s, t)
    BY <2>1, <2>5, <2>6, PoolCardinality DEF Permits!Acquire
  <2>8. QED
    BY <2>1, <2>7 DEF Permits!Next
<1>8. ASSUME NEW t \in Tasks, ReleasePermit(t) PROVE Permits!Next
  <2> DEFINE s == task[t].semaphore
  <2>1. s \in Incarnation /\ permits_total' = permits_total /\ t \in Holders(s)
    BY <1>2, <1>8 DEF ReleasePermit, Task, Holders, HoldsPermit
  <2>2. \A k \in Incarnation : k # s => t \notin Holders(k)
    BY DEF Holders
  <2>3. \A k \in Incarnation : Holders(k)' = IF k = s THEN Holders(k) \ {t} ELSE Holders(k)
    BY <1>8, <2>2, ReleaseHolders
  <2>4. held[s] = Holders(s) /\ held' = [held EXCEPT ![s] = held[s] \ {t}]
    BY <2>1, <2>3
  <2>5. Permits!Release(s, t)
    BY <2>1, <2>4 DEF Permits!Release
  <2>6. QED
    BY <2>1, <2>5 DEF Permits!Next
<1>9. CASE RestartSupervisor
  <2> DEFINE k == incarnation + 1
  <2>1. k \in Incarnation /\ permits_total' = [permits_total EXCEPT ![k] = target]
    BY <1>9 DEF RestartSupervisor, TypeInv, TypeOK
  <2>2. (\A j \in Incarnation : Holders(j)' = Holders(j)) /\ Cardinality(Holders(k)) = 0
    BY <1>9, <2>1, RestartHolders, FS_EmptySet
  <2> HIDE DEF k
  <2>3. permits_total'[k] >= Cardinality(Holders(k))
    BY <1>2, <2>1, <2>2
  <2>4. held' = held /\ held[k] = Holders(k)
    BY <1>4, <2>1, <2>2
  <2>5. permits_total'[k] >= Cardinality(held[k])
    BY <2>3, <2>4
  <2>6. \A q \in Incarnation \ {k} : permits_total'[q] = permits_total[q]
    BY <1>2, <2>1
  <2>7. Permits!Resize(k)
    BY <1>2, <2>4, <2>5, <2>6, PoolCardinality DEF Permits!Resize
  <2>8. QED
    BY <2>1, <2>7 DEF Permits!Next
<1>10. CASE CrashAndBoot
  <2>1. \A k \in Incarnation : Holders(k)' = {}
    BY <1>10 DEF CrashAndBoot, Holders, HoldsPermit, UnusedTask
  <2>2. Permits!Reset
    BY <1>2, <2>1 DEF Permits!Reset
  <2>3. QED
    BY <2>2 DEF Permits!Next
<1>11. QED
  BY <1>1, <1>5, <1>6, <1>7, <1>8, <1>9, <1>10 DEF PermitStep

\* The semaphores implement the resizable pools: an over-commitment of
\* permits is impossible in any of them, however the events interleave.
THEOREM SemaphoresImplementPools == Spec => SemaphoresArePools
<1>1. Spec => []PermitInv
  BY PermitInvInit, PermitInvNext, PTL DEF Spec
<1>2. QED
  BY <1>1, PoolsInit, PoolsNext, PTL DEF Spec, SemaphoresArePools, Permits!Spec

-----------------------------------------------------------------------------
(* Reservations and registrations.  No video is left wedged as "in flight": *)
(* every reservation and every registration is owed a DownloadCompleted, by *)
(* a task that is still to send one or by the mailbox.                      *)

LiveFor(v) == \E t \in Tasks : Live(t) /\ task[t].video = v

CompletionAfter(i, v) ==
  \E j \in DOMAIN mailbox : j > i /\ mailbox[j].kind = "DownloadCompleted"
                                  /\ mailbox[j].video = v

\* The completion of v is still to come, behind the i-th message.
Owed(i, v) == LiveFor(v) \/ CompletionAfter(i, v)

(***************************************************************************)
(* A registration is only as good as the message it came with: a           *)
(* RegisterWorker that waits in the mailbox must have the completion that  *)
(* undoes it behind it.  FIFO delivery is what makes this inductive.       *)
(***************************************************************************)

RegistrationsOwed ==
  \A i \in DOMAIN mailbox, v \in Videos :
     mailbox[i].kind = "RegisterWorker" /\ mailbox[i].video = v => Owed(i, v)

ReservationsOwed == \A v \in dispatching : Owed(0, v)

WorkersOwed == \A v \in Videos : active[v] # None => Owed(0, v)

OwedInv == TypeInv /\ RegistrationsOwed /\ ReservationsOwed /\ WorkersOwed

LEMMA OwedIsNoLeak ==
  ASSUME TypeInv
  PROVE  /\ ReservationsOwed => NoLeakedReservation
         /\ WorkersOwed => NoLeakedRegistration
BY DEF TypeInv, TypeOK, ReservationsOwed, WorkersOwed, Owed, LiveFor, CompletionAfter,
       NoLeakedReservation, NoLeakedRegistration, Queued

LEMMA OwedInvInit == Init => OwedInv
<1> SUFFICES ASSUME Init PROVE OwedInv
  OBVIOUS
<1>1. TypeInv
  BY TypeInvInit
<1>2. DOMAIN mailbox = {1} /\ mailbox[1].kind = "ProcessPendingDownloads"
  BY DEF Init
<1>3. QED
  BY <1>1, <1>2 DEF Init, OwedInv, RegistrationsOwed, ReservationsOwed, WorkersOwed

\* A step that takes no task out of its dispatch.
LiveKept == \A v \in Videos : LiveFor(v) => LiveFor(v)'

LEMMA OwedStays ==
  ASSUME LiveKept, mailbox' = mailbox, NEW i, NEW v \in Videos, Owed(i, v)
  PROVE  Owed(i, v)'
BY DEF LiveKept, Owed, CompletionAfter

LEMMA OwedTold ==
  ASSUME mailbox \in Seq(Message), NEW m \in Message, Tell(m), NEW v \in Videos,
         LiveFor(v) => LiveFor(v)' \/ (m.kind = "DownloadCompleted" /\ m.video = v),
         NEW i \in 0 .. Len(mailbox), Owed(i, v)
  PROVE  Owed(i, v)'
<1>1. /\ Len(mailbox) \in Nat /\ DOMAIN mailbox = 1 .. Len(mailbox)
      /\ DOMAIN mailbox' = 1 .. Len(mailbox) + 1
      /\ \A j \in DOMAIN mailbox : mailbox'[j] = mailbox[j]
      /\ mailbox'[Len(mailbox) + 1] = m
  BY TellFacts
<1>2. Len(mailbox) + 1 \in DOMAIN mailbox' /\ Len(mailbox) + 1 > i
  BY <1>1
<1>3. CASE LiveFor(v)
  BY <1>1, <1>2, <1>3 DEF Owed, CompletionAfter
<1>4. CASE CompletionAfter(i, v)
  <2>1. PICK j \in DOMAIN mailbox : j > i /\ mailbox[j].kind = "DownloadCompleted"
                                          /\ mailbox[j].video = v
    BY <1>4 DEF CompletionAfter
  <2>2. j \in DOMAIN mailbox' /\ mailbox'[j] = mailbox[j]
    BY <1>1
  <2>3. QED
    BY <2>1, <2>2 DEF Owed, CompletionAfter
<1>5. QED
  BY <1>3, <1>4 DEF Owed

\* When the head leaves, every other message moves one place forward.
Shifted ==
  /\ mailbox \in Seq(Message) /\ mailbox # <<>>
  /\ mailbox' = Tail(mailbox)

LEMMA ShiftFacts ==
  ASSUME Shifted
  PROVE  /\ Len(mailbox) \in Nat /\ Len(mailbox) > 0
         /\ DOMAIN mailbox = 1 .. Len(mailbox)
         /\ DOMAIN mailbox' = 1 .. Len(mailbox) - 1
         /\ \A i \in DOMAIN mailbox' : mailbox'[i] = mailbox[i + 1]
BY HeadTailProperties, LenProperties, EmptySeq DEF Shifted

LEMMA OwedShifts ==
  ASSUME Shifted, LiveKept, NEW v \in Videos, NEW i \in Nat, Owed(i + 1, v)
  PROVE  Owed(i, v)'
<1>1. CASE LiveFor(v)
  BY <1>1 DEF LiveKept, Owed
<1>2. CASE CompletionAfter(i + 1, v)
  <2>1. PICK j \in DOMAIN mailbox : j > i + 1 /\ mailbox[j].kind = "DownloadCompleted"
                                              /\ mailbox[j].video = v
    BY <1>2 DEF CompletionAfter
  <2>2. j - 1 \in DOMAIN mailbox' /\ j - 1 > i /\ mailbox'[j - 1] = mailbox[j]
    BY <2>1, ShiftFacts
  <2>3. QED
    BY <2>1, <2>2 DEF Owed, CompletionAfter
<1>3. QED
  BY <1>1, <1>2 DEF Owed

LEMMA OwedPastHead ==
  ASSUME Shifted, NEW v \in Videos, Owed(0, v),
         ~(Head(mailbox).kind = "DownloadCompleted" /\ Head(mailbox).video = v)
  PROVE  Owed(1, v)
<1>1. Head(mailbox) = mailbox[1]
  BY HeadTailProperties DEF Shifted
<1>2. CASE CompletionAfter(0, v)
  BY <1>1, <1>2, ShiftFacts DEF CompletionAfter, Owed
<1>3. QED
  BY <1>2 DEF Owed

\* The mailbox part of the invariant is kept by a step that only shifts.
LEMMA RegistrationsShift ==
  ASSUME TypeInv, RegistrationsOwed, Shifted, LiveKept
  PROVE  RegistrationsOwed'
<1> SUFFICES ASSUME NEW i \in DOMAIN mailbox', NEW v \in Videos,
                    mailbox'[i].kind = "RegisterWorker", mailbox'[i].video = v
             PROVE  Owed(i, v)'
  BY DEF RegistrationsOwed
<1>1. i \in Nat /\ i + 1 \in DOMAIN mailbox /\ mailbox'[i] = mailbox[i + 1]
  BY ShiftFacts
<1>2. Owed(i + 1, v)
  BY <1>1 DEF RegistrationsOwed
<1>3. QED
  BY <1>1, <1>2, OwedShifts

\* So is it by a step that tells the supervisor something; a registration is
\* told by a task that is live.
LEMMA RegistrationsTold ==
  ASSUME TypeInv, RegistrationsOwed, NEW m \in Message, Tell(m),
         \A v \in Videos :
            /\ LiveFor(v) => LiveFor(v)' \/ (m.kind = "DownloadCompleted" /\ m.video = v)
            /\ m.kind = "RegisterWorker" /\ m.video = v => LiveFor(v)'
  PROVE  RegistrationsOwed'
<1> SUFFICES ASSUME NEW i \in DOMAIN mailbox', NEW v \in Videos,
                    mailbox'[i].kind = "RegisterWorker", mailbox'[i].video = v
             PROVE  Owed(i, v)'
  BY DEF RegistrationsOwed
<1>1. mailbox \in Seq(Message)
  BY DEF TypeInv, TypeOK
<1>2. /\ Len(mailbox) \in Nat /\ DOMAIN mailbox = 1 .. Len(mailbox)
      /\ DOMAIN mailbox' = 1 .. Len(mailbox) + 1
      /\ \A j \in DOMAIN mailbox : mailbox'[j] = mailbox[j]
      /\ mailbox'[Len(mailbox) + 1] = m
  BY <1>1, TellFacts
<1>3. CASE i \in DOMAIN mailbox
  <2>1. Owed(i, v) /\ i \in 0 .. Len(mailbox)
    BY <1>2, <1>3 DEF RegistrationsOwed
  <2>2. QED
    BY <1>1, <2>1, OwedTold
<1>4. CASE i = Len(mailbox) + 1
  BY <1>2, <1>4 DEF Owed
<1>5. QED
  BY <1>2, <1>3, <1>4

\* A dispatch reserves its video for the task it spawns.
LEMMA DispatchOwed ==
  ASSUME TypeInv, NEW v \in Videos, NEW snapshot, DispatchDownload(v, snapshot)
  PROVE  /\ LiveKept
         /\ \A w \in dispatching' : w \in dispatching \/ LiveFor(w)'
<1>1. task \in [Tasks -> Task]
  BY DEF TypeInv, TypeOK
<1> DEFINE parked == [UnusedTask EXCEPT !.pc = "parked", !.video = v, !.semaphore = incarnation]
<1>2. parked.pc = "parked" /\ parked.video = v
  BY DEF UnusedTask
<1> HIDE DEF parked
<1>3. CASE UNCHANGED <<task, dispatching>>
  BY <1>3 DEF LiveKept, LiveFor, Live
<1>4. ASSUME NEW t \in Tasks, task[t].pc = "unused", task' = [task EXCEPT ![t] = parked],
             dispatching' = dispatching \cup {v}
      PROVE  LiveKept /\ \A w \in dispatching' : w \in dispatching \/ LiveFor(w)'
  BY <1>1, <1>2, <1>4 DEF LiveKept, LiveFor, Live
<1>5. QED
  BY <1>3, <1>4 DEF DispatchDownload, parked

LEMMA StopOwed ==
  ASSUME TypeInv, NEW workers, StopWorkers(workers)
  PROVE  LiveKept
<1>1. \A t \in Tasks : task'[t].pc = task[t].pc /\ task'[t].video = task[t].video
  BY DEF TypeInv, TypeOK, StopWorkers, Task
<1>2. QED
  BY <1>1 DEF LiveKept, LiveFor, Live

Ledger == RegistrationsOwed /\ ReservationsOwed /\ WorkersOwed

\* The head's completion of v is the one thing that may be taken off v.
Completes(v) == Head(mailbox).kind = "DownloadCompleted" /\ Head(mailbox).video = v

LEMMA LedgerShift ==
  ASSUME OwedInv, TypeInv', Shifted, LiveKept,
         \A v \in Videos : v \in dispatching' => \/ LiveFor(v)'
                                                 \/ v \in dispatching /\ ~Completes(v),
         \A v \in Videos : active'[v] # None => \/ Owed(1, v)
                                                \/ active[v] # None /\ ~Completes(v)
  PROVE  Ledger'
<1>1. RegistrationsOwed'
  BY RegistrationsShift DEF OwedInv
<1>2. ASSUME NEW v \in Videos, Owed(1, v) PROVE Owed(0, v)'
  <2>1. Owed(0 + 1, v)
    BY <1>2
  <2>2. QED
    BY <2>1, OwedShifts
<1>3. ASSUME NEW v \in Videos, v \in dispatching' PROVE Owed(0, v)'
  <2>1. CASE LiveFor(v)'
    BY <2>1 DEF Owed
  <2>2. CASE v \in dispatching /\ ~Completes(v)
    BY <1>2, <2>2, OwedPastHead DEF OwedInv, ReservationsOwed, Completes
  <2>3. QED
    BY <1>3, <2>1, <2>2
<1>4. ASSUME NEW v \in Videos, active'[v] # None PROVE Owed(0, v)'
  <2>1. CASE active[v] # None /\ ~Completes(v)
    BY <1>2, <2>1, OwedPastHead DEF OwedInv, WorkersOwed, Completes
  <2>2. QED
    BY <1>2, <1>4, <2>1
<1>5. QED
  BY <1>1, <1>3, <1>4 DEF Ledger, ReservationsOwed, WorkersOwed, TypeInv, TypeOK

LEMMA LedgerTold ==
  ASSUME OwedInv, NEW m \in Message, Tell(m), dispatching' = dispatching, active' = active,
         \A v \in Videos :
            /\ LiveFor(v) => LiveFor(v)' \/ (m.kind = "DownloadCompleted" /\ m.video = v)
            /\ m.kind = "RegisterWorker" /\ m.video = v => LiveFor(v)'
  PROVE  Ledger'
<1>1. RegistrationsOwed'
  BY RegistrationsTold DEF OwedInv
<1>2. mailbox \in Seq(Message) /\ 0 \in 0 .. Len(mailbox) /\ dispatching \subseteq Videos
  BY DEF OwedInv, TypeInv, TypeOK
<1>3. \A v \in Videos : Owed(0, v) => Owed(0, v)'
  BY <1>2, OwedTold
<1>4. QED
  BY <1>1, <1>2, <1>3 DEF Ledger, OwedInv, ReservationsOwed, WorkersOwed

LEMMA LedgerStays ==
  ASSUME OwedInv, TypeInv', LiveKept, mailbox' = mailbox,
         \A v \in Videos : v \in dispatching' => v \in dispatching \/ LiveFor(v)',
         \A v \in Videos : active'[v] # None => active[v] # None
  PROVE  Ledger'
<1>1. \A i, v : v \in Videos /\ Owed(i, v) => Owed(i, v)'
  BY OwedStays
<1>2. RegistrationsOwed'
  BY <1>1 DEF OwedInv, RegistrationsOwed
<1>3. \A v \in Videos : v \in dispatching' => Owed(0, v)'
  BY <1>1 DEF OwedInv, ReservationsOwed, Owed
<1>4. \A v \in Videos : active'[v] # None => Owed(0, v)'
  BY <1>1 DEF OwedInv, WorkersOwed
<1>5. QED
  BY <1>2, <1>3, <1>4 DEF Ledger, ReservationsOwed, WorkersOwed, TypeInv, TypeOK

LEMMA TaskKept ==
  ASSUME task' = task PROVE LiveKept
BY DEF LiveKept, LiveFor, Live

\* Every handler that takes the head of the mailbox keeps the ledger.
LEMMA LedgerSupervisor ==
  ASSUME OwedInv, TypeInv', SupervisorStep
  PROVE  Ledger'
<1> USE DEF OwedInv, configVars, supervisorVars
<1>1. mailbox \in Seq(Message) /\ dispatching \subseteq Videos
      /\ active \in [Videos -> Tasks \cup {None}]
  BY DEF TypeInv, TypeOK
<1>2. ASSUME NEW kind, Receive(kind)
      PROVE  /\ Shifted /\ Head(mailbox).kind = kind
             /\ Head(mailbox) \in Message /\ Head(mailbox) = mailbox[1] /\ 1 \in DOMAIN mailbox
             /\ kind # "DownloadCompleted" => \A v : ~Completes(v)
  BY <1>1, <1>2, ReceiveFacts DEF Receive, Shifted, Completes
<1>3. CASE EnqueueDownload
  <2>1. Shifted /\ (\A v : ~Completes(v)) /\ Head(mailbox).video \in Videos
    BY <1>2, <1>3, MessageFields DEF EnqueueDownload
  <2>2. LiveKept /\ \A v \in dispatching' : v \in dispatching \/ LiveFor(v)'
    BY <1>3, <2>1, DispatchOwed DEF EnqueueDownload
  <2>3. active' = active
    BY <1>3 DEF EnqueueDownload
  <2>4. QED
    BY <2>1, <2>2, <2>3, LedgerShift
<1>4. CASE RegisterWorker
  <2>1. /\ Shifted /\ (\A v : ~Completes(v)) /\ Head(mailbox).video \in Videos
        /\ Head(mailbox).kind = "RegisterWorker" /\ Head(mailbox) = mailbox[1]
        /\ 1 \in DOMAIN mailbox
    BY <1>2, <1>4, MessageFields DEF RegisterWorker
  <2>2. LiveKept /\ dispatching' = dispatching
    BY <1>4, TaskKept DEF RegisterWorker
  <2>3. Owed(1, Head(mailbox).video)
    BY <2>1 DEF RegistrationsOwed
  <2>4. \A v \in Videos : active'[v] # None => Owed(1, v) \/ active[v] # None
    BY <1>1, <1>4, <2>3 DEF RegisterWorker
  <2>5. QED
    BY <2>1, <2>2, <2>4, LedgerShift
<1>5. CASE DownloadCompleted
  <2>1. Shifted /\ Head(mailbox).kind = "DownloadCompleted" /\ Head(mailbox).video \in Videos
    BY <1>2, <1>5, MessageFields DEF DownloadCompleted
  <2>2. LiveKept
    BY <1>5, TaskKept DEF DownloadCompleted
  <2>3. \A v \in Videos : v \in dispatching' => v \in dispatching /\ ~Completes(v)
    BY <1>5, <2>1 DEF DownloadCompleted, ForgetDispatch, Completes
  <2>4. \A v \in Videos : active'[v] # None => active[v] # None /\ ~Completes(v)
    BY <1>1, <1>5, <2>1 DEF DownloadCompleted, ForgetDispatch, Completes
  <2>5. QED
    BY <2>1, <2>2, <2>3, <2>4, LedgerShift
<1>6. CASE ReportOutcome \/ ProcessPendingDownloads \/ ApplySemaphoreTarget \/ GetSupervisorStatus
  <2>1. Shifted /\ \A v : ~Completes(v)
    BY <1>2, <1>6
    DEF ReportOutcome, ProcessPendingDownloads, ApplySemaphoreTarget, GetSupervisorStatus
  <2>2. task' = task /\ dispatching' = dispatching /\ active' = active
    BY <1>6
    DEF ReportOutcome, ProcessPendingDownloads, ApplySemaphoreTarget, GetSupervisorStatus
  <2>3. QED
    BY <2>1, <2>2, TaskKept, LedgerShift
<1>7. CASE SweepVideo
  <2>1. PICK s \in sweep : SweepVideo!(s)
    BY <1>7 DEF SweepVideo
  <2>2. s.video \in Videos /\ mailbox' = mailbox /\ active' = active
    BY <2>1 DEF TypeInv, TypeOK
  <2>3. \/ task' = task /\ dispatching' = dispatching
        \/ DispatchDownload(s.video, s.snapshot)
    BY <2>1
  <2>4. LiveKept /\ \A v \in dispatching' : v \in dispatching \/ LiveFor(v)'
    BY <2>2, <2>3, TaskKept, DispatchOwed
  <2>5. QED
    BY <2>2, <2>4, LedgerStays
<1>8. CASE CancelDownload
  <2>1. Shifted /\ (\A v : ~Completes(v)) /\ Head(mailbox).video \in Videos
    BY <1>2, <1>8, MessageFields DEF CancelDownload
  <2>2. LiveKept
    BY <1>8, StopOwed DEF CancelDownload
  <2>3. \A v \in Videos : v \in dispatching' => v \in dispatching
    BY <1>8 DEF CancelDownload, ForgetDispatch
  <2>4. \A v \in Videos : active'[v] # None => active[v] # None
    BY <1>1, <1>8 DEF CancelDownload, ForgetDispatch
  <2>5. QED
    BY <2>1, <2>2, <2>3, <2>4, LedgerShift
<1>9. CASE JudgeFailure
  BY <1>9, TaskKept, LedgerStays DEF JudgeFailure
<1>10. CASE RecordFailure
  <2>1. Shifted /\ \A v : ~Completes(v)
    BY <1>1, <1>10, RecordTakes, TakenFacts DEF Taken, Shifted, Completes
  <2>2. task' = task /\ dispatching' = dispatching /\ active' = active
    BY <1>10 DEF RecordFailure
  <2>3. QED
    BY <2>1, <2>2, TaskKept, LedgerShift
<1>11. QED
  BY <1>3, <1>4, <1>5, <1>6, <1>7, <1>8, <1>9, <1>10 DEF SupervisorStep

\* A task leaves its dispatch only by telling the supervisor so.
LEMMA LedgerTask ==
  ASSUME OwedInv, TypeInv', NEW t \in Tasks, Acquire(t) \/ TaskStep(t)
  PROVE  Ledger'
<1> USE DEF OwedInv, configVars, supervisorVars
<1>1. task \in [Tasks -> Task] /\ (task[t].pc # "unused" => task[t].video \in Videos)
      /\ (task[t].pc = "reporting" => task[t].outcome \in Outcome)
  BY DEF TypeInv, TypeOK, TaskInUse
<1>2. dispatching' = dispatching /\ active' = active
  BY DEF Acquire, TaskStep, TellRegisterWorker, AskStartDownload, ClaimVideo, EndDownload,
         ReleasePermit, TellDownloadCompleted, TellReportOutcome
<1>3. \A u \in Tasks \ {t} : task'[u] = task[u]
  BY <1>1
  DEF Acquire, TaskStep, TellRegisterWorker, AskStartDownload, ClaimVideo, EndDownload,
      ReleasePermit, TellDownloadCompleted, TellReportOutcome, Move, Finish
<1>4. \A v \in Videos : LiveFor(v) => LiveFor(v)' \/ (Live(t) /\ ~Live(t)' /\ task[t].video = v)
                                      \/ task'[t].video # task[t].video
  BY <1>3 DEF LiveFor, Live
<1>5. CASE Acquire(t) \/ AskStartDownload(t) \/ ClaimVideo(t) \/ EndDownload(t) \/ ReleasePermit(t)
  <2>1. mailbox' = mailbox
    BY <1>5 DEF Acquire, AskStartDownload, ClaimVideo, EndDownload, ReleasePermit
  <2>2. Live(t)' /\ task'[t].video = task[t].video
    BY <1>1, <1>5
    DEF Acquire, AskStartDownload, ClaimVideo, EndDownload, ReleasePermit, Move, Finish, Live, Task
  <2>3. LiveKept
    BY <1>4, <2>2 DEF LiveKept
  <2>4. QED
    BY <1>2, <2>1, <2>3, LedgerStays
<1>6. CASE TellRegisterWorker(t)
  <2> DEFINE m == [kind |-> "RegisterWorker", video |-> task[t].video, worker |-> t]
  <2>1. m \in Message /\ m.kind = "RegisterWorker" /\ m.video = task[t].video
    BY <1>1, <1>6 DEF TellRegisterWorker, Message
  <2>2. Live(t)' /\ task'[t].video = task[t].video
    BY <1>1, <1>6 DEF TellRegisterWorker, Move, Live, Task
  <2>3. Tell(m)
    BY <1>6 DEF TellRegisterWorker
  <2> HIDE DEF m
  <2>4. \A v \in Videos : (LiveFor(v) => LiveFor(v)') /\ (m.video = v => LiveFor(v)')
    BY <1>4, <2>1, <2>2 DEF LiveFor
  <2>5. QED
    BY <1>2, <2>1, <2>3, <2>4, LedgerTold
<1>7. CASE TellDownloadCompleted(t)
  <2> DEFINE m == [kind |-> "DownloadCompleted", video |-> task[t].video]
  <2>1. m \in Message /\ m.kind = "DownloadCompleted" /\ m.video = task[t].video
    BY <1>1, <1>7 DEF TellDownloadCompleted, Message
  <2>2. Tell(m)
    BY <1>7 DEF TellDownloadCompleted
  <2> HIDE DEF m
  <2>3. \A v \in Videos : LiveFor(v) => LiveFor(v)' \/ m.video = v
    BY <1>3, <2>1 DEF LiveFor, Live
  <2>4. QED
    BY <1>2, <2>1, <2>2, <2>3, LedgerTold
<1>8. CASE TellReportOutcome(t)
  <2> DEFINE m == [kind |-> "ReportOutcome", video |-> task[t].video, outcome |-> task[t].outcome]
  <2>1. m \in Message /\ m.kind = "ReportOutcome"
    BY <1>1, <1>8 DEF TellReportOutcome, Message
  <2>2. Tell(m) /\ ~Live(t)
    BY <1>8 DEF TellReportOutcome, Live
  <2> HIDE DEF m
  <2>3. \A v \in Videos : LiveFor(v) => LiveFor(v)'
    BY <1>3, <2>2 DEF LiveFor, Live
  <2>4. QED
    BY <1>2, <2>1, <2>2, <2>3, LedgerTold
<1>9. QED
  BY <1>5, <1>6, <1>7, <1>8 DEF TaskStep

\* Clients and the environment only ask; a restart and a crash forget all.
LEMMA LedgerOthers ==
  ASSUME OwedInv, TypeInv',
         \/ \E c \in Clients : ClientStep(c)
         \/ Environment
  PROVE  Ledger'
<1> USE DEF OwedInv, configVars, supervisorVars
<1>1. ASSUME task' = task, dispatching' = dispatching, active' = active,
             \/ mailbox' = mailbox
             \/ \E m \in Message : /\ m.kind \notin {"DownloadCompleted", "RegisterWorker"}
                                   /\ Tell(m)
      PROVE  Ledger'
  <2>1. LiveKept
    BY <1>1, TaskKept
  <2>2. QED
    BY <1>1, <2>1, LedgerStays, LedgerTold DEF LiveKept
<1>2. ASSUME NEW c \in Clients, ClientStep(c) PROVE Ledger'
  <2>1. task' = task /\ dispatching' = dispatching /\ active' = active
    BY <1>2
    DEF ClientStep, BeginOperation, ResetToPending, RereadVideo, ReleaseVideo,
        TellEnqueueDownload, AskCancelDownload, RemoveVideo, AbandonOperation, clientUnchanged
  <2>2. \/ mailbox' = mailbox
        \/ Tell([kind |-> "EnqueueDownload", video |-> client[c].video,
                 snapshot |-> client[c].snapshot]) /\ client[c].pc = "enqueue"
        \/ Tell([kind |-> "CancelDownload", video |-> client[c].video])
           /\ client[c].pc = "cancel"
    BY <1>2
    DEF ClientStep, BeginOperation, ResetToPending, RereadVideo, ReleaseVideo,
        TellEnqueueDownload, AskCancelDownload, RemoveVideo, AbandonOperation, clientUnchanged
  <2>3. ClientInUse(c)
    BY DEF TypeInv
  <2>4. client[c].pc = "enqueue" =>
           [kind |-> "EnqueueDownload", video |-> client[c].video,
            snapshot |-> client[c].snapshot] \in Message
    BY <2>3 DEF ClientInUse, Message
  <2>5. client[c].pc = "cancel" =>
           [kind |-> "CancelDownload", video |-> client[c].video] \in Message
    BY <2>3 DEF ClientInUse, Message
  <2>6. \/ mailbox' = mailbox
        \/ \E m \in Message : /\ m.kind \notin {"DownloadCompleted", "RegisterWorker"}
                              /\ Tell(m)
    BY <2>2, <2>4, <2>5
  <2>7. QED
    BY <1>1, <2>1, <2>6
<1>3. CASE Environment /\ ~RestartSupervisor /\ ~CrashAndBoot
  <2>1. /\ task' = task /\ dispatching' = dispatching /\ active' = active
        /\ \/ mailbox' = mailbox
           \/ Tell([kind |-> "ApplySemaphoreTarget", target |-> target])
           \/ Tell([kind |-> "ProcessPendingDownloads"])
           \/ Tell([kind |-> "GetSupervisorStatus"])
    BY <1>3
    DEF Environment, SchedulerTick, DbBackoffElapses, SetTarget, WatchTarget, TogglePause,
        BeginDrain, ProbeQuiescence, RetryBecomesDue
  <2>2. /\ [kind |-> "ApplySemaphoreTarget", target |-> target] \in Message
        /\ [kind |-> "ProcessPendingDownloads"] \in Message
        /\ [kind |-> "GetSupervisorStatus"] \in Message
    BY DEF TypeInv, TypeOK, Message
  <2>3. \/ mailbox' = mailbox
        \/ \E m \in Message : /\ m.kind \notin {"DownloadCompleted", "RegisterWorker"}
                              /\ Tell(m)
    BY <2>1, <2>2
  <2>4. QED
    BY <1>1, <2>1, <2>3
<1>4. CASE RestartSupervisor
  <2>1. LiveKept
    BY <1>4, StopOwed DEF RestartSupervisor
  <2>2. dispatching' = {} /\ \A v \in Videos : active'[v] = None
    BY <1>4 DEF RestartSupervisor
  <2>3. mailbox' = mailbox \/ Shifted
    BY <1>4 DEF RestartSupervisor, Shifted, TypeInv, TypeOK
  <2>4. QED
    BY <2>1, <2>2, <2>3, LedgerStays, LedgerShift
<1>5. CASE CrashAndBoot
  <2>1. DOMAIN mailbox' = {1} /\ mailbox'[1].kind = "ProcessPendingDownloads"
    BY <1>5 DEF CrashAndBoot
  <2>2. dispatching' = {} /\ \A v \in Videos : active'[v] = None
    BY <1>5 DEF CrashAndBoot
  <2>3. QED
    BY <2>1, <2>2 DEF Ledger, RegistrationsOwed, ReservationsOwed, WorkersOwed
<1>6. QED
  BY <1>2, <1>3, <1>4, <1>5

LEMMA OwedInvNext == OwedInv /\ [Next]_vars => OwedInv'
<1> SUFFICES ASSUME OwedInv, [Next]_vars PROVE OwedInv'
  OBVIOUS
<1>1. TypeInv'
  BY TypeInvNext DEF OwedInv
<1>2. CASE UNCHANGED vars
  <2>1. LiveKept /\ mailbox' = mailbox /\ dispatching' = dispatching /\ active' = active
    BY <1>2, TaskKept DEF vars, supervisorVars
  <2>2. QED
    BY <1>1, <2>1, LedgerStays DEF Ledger, OwedInv
<1>3. CASE Next
  BY <1>1, <1>3, LedgerSupervisor, LedgerTask, LedgerOthers DEF Next, Ledger, OwedInv
<1>4. QED
  BY <1>2, <1>3

\* A reserved video is never left wedged: the completion that releases it is
\* still to come, whatever cancels, restarts and crashes intervene.
THEOREM ReservationsDoNotLeak == Spec => []NoLeakedReservation
<1>1. OwedInv => NoLeakedReservation
  BY OwedIsNoLeak DEF OwedInv
<1>2. QED
  BY OwedInvInit, OwedInvNext, <1>1, PTL DEF Spec

\* Nor is a registered worker.  A RegisterWorker handled after its task has
\* gone, even by a later incarnation, is followed by its completion.
THEOREM RegistrationsDoNotLeak == Spec => []NoLeakedRegistration
<1>1. OwedInv => NoLeakedRegistration
  BY OwedIsNoLeak DEF OwedInv
<1>2. QED
  BY OwedInvInit, OwedInvNext, <1>1, PTL DEF Spec
=============================================================================
