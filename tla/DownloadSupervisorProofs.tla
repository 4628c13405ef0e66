---------------------- MODULE DownloadSupervisorProofs ----------------------
(***************************************************************************)
(* Proofs about DownloadSupervisor, for every number of videos, tasks and  *)
(* clients, every mailbox capacity and every budget of the environment.    *)
(***************************************************************************)
EXTENDS DownloadSupervisor, SequenceTheorems, FiniteSetTheorems, TLAPS

(***************************************************************************)
(* Lemmas about the operators                                              *)
(***************************************************************************)

LEMMA FreshRows == NewVideo \in Row /\ Absent \in Row
BY DEF Row, NewVideo, Absent, VideoStatus, RetryTime

\* Every statement of db/video.rs maps a row to a row.
LEMMA RowStatements ==
  ASSUME NEW r \in Row
  PROVE  /\ UpsertVideo(r) \in Row
         /\ \A s \in VideoStatus : UpdateVideoStatus(r, s) \in Row
         /\ MarkVideoDownloading(r) \in Row
         /\ MarkVideoCompleted(r) \in Row
         /\ DeferVideoForQuality(r) \in Row
         /\ ReleaseFromQualityGate(r) \in Row
         /\ \A o \in Verdict : MarkVideoFailed(r, o) \in Row
         /\ ResetStuckDownload(r) \in Row
         /\ SnapshotOf(r) \in Snapshot
<1>2. UpsertVideo(r) \in Row
  BY FreshRows DEF UpsertVideo
<1>3. \A s \in VideoStatus : UpdateVideoStatus(r, s) \in Row
  BY DEF Row, UpdateVideoStatus, RetryTime
<1>4. MarkVideoDownloading(r) \in Row /\ MarkVideoCompleted(r) \in Row
  <2>1. r.attempts \in Nat /\ r.attempts + 1 \in Nat
    BY DEF Row
  <2>2. MarkVideoDownloading(r) \in Row
    BY <2>1 DEF Row, MarkVideoDownloading, VideoStatus, RetryTime
  <2>3. MarkVideoCompleted(r) \in Row
    BY DEF Row, MarkVideoCompleted, VideoStatus, RetryTime
  <2>4. QED
    BY <2>2, <2>3
<1>5. DeferVideoForQuality(r) \in Row /\ ReleaseFromQualityGate(r) \in Row
  <2> DEFINE left == IF r.attempts > 0 THEN r.attempts - 1 ELSE 0
  <2>1. left \in Nat
    BY DEF Row
  <2>2. DeferVideoForQuality(r) = [r EXCEPT !.status = "awaiting_quality",
                                           !.attempts = left, !.next_retry = "future"]
    BY DEF DeferVideoForQuality
  <2> HIDE DEF left
  <2>3. DeferVideoForQuality(r) \in Row
    BY <2>1, <2>2 DEF Row, VideoStatus, RetryTime
  <2>4. ReleaseFromQualityGate(r) \in Row
    BY DEF Row, ReleaseFromQualityGate, VideoStatus, RetryTime
  <2>5. QED
    BY <2>3, <2>4
<1>6. \A o \in Verdict : MarkVideoFailed(r, o) \in Row
  BY DEF Row, MarkVideoFailed, VideoStatus, RetryTime
<1>7. ResetStuckDownload(r) \in Row /\ SnapshotOf(r) \in Snapshot
  BY DEF Row, ResetStuckDownload, SnapshotOf, Snapshot, VideoStatus, RetryTime
<1>8. QED
  BY <1>2, <1>3, <1>4, <1>5, <1>6, <1>7

LEMMA RetryDueTyped ==
  ASSUME NEW r \in Row
  PROVE  [r EXCEPT !.next_retry = "due"] \in Row
BY DEF Row, RetryTime

LEMMA FreshTask == UnusedTask \in Task /\ UnusedTask.pc = "unused"
<1>1. 1 \in Incarnation
  BY ConstantsAssumption DEF Incarnation, BudgetKeys
<1>2. QED
  BY <1>1 DEF UnusedTask, Task, PC

\* tell and ask append one message and move none of those that wait.
LEMMA TellFacts ==
  ASSUME NEW m \in Message, mailbox \in Seq(Message), Tell(m)
  PROVE  /\ mailbox' \in Seq(Message)
         /\ Len(mailbox) \in Nat
         /\ DOMAIN mailbox = 1 .. Len(mailbox)
         /\ DOMAIN mailbox' = 1 .. Len(mailbox) + 1
         /\ \A i \in DOMAIN mailbox : mailbox'[i] = mailbox[i]
         /\ mailbox'[Len(mailbox) + 1] = m
BY DEF Tell

\* The head of the mailbox leaves it.
Taken(kind) == mailbox # <<>> /\ Head(mailbox).kind = kind /\ mailbox' = Tail(mailbox)

\* Every other message moves one place forward.
LEMMA TakenFacts ==
  ASSUME NEW kind, mailbox \in Seq(Message), Taken(kind)
  PROVE  /\ Head(mailbox) \in Message /\ Head(mailbox).kind = kind
         /\ Head(mailbox) = mailbox[1]
         /\ mailbox' \in Seq(Message)
         /\ Len(mailbox) \in Nat \ {0}
         /\ DOMAIN mailbox = 1 .. Len(mailbox)
         /\ DOMAIN mailbox' = 1 .. Len(mailbox) - 1
         /\ \A i \in DOMAIN mailbox' : mailbox'[i] = mailbox[i + 1]
BY HeadTailProperties, LenProperties, EmptySeq DEF Taken

LEMMA ReceiveFacts ==
  ASSUME NEW kind, mailbox \in Seq(Message), Receive(kind)
  PROVE  /\ Head(mailbox) \in Message /\ Head(mailbox).kind = kind
         /\ Head(mailbox) = mailbox[1]
         /\ mailbox' \in Seq(Message)
         /\ Len(mailbox) \in Nat \ {0}
         /\ DOMAIN mailbox = 1 .. Len(mailbox)
         /\ DOMAIN mailbox' = 1 .. Len(mailbox) - 1
         /\ \A i \in DOMAIN mailbox' : mailbox'[i] = mailbox[i + 1]
<1>1. Taken(kind)
  BY DEF Receive, Taken
<1>2. QED
  BY <1>1, TakenFacts

\* The fields of a message are those of its kind.
LEMMA MessageFields ==
  ASSUME NEW m \in Message
  PROVE  /\ m.kind = "EnqueueDownload" => m.video \in Videos /\ m.snapshot \in Snapshot
         /\ m.kind = "RegisterWorker" => m.video \in Videos /\ m.worker \in Tasks
         /\ m.kind \in {"DownloadCompleted", "CancelDownload"} => m.video \in Videos
         /\ m.kind = "ReportOutcome" => m.video \in Videos /\ m.outcome \in Outcome
         /\ m.kind = "ApplySemaphoreTarget" => m.target \in Targets
BY DEF Message

\* Spending one event keeps the budget's type and touches no other entry.
LEMMA SpendFacts ==
  ASSUME NEW key \in BudgetKeys, budget \in [BudgetKeys -> Nat], Spend(key)
  PROVE  /\ budget' \in [BudgetKeys -> Nat]
         /\ budget'[key] = budget[key] - 1
         /\ \A other \in BudgetKeys \ {key} : budget'[other] = budget[other]
<1>1. budget[key] \in Nat /\ budget[key] > 0
  BY DEF Spend
<1>2. budget[key] - 1 \in Nat
  BY <1>1
<1>3. QED
  BY <1>2 DEF Spend

\* resize_semaphore never removes a permit that is not free.
LEMMA ResizeFacts ==
  ASSUME NEW n \in Nat, incarnation \in Incarnation,
         free \in [Incarnation -> Nat], permits_total \in [Incarnation -> Nat],
         ResizeSemaphore(n)
  PROVE  /\ free' \in [Incarnation -> Nat]
         /\ permits_total' \in [Incarnation -> Nat]
         /\ \A k \in Incarnation : permits_total'[k] - free'[k] = permits_total[k] - free[k]
         /\ \A k \in Incarnation \ {incarnation} :
               permits_total'[k] = permits_total[k] /\ free'[k] = free[k]
<1> DEFINE f == free[incarnation]
           p == permits_total[incarnation]
           excess == p - n
           removed == IF excess < f THEN excess ELSE f
<1>1. f \in Nat /\ p \in Nat
  OBVIOUS
<1>2. CASE n >= p
  <2>1. /\ free' = [free EXCEPT ![incarnation] = f + (n - p)]
        /\ permits_total' = [permits_total EXCEPT ![incarnation] = n]
    BY <1>2 DEF ResizeSemaphore
  <2>2. f + (n - p) \in Nat /\ n - (f + (n - p)) = p - f
    BY <1>1, <1>2
  <2>3. QED
    BY <2>1, <2>2
<1>3. CASE n < p
  <2>1. /\ free' = [free EXCEPT ![incarnation] = f - removed]
        /\ permits_total' = [permits_total EXCEPT ![incarnation] = p - removed]
    BY <1>1, <1>3 DEF ResizeSemaphore
  <2>2. f - removed \in Nat /\ p - removed \in Nat /\ (p - removed) - (f - removed) = p - f
    BY <1>1, <1>3
  <2> HIDE DEF removed
  <2>3. QED
    BY <2>1, <2>2
<1>4. QED
  BY <1>1, <1>2, <1>3

(***************************************************************************)
(* Type correctness.  TypeOK alone is not inductive: that a restart finds  *)
(* another semaphore to create rests on the budget that pays for it, and   *)
(* that the messages of tasks and clients are well formed rests on what    *)
(* each of them carries at each of its steps, and that a decision about a  *)
(* failure meets a row rests on the report that stays the head meanwhile.  *)
(***************************************************************************)

TaskInUse(t) ==
  /\ task[t].pc # "unused" => task[t].video \in Videos
  /\ task[t].pc = "reporting" => task[t].outcome \in Outcome

ClientInUse(c) ==
  /\ client[c].pc # "idle" => client[c].video \in Videos
  /\ client[c].pc = "enqueue" => client[c].snapshot \in Snapshot

\* A report that is half done is still the head, and no sweep is under way.
HalfDone ==
  verdict # None =>
    /\ sweep = {}
    /\ mailbox # <<>> /\ Head(mailbox).kind = "ReportOutcome"
    /\ Head(mailbox).outcome = "failed"

TypeInv ==
  /\ TypeOK
  /\ \A t \in Tasks : TaskInUse(t)
  /\ \A c \in Clients : ClientInUse(c)
  /\ incarnation + budget["restarts"] = Budget["restarts"] + 1
  /\ HalfDone

\* All of it but HalfDone.
Typed ==
  /\ TypeOK
  /\ \A t \in Tasks : TaskInUse(t)
  /\ \A c \in Clients : ClientInUse(c)
  /\ incarnation + budget["restarts"] = Budget["restarts"] + 1

\* What handle_failure records is the verdict on the head, which then goes.
LEMMA RecordTakes ==
  ASSUME TypeInv, RecordFailure
  PROVE  Taken("ReportOutcome") /\ verdict \in Verdict /\ Head(mailbox).outcome = "failed"
BY DEF TypeInv, TypeOK, HalfDone, RecordFailure, Taken

LEMMA TypeInvInit == Init => TypeInv
<1> SUFFICES ASSUME Init PROVE TypeInv
  OBVIOUS
<1> USE ConstantsAssumption DEF Init
<1>1. Incarnation \subseteq Nat /\ 1 \in Incarnation /\ target \in Nat
  BY DEF Incarnation, BudgetKeys
<1>2. FreshSemaphore(1, target) \in [Incarnation -> Nat]
  BY <1>1 DEF FreshSemaphore
<1>3. row \in [Videos -> Row]
  BY FreshRows
<1>4. mailbox \in Seq(Message)
  BY DEF Message
<1>5. UnusedTask \in Task /\ IdleClient \in Client
  BY <1>1 DEF UnusedTask, Task, PC, IdleClient, Client, ClientPC
<1>6. TypeOK
  BY <1>1, <1>2, <1>3, <1>4, <1>5 DEF TypeOK, RetryTime
<1>7. incarnation + budget["restarts"] = Budget["restarts"] + 1
  BY DEF BudgetKeys
<1>8. (\A t \in Tasks : TaskInUse(t)) /\ (\A c \in Clients : ClientInUse(c))
  BY DEF TaskInUse, ClientInUse, UnusedTask, IdleClient
<1>9. HalfDone
  BY DEF HalfDone
<1>10. QED
  BY <1>6, <1>7, <1>8, <1>9 DEF TypeInv

\* A dispatch reserves a video and puts one task to work.
LEMMA DispatchTyped ==
  ASSUME TypeInv, NEW v \in Videos, NEW snapshot, DispatchDownload(v, snapshot)
  PROVE  /\ task' \in [Tasks -> Task] /\ dispatching' \subseteq Videos
         /\ \A t \in Tasks : TaskInUse(t)'
<1>1. UnusedTask \in Task
  BY ConstantsAssumption DEF UnusedTask, Task, PC, Incarnation, BudgetKeys
<1> DEFINE parked == [UnusedTask EXCEPT !.pc = "parked", !.video = v, !.semaphore = incarnation]
<1>2. parked \in Task /\ parked.pc = "parked" /\ parked.video = v
  BY <1>1 DEF TypeInv, TypeOK, Task, PC, UnusedTask
<1> HIDE DEF parked
<1>3. \/ task' = task
      \/ \E t \in Tasks : task' = [task EXCEPT ![t] = parked]
  BY DEF DispatchDownload, parked
<1>4. task' \in [Tasks -> Task] /\ dispatching' \subseteq Videos
  BY <1>2, <1>3 DEF DispatchDownload, TypeInv, TypeOK
<1>5. \A t \in Tasks : TaskInUse(t)'
  BY <1>2, <1>3 DEF TypeInv, TypeOK, TaskInUse
<1>6. QED
  BY <1>4, <1>5

LEMMA StopTyped ==
  ASSUME TypeInv, NEW workers, StopWorkers(workers)
  PROVE  task' \in [Tasks -> Task] /\ \A t \in Tasks : TaskInUse(t)'
<1>1. task' \in [Tasks -> Task]
  <2>1. \A r \in Task : [r EXCEPT !.stopped = TRUE] \in Task
    BY DEF Task
  <2>2. task \in [Tasks -> Task]
    BY DEF TypeInv, TypeOK
  <2>3. QED
    BY <2>1, <2>2 DEF StopWorkers
<1>2. \A t \in Tasks : /\ task'[t].pc = task[t].pc /\ task'[t].video = task[t].video
                       /\ task'[t].outcome = task[t].outcome
  BY DEF TypeInv, TypeOK, StopWorkers, Task
<1>3. QED
  BY <1>1, <1>2 DEF TypeInv, TaskInUse

\* The handlers of the supervisor keep the types.
LEMMA TypeSupervisor == TypeInv /\ SupervisorStep => Typed'
<1> SUFFICES ASSUME TypeInv, SupervisorStep PROVE Typed'
  OBVIOUS
<1> USE ConstantsAssumption DEF TypeInv, Typed, TypeOK, configVars, supervisorVars
<1> USE DEF TaskInUse, ClientInUse
<1>1. CASE EnqueueDownload
  <2>1. Head(mailbox).video \in Videos /\ mailbox' \in Seq(Message)
    BY <1>1, ReceiveFacts, MessageFields DEF EnqueueDownload
  <2>2. /\ task' \in [Tasks -> Task] /\ dispatching' \subseteq Videos
        /\ \A t \in Tasks : TaskInUse(t)'
    BY <1>1, <2>1, DispatchTyped DEF EnqueueDownload
  <2>3. QED
    BY <1>1, <2>1, <2>2 DEF EnqueueDownload
<1>2. CASE RegisterWorker
  <2>1. /\ Head(mailbox).video \in Videos /\ Head(mailbox).worker \in Tasks
        /\ mailbox' \in Seq(Message)
    BY <1>2, ReceiveFacts, MessageFields DEF RegisterWorker
  <2>2. QED
    BY <1>2, <2>1 DEF RegisterWorker
<1>3. CASE DownloadCompleted
  <2>1. mailbox' \in Seq(Message)
    BY <1>3, ReceiveFacts DEF DownloadCompleted
  <2>2. free' \in [Incarnation -> Nat] /\ permits_total' \in [Incarnation -> Nat]
    BY <1>3, ResizeFacts DEF DownloadCompleted
  <2>3. QED
    BY <1>3, <2>1, <2>2 DEF DownloadCompleted, ForgetDispatch
<1>4. CASE ReportOutcome
  <2>1. Head(mailbox).video \in Videos /\ mailbox' \in Seq(Message)
    BY <1>4, ReceiveFacts, MessageFields DEF ReportOutcome
  <2>2. row[Head(mailbox).video] \in Row
    BY <2>1
  <2>3. row' \in [Videos -> Row]
    BY <1>4, <2>1, <2>2, RowStatements DEF ReportOutcome
  <2>4. budget' \in [BudgetKeys -> Nat] /\ budget'["restarts"] = budget["restarts"]
    BY <1>4, SpendFacts DEF ReportOutcome, BudgetKeys
  <2>5. QED
    BY <1>4, <2>1, <2>3, <2>4 DEF ReportOutcome
<1>5. CASE ProcessPendingDownloads
  <2>1. mailbox' \in Seq(Message)
    BY <1>5, ReceiveFacts DEF ProcessPendingDownloads
  <2>2. \A v \in Videos : SnapshotOf(row[v]) \in Snapshot
    BY RowStatements
  <2>3. sweep' \subseteq [video : Videos, snapshot : Snapshot]
    BY <1>5, <2>2 DEF ProcessPendingDownloads
  <2>4. budget' \in [BudgetKeys -> Nat] /\ budget'["restarts"] = budget["restarts"]
    BY <1>5, SpendFacts DEF ProcessPendingDownloads, BudgetKeys
  <2>5. db_retry_after' \in RetryTime
    BY <1>5 DEF ProcessPendingDownloads, RetryTime
  <2>6. QED
    BY <1>5, <2>1, <2>3, <2>4, <2>5 DEF ProcessPendingDownloads
<1>6. CASE SweepVideo
  <2>1. PICK s \in sweep : SweepVideo!(s)
    BY <1>6 DEF SweepVideo
  <2>2. s.video \in Videos
    OBVIOUS
  <2>3. /\ task' \in [Tasks -> Task] /\ dispatching' \subseteq Videos
        /\ \A t \in Tasks : TaskInUse(t)'
    BY <2>1, <2>2, DispatchTyped
  <2>4. budget' \in [BudgetKeys -> Nat] /\ budget'["restarts"] = budget["restarts"]
    BY <2>1, SpendFacts DEF BudgetKeys
  <2>5. QED
    BY <2>1, <2>3, <2>4 DEF RetryTime
<1>7. CASE ApplySemaphoreTarget
  <2>1. Head(mailbox).target \in Targets /\ mailbox' \in Seq(Message)
    BY <1>7, ReceiveFacts, MessageFields DEF ApplySemaphoreTarget
  <2>2. free' \in [Incarnation -> Nat] /\ permits_total' \in [Incarnation -> Nat]
    BY <1>7, <2>1, ResizeFacts DEF ApplySemaphoreTarget
  <2>3. QED
    BY <1>7, <2>1, <2>2 DEF ApplySemaphoreTarget
<1>8. CASE CancelDownload
  <2>1. Head(mailbox).video \in Videos /\ mailbox' \in Seq(Message)
    BY <1>8, ReceiveFacts, MessageFields DEF CancelDownload
  <2>2. row[Head(mailbox).video] \in Row
    BY <2>1
  <2>3. row' \in [Videos -> Row]
    BY <1>8, <2>1, <2>2, RowStatements DEF CancelDownload, VideoStatus
  <2>4. budget' \in [BudgetKeys -> Nat] /\ budget'["restarts"] = budget["restarts"]
    BY <1>8, SpendFacts DEF CancelDownload, BudgetKeys
  <2>5. task' \in [Tasks -> Task] /\ \A t \in Tasks : TaskInUse(t)'
    BY <1>8, StopTyped DEF CancelDownload
  <2>6. QED
    BY <1>8, <2>1, <2>3, <2>4, <2>5 DEF CancelDownload, ForgetDispatch
<1>9. CASE GetSupervisorStatus
  <2>1. mailbox' \in Seq(Message)
    BY <1>9, ReceiveFacts DEF GetSupervisorStatus
  <2>2. drained' \in BOOLEAN
    BY <1>9 DEF GetSupervisorStatus, Quiescent
  <2>3. QED
    BY <1>9, <2>1, <2>2 DEF GetSupervisorStatus
<1>10. CASE JudgeFailure
  <2>1. verdict' \in Verdict
    BY <1>10 DEF JudgeFailure, Judge, Verdict
  <2>2. QED
    BY <1>10, <2>1 DEF JudgeFailure
<1>11. CASE RecordFailure
  <2>1. Head(mailbox).video \in Videos /\ mailbox' \in Seq(Message) /\ verdict \in Verdict
    BY <1>11, RecordTakes, TakenFacts, MessageFields
  <2>2. row[Head(mailbox).video] \in Row
    BY <2>1
  <2>3. row' \in [Videos -> Row]
    <3>1. MarkVideoFailed(row[Head(mailbox).video], verdict) \in Row
      BY <2>1, <2>2, RowStatements
    <3>2. \/ row' = row
          \/ row' = [row EXCEPT ![Head(mailbox).video] =
                        MarkVideoFailed(row[Head(mailbox).video], verdict)]
      BY <1>11 DEF RecordFailure
    <3>3. QED
      BY <3>1, <3>2
  <2>4. budget' \in [BudgetKeys -> Nat] /\ budget'["restarts"] = budget["restarts"]
    BY <1>11, SpendFacts DEF RecordFailure, BudgetKeys
  <2>5. QED
    BY <1>11, <2>1, <2>3, <2>4 DEF RecordFailure
<1>12. QED
  BY <1>1, <1>2, <1>3, <1>4, <1>5, <1>6, <1>7, <1>8, <1>9, <1>10, <1>11 DEF SupervisorStep

\* Moving one task keeps the types when it keeps what the task carries.
LEMMA MoveTyped ==
  ASSUME TypeInv, NEW t \in Tasks, NEW pc \in PC, Move(t, pc),
         pc # "unused" => task[t].video \in Videos, pc # "reporting"
  PROVE  task' \in [Tasks -> Task] /\ \A u \in Tasks : TaskInUse(u)'
<1>1. [task[t] EXCEPT !.pc = pc] \in Task
  BY DEF TypeInv, TypeOK, Task
<1>2. task' \in [Tasks -> Task]
  BY <1>1 DEF Move, TypeInv, TypeOK
<1>3. \A u \in Tasks : TaskInUse(u)'
  BY DEF Move, TypeInv, TypeOK, Task, TaskInUse
<1>4. QED
  BY <1>2, <1>3

LEMMA FinishTyped ==
  ASSUME TypeInv, NEW t \in Tasks, NEW outcome \in Outcome, Finish(t, outcome),
         task[t].video \in Videos
  PROVE  task' \in [Tasks -> Task] /\ \A u \in Tasks : TaskInUse(u)'
<1> DEFINE done == [task[t] EXCEPT !.pc = "finished", !.outcome = outcome, !.gated = FALSE]
<1>1. done \in Task /\ done.pc = "finished" /\ done.video = task[t].video
  BY DEF TypeInv, TypeOK, Task, PC
<1>2. task' = [task EXCEPT ![t] = done]
  BY DEF Finish
<1> HIDE DEF done
<1>3. QED
  BY <1>1, <1>2 DEF TypeInv, TypeOK, TaskInUse

\* The steps of a detached task and of its worker keep the types.
LEMMA TypeTask ==
  ASSUME TypeInv, NEW t \in Tasks, Acquire(t) \/ TaskStep(t)
  PROVE  Typed'
<1> USE ConstantsAssumption DEF TypeInv, Typed, TypeOK, configVars, supervisorVars
<1>1. task[t] \in Task /\ UnusedTask \in Task
  BY FreshTask
<1>2. task[t].semaphore \in Incarnation /\ (task[t].pc # "unused" => task[t].video \in Videos)
  BY <1>1 DEF Task, TaskInUse
<1>3. CASE Acquire(t)
  <2>1. task' \in [Tasks -> Task] /\ \A u \in Tasks : TaskInUse(u)'
    BY <1>2, <1>3, MoveTyped DEF Acquire, PC
  <2>2. free' \in [Incarnation -> Nat]
    BY <1>2, <1>3 DEF Acquire
  <2>3. QED
    BY <1>3, <2>1, <2>2 DEF Acquire, ClientInUse
<1>4. CASE TellRegisterWorker(t)
  <2>1. task' \in [Tasks -> Task] /\ \A u \in Tasks : TaskInUse(u)'
    BY <1>2, <1>4, MoveTyped DEF TellRegisterWorker, PC
  <2>2. [kind |-> "RegisterWorker", video |-> task[t].video, worker |-> t] \in Message
    BY <1>2, <1>4 DEF TellRegisterWorker, Message
  <2>3. mailbox' \in Seq(Message)
    BY <1>4, <2>2, TellFacts DEF TellRegisterWorker
  <2>4. QED
    BY <1>4, <2>1, <2>3 DEF TellRegisterWorker, ClientInUse
<1>5. CASE AskStartDownload(t)
  <2>1. task' \in [Tasks -> Task] /\ \A u \in Tasks : TaskInUse(u)'
    BY <1>2, <1>5, MoveTyped DEF AskStartDownload, PC
  <2>2. QED
    BY <1>5, <2>1 DEF AskStartDownload, ClientInUse
<1>6. CASE ClaimVideo(t)
  <2> DEFINE v == task[t].video
  <2>1. v \in Videos /\ row[v] \in Row
    BY <1>2, <1>6 DEF ClaimVideo
  <2>2. row' \in [Videos -> Row]
    <3>1. MarkVideoDownloading(row[v]) \in Row
      BY <2>1, RowStatements
    <3>2. row' = row \/ row' = [row EXCEPT ![v] = MarkVideoDownloading(row[v])]
      BY <1>6 DEF ClaimVideo
    <3>3. QED
      BY <2>1, <3>1, <3>2
  <2>3. budget' \in [BudgetKeys -> Nat] /\ budget'["restarts"] = budget["restarts"]
    BY <1>6, SpendFacts DEF ClaimVideo, QualityGate, BudgetKeys
  <2>4. task' \in [Tasks -> Task] /\ \A u \in Tasks : TaskInUse(u)'
    <3>1. CASE Finish(t, "failed")
      BY <2>1, <3>1, FinishTyped DEF Outcome
    <3>2. ASSUME NEW gated \in BOOLEAN,
                 task' = [task EXCEPT ![t].pc = "downloading", ![t].gated = gated]
          PROVE  task' \in [Tasks -> Task] /\ \A u \in Tasks : TaskInUse(u)'
      <4> DEFINE claimed == [task[t] EXCEPT !.pc = "downloading", !.gated = gated]
      <4>1. claimed \in Task /\ claimed.pc = "downloading" /\ claimed.video = v
        BY <1>1 DEF Task, PC
      <4>2. task' = [task EXCEPT ![t] = claimed]
        BY <3>2
      <4> HIDE DEF claimed
      <4>3. QED
        BY <2>1, <4>1, <4>2 DEF TaskInUse
    <3>3. QED
      BY <1>6, <3>1, <3>2 DEF ClaimVideo
  <2>5. QED
    BY <1>6, <2>2, <2>3, <2>4 DEF ClaimVideo, ClientInUse
<1>7. CASE EndDownload(t)
  <2> DEFINE v == task[t].video
  <2>1. v \in Videos /\ row[v] \in Row
    BY <1>2, <1>7 DEF EndDownload
  <2>2. row' \in [Videos -> Row]
    <3>1. row' = row \/ row' = [row EXCEPT ![v] = MarkVideoCompleted(row[v])]
      BY <1>7 DEF EndDownload
    <3>2. MarkVideoCompleted(row[v]) \in Row
      BY <2>1, RowStatements
    <3>3. QED
      BY <3>1, <3>2
  <2>3. budget' \in [BudgetKeys -> Nat] /\ budget'["restarts"] = budget["restarts"]
    BY <1>7, SpendFacts DEF EndDownload, BudgetKeys
  <2>4. \E outcome \in Outcome : Finish(t, outcome)
    BY <1>7 DEF EndDownload, Outcome
  <2>5. task' \in [Tasks -> Task] /\ \A u \in Tasks : TaskInUse(u)'
    BY <2>1, <2>4, FinishTyped
  <2>6. QED
    BY <1>7, <2>2, <2>3, <2>5 DEF EndDownload, ClientInUse
<1>8. CASE ReleasePermit(t)
  <2>1. task' \in [Tasks -> Task] /\ \A u \in Tasks : TaskInUse(u)'
    BY <1>2, <1>8, MoveTyped DEF ReleasePermit, PC
  <2>2. free' \in [Incarnation -> Nat]
    BY <1>2, <1>8 DEF ReleasePermit
  <2>3. QED
    BY <1>8, <2>1, <2>2 DEF ReleasePermit, ClientInUse
<1>9. CASE TellDownloadCompleted(t)
  <2> DEFINE left == IF task[t].outcome = None THEN UnusedTask
                     ELSE [task[t] EXCEPT !.pc = "reporting"]
  <2>1. left \in Task
    BY <1>1 DEF Task, PC
  <2>2. (left.pc # "unused" => left.video \in Videos)
        /\ (left.pc = "reporting" => left.outcome \in Outcome)
    BY <1>1, <1>2, <1>9 DEF TellDownloadCompleted, Task, UnusedTask
  <2>3. task' = [task EXCEPT ![t] = left]
    BY <1>9 DEF TellDownloadCompleted
  <2> HIDE DEF left
  <2>4. task' \in [Tasks -> Task] /\ \A u \in Tasks : TaskInUse(u)'
    BY <2>1, <2>2, <2>3 DEF TaskInUse
  <2>5. [kind |-> "DownloadCompleted", video |-> task[t].video] \in Message
    BY <1>2, <1>9 DEF TellDownloadCompleted, Message
  <2>6. mailbox' \in Seq(Message)
    BY <1>9, <2>5, TellFacts DEF TellDownloadCompleted
  <2>7. QED
    BY <1>9, <2>4, <2>6 DEF TellDownloadCompleted, ClientInUse
<1>10. CASE TellReportOutcome(t)
  <2>1. task' \in [Tasks -> Task] /\ \A u \in Tasks : TaskInUse(u)'
    BY <1>1, <1>10 DEF TellReportOutcome, TaskInUse, UnusedTask
  <2>2. [kind |-> "ReportOutcome", video |-> task[t].video, outcome |-> task[t].outcome]
           \in Message
    BY <1>2, <1>10 DEF TellReportOutcome, Message, TaskInUse
  <2>3. mailbox' \in Seq(Message)
    BY <1>10, <2>2, TellFacts DEF TellReportOutcome
  <2>4. QED
    BY <1>10, <2>1, <2>3 DEF TellReportOutcome, ClientInUse
<1>11. QED
  BY <1>3, <1>4, <1>5, <1>6, <1>7, <1>8, <1>9, <1>10 DEF TaskStep

\* The steps of the clients keep the types.
LEMMA TypeClient ==
  ASSUME TypeInv, NEW c \in Clients, ClientStep(c)
  PROVE  Typed'
<1> USE ConstantsAssumption DEF TypeInv, Typed, TypeOK, configVars, supervisorVars, clientUnchanged
<1> DEFINE v == client[c].video
           ClientsTyped == client' \in [Clients -> Client] /\ \A d \in Clients : ClientInUse(d)'
           Rest == /\ sweep' = sweep /\ verdict' = verdict
                   /\ active' = active /\ dispatching' = dispatching
                   /\ incarnation' = incarnation /\ free' = free
                   /\ permits_total' = permits_total /\ target' = target /\ unseen' = unseen
                   /\ paused' = paused /\ draining' = draining /\ drained' = drained
                   /\ db_retry_after' = db_retry_after /\ task' = task
                   /\ budget' \in [BudgetKeys -> Nat]
                   /\ budget'["restarts"] = budget["restarts"]
<1>1. client[c] \in Client /\ IdleClient \in Client /\ IdleClient.pc = "idle"
  BY DEF IdleClient, Client, ClientPC
<1>2. client[c].pc # "idle" => v \in Videos /\ row[v] \in Row
  BY DEF ClientInUse
<1>3. ASSUME NEW next \in Client, client' = [client EXCEPT ![c] = next],
             next.pc # "idle" => next.video \in Videos,
             next.pc = "enqueue" => next.snapshot \in Snapshot
      PROVE  ClientsTyped
  BY <1>3 DEF ClientInUse
<1>4. ASSUME Leave(c) PROVE ClientsTyped
  BY <1>1, <1>3, <1>4 DEF Leave
<1>5. ASSUME row' \in [Videos -> Row], mailbox' \in Seq(Message), ClientsTyped, Rest
      PROVE  Typed'
  BY <1>5 DEF TaskInUse
<1>6. CASE BeginOperation(c)
  <2>1. PICK op \in Operations, w \in Videos :
          /\ client' = [client EXCEPT ![c] = [IdleClient EXCEPT !.pc = Second(op), !.op = op,
                                                                !.video = w]]
          /\ row' = [row EXCEPT ![w] = IF op = "discover" THEN UpsertVideo(@) ELSE @]
    BY <1>6 DEF BeginOperation
  <2> DEFINE next == [IdleClient EXCEPT !.pc = Second(op), !.op = op, !.video = w]
  <2>2. op \in ClientOps /\ Second(op) \in ClientPC /\ Second(op) # "enqueue"
    BY DEF ClientOps, Second, ClientPC
  <2>3. next \in Client /\ next.video = w /\ next.pc # "enqueue"
    BY <1>1, <2>2 DEF Client, IdleClient
  <2> HIDE DEF next
  <2>4. ClientsTyped
    BY <1>3, <2>1, <2>3 DEF next
  <2>5. row' \in [Videos -> Row]
    <3> DEFINE now == IF op = "discover" THEN UpsertVideo(row[w]) ELSE row[w]
    <3>1. row[w] \in Row
      OBVIOUS
    <3>2. UpsertVideo(row[w]) \in Row
      BY <3>1, RowStatements
    <3>3. row' = [row EXCEPT ![w] = now]
      BY <2>1
    <3>4. now \in Row
      BY <3>1, <3>2
    <3> HIDE DEF now
    <3>5. QED
      BY <3>3, <3>4
  <2>6. Rest
    BY <1>6, SpendFacts DEF BeginOperation, BudgetKeys
  <2>7. mailbox' = mailbox
    BY <1>6 DEF BeginOperation
  <2> HIDE DEF ClientsTyped, Rest
  <2>8. QED
    BY <1>5, <2>4, <2>5, <2>6, <2>7
<1>7. CASE ResetToPending(c)
  <2> DEFINE next == [client[c] EXCEPT !.pc = "reread"]
  <2>1. next \in Client /\ next.video \in Videos /\ next.pc = "reread"
    BY <1>1, <1>2, <1>7 DEF Client, ClientPC, ResetToPending
  <2>2. client' = [client EXCEPT ![c] = next]
    BY <1>7 DEF ResetToPending, Proceed
  <2> HIDE DEF next
  <2>3. ClientsTyped
    BY <1>3, <2>1, <2>2
  <2>4. row' \in [Videos -> Row]
    BY <1>2, <1>7, RowStatements DEF ResetToPending, VideoStatus
  <2>5. mailbox' = mailbox /\ Rest
    BY <1>7 DEF ResetToPending
  <2> HIDE DEF ClientsTyped, Rest
  <2>6. QED
    BY <1>5, <2>3, <2>4, <2>5
<1>8. CASE RereadVideo(c)
  <2> DEFINE next == [client[c] EXCEPT !.pc = "enqueue", !.snapshot = SnapshotOf(row[v])]
  <2>1. SnapshotOf(row[v]) \in Snapshot /\ v \in Videos
    BY <1>2, <1>8, RowStatements DEF RereadVideo
  <2>2. next \in Client /\ next.video \in Videos /\ next.snapshot \in Snapshot
    BY <1>1, <2>1 DEF Client, ClientPC
  <2>3. client' = [client EXCEPT ![c] = next]
    BY <1>8 DEF RereadVideo
  <2> HIDE DEF next
  <2>4. ClientsTyped
    BY <1>3, <2>2, <2>3
  <2>5. row' = row /\ mailbox' = mailbox /\ Rest
    BY <1>8 DEF RereadVideo
  <2> HIDE DEF ClientsTyped, Rest
  <2>6. QED
    BY <1>5, <2>4, <2>5
<1>9. CASE ReleaseVideo(c)
  <2> DEFINE next == [client[c] EXCEPT !.pc = "enqueue", !.snapshot = SnapshotOf(row'[v])]
  <2>1. v \in Videos /\ row' \in [Videos -> Row]
    BY <1>2, <1>9, RowStatements DEF ReleaseVideo
  <2>2. SnapshotOf(row'[v]) \in Snapshot
    BY <2>1, RowStatements
  <2>3. next \in Client /\ next.video \in Videos /\ next.snapshot \in Snapshot
    BY <1>1, <2>1, <2>2 DEF Client, ClientPC
  <2>4. client' = [client EXCEPT ![c] = next]
    BY <1>9 DEF ReleaseVideo
  <2> HIDE DEF next
  <2>5. ClientsTyped
    BY <1>3, <2>3, <2>4
  <2>6. mailbox' = mailbox /\ Rest
    BY <1>9 DEF ReleaseVideo
  <2> HIDE DEF ClientsTyped, Rest
  <2>7. QED
    BY <1>5, <2>1, <2>5, <2>6
<1>10. CASE TellEnqueueDownload(c)
  <2>1. [kind |-> "EnqueueDownload", video |-> v, snapshot |-> client[c].snapshot] \in Message
    BY <1>2, <1>10 DEF TellEnqueueDownload, Message, ClientInUse
  <2>2. mailbox' \in Seq(Message)
    BY <1>10, <2>1, TellFacts DEF TellEnqueueDownload
  <2>3. ClientsTyped
    BY <1>4, <1>10 DEF TellEnqueueDownload
  <2>4. row' = row /\ Rest
    BY <1>10 DEF TellEnqueueDownload
  <2> HIDE DEF ClientsTyped, Rest
  <2>5. QED
    BY <1>5, <2>2, <2>3, <2>4
<1>11. CASE AskCancelDownload(c)
  <2>1. [kind |-> "CancelDownload", video |-> v] \in Message
    BY <1>2, <1>11 DEF AskCancelDownload, Message
  <2>2. mailbox' \in Seq(Message)
    BY <1>11, <2>1, TellFacts DEF AskCancelDownload
  <2>3. ClientsTyped
    BY <1>4, <1>11 DEF AskCancelDownload
  <2>4. row' = row /\ Rest
    BY <1>11 DEF AskCancelDownload
  <2> HIDE DEF ClientsTyped, Rest
  <2>5. QED
    BY <1>5, <2>2, <2>3, <2>4
<1>12. CASE RemoveVideo(c)
  <2>1. row' \in [Videos -> Row]
    <3>1. row[v] \in Row /\ Absent \in Row
      BY <1>2, <1>12, FreshRows DEF RemoveVideo
    <3>2. UpdateVideoStatus(row[v], "cleaned") \in Row
      BY <3>1, RowStatements DEF VideoStatus
    <3>3. \/ row' = [row EXCEPT ![v] = Absent]
          \/ row' = [row EXCEPT ![v] = UpdateVideoStatus(row[v], "cleaned")]
      BY <1>12 DEF RemoveVideo
    <3>4. QED
      BY <3>1, <3>2, <3>3
  <2>2. ClientsTyped
    BY <1>4, <1>12 DEF RemoveVideo
  <2>3. mailbox' = mailbox /\ Rest
    BY <1>12 DEF RemoveVideo
  <2> HIDE DEF ClientsTyped, Rest
  <2>4. QED
    BY <1>5, <2>1, <2>2, <2>3
<1>13. CASE AbandonOperation(c)
  <2>1. ClientsTyped
    BY <1>4, <1>13 DEF AbandonOperation
  <2>2. row' = row /\ mailbox' = mailbox /\ Rest
    BY <1>13 DEF AbandonOperation
  <2> HIDE DEF ClientsTyped, Rest
  <2>3. QED
    BY <1>5, <2>1, <2>2
<1>14. QED
  BY <1>6, <1>7, <1>8, <1>9, <1>10, <1>11, <1>12, <1>13 DEF ClientStep

\* Timers, configuration changes, restarts and crashes keep the types.
LEMMA TypeEnvironment == TypeInv /\ Environment => Typed'
<1> SUFFICES ASSUME TypeInv, Environment PROVE Typed'
  OBVIOUS
<1> USE ConstantsAssumption DEF TypeInv, Typed, TypeOK, configVars, supervisorVars
<1>1. CASE SchedulerTick
  <2>1. [kind |-> "ProcessPendingDownloads"] \in Message
    BY DEF Message
  <2>2. mailbox' \in Seq(Message)
    BY <1>1, <2>1, TellFacts DEF SchedulerTick
  <2>3. QED
    BY <1>1, <2>2 DEF SchedulerTick, TaskInUse, ClientInUse
<1>2. CASE DbBackoffElapses
  BY <1>2 DEF DbBackoffElapses, RetryTime, TaskInUse, ClientInUse
<1>3. CASE SetTarget
  BY <1>3, SpendFacts DEF SetTarget, BudgetKeys, TaskInUse, ClientInUse
<1>4. CASE WatchTarget
  <2>1. [kind |-> "ApplySemaphoreTarget", target |-> target] \in Message
    BY DEF Message
  <2>2. mailbox' \in Seq(Message)
    BY <1>4, <2>1, TellFacts DEF WatchTarget
  <2>3. QED
    BY <1>4, <2>2 DEF WatchTarget, TaskInUse, ClientInUse
<1>5. CASE TogglePause
  BY <1>5, SpendFacts DEF TogglePause, BudgetKeys, TaskInUse, ClientInUse
<1>6. CASE BeginDrain
  BY <1>6, SpendFacts DEF BeginDrain, BudgetKeys, TaskInUse, ClientInUse
<1>7. CASE ProbeQuiescence
  <2>1. [kind |-> "GetSupervisorStatus"] \in Message
    BY DEF Message
  <2>2. mailbox' \in Seq(Message)
    BY <1>7, <2>1, TellFacts DEF ProbeQuiescence
  <2>3. QED
    BY <1>7, <2>2 DEF ProbeQuiescence, TaskInUse, ClientInUse
<1>8. CASE RestartSupervisor
  <2>1. budget' \in [BudgetKeys -> Nat] /\ budget'["restarts"] = budget["restarts"] - 1
    BY <1>8, SpendFacts DEF RestartSupervisor, BudgetKeys
  <2>2. budget["restarts"] > 0 /\ budget["restarts"] \in Nat /\ Budget["restarts"] \in Nat
    BY <1>8 DEF RestartSupervisor, Spend, BudgetKeys
  <2>3. incarnation + 1 \in Incarnation
    BY <2>2 DEF Incarnation
  <2>4. free' \in [Incarnation -> Nat] /\ permits_total' \in [Incarnation -> Nat]
    BY <1>8, <2>3 DEF RestartSupervisor
  <2>5. mailbox' \in Seq(Message)
    <3>1. mailbox \in Seq(Message)
      OBVIOUS
    <3>2. mailbox # <<>> => Tail(mailbox) \in Seq(Message)
      BY <3>1, HeadTailProperties
    <3>3. mailbox' = mailbox \/ (mailbox # <<>> /\ mailbox' = Tail(mailbox))
      BY <1>8 DEF RestartSupervisor
    <3>4. QED
      BY <3>1, <3>2, <3>3
  <2>6. task' \in [Tasks -> Task] /\ \A t \in Tasks : TaskInUse(t)'
    BY <1>8, StopTyped DEF RestartSupervisor
  <2>7. incarnation' + budget'["restarts"] = Budget["restarts"] + 1
    <3>1. incarnation' = incarnation + 1
      BY <1>8 DEF RestartSupervisor
    <3>2. incarnation \in Nat /\ incarnation + budget["restarts"] = Budget["restarts"] + 1
      BY DEF Incarnation
    <3> DEFINE left == budget["restarts"]
               left_next == budget'["restarts"]
    <3>3. left_next = left - 1 /\ left \in Nat /\ incarnation + left = Budget["restarts"] + 1
      BY <2>1, <2>2, <3>2
    <3> HIDE DEF left, left_next
    <3>4. incarnation' + left_next = Budget["restarts"] + 1
      BY <2>2, <3>1, <3>2, <3>3
    <3>5. QED
      BY <3>4 DEF left_next
  <2>8. QED
    BY <1>8, <2>1, <2>3, <2>4, <2>5, <2>6, <2>7 DEF RestartSupervisor, RetryTime, ClientInUse
<1>9. CASE CrashAndBoot
  <2>1. budget' \in [BudgetKeys -> Nat] /\ budget'["restarts"] = budget["restarts"]
    BY <1>9, SpendFacts DEF CrashAndBoot, BudgetKeys
  <2>2. row' \in [Videos -> Row]
    BY <1>9, RowStatements DEF CrashAndBoot
  <2>3. mailbox' \in Seq(Message)
    BY <1>9 DEF CrashAndBoot, Message
  <2>4. free' \in [Incarnation -> Nat] /\ permits_total' \in [Incarnation -> Nat]
    BY <1>9 DEF CrashAndBoot, FreshSemaphore
  <2>5. task' \in [Tasks -> Task] /\ \A t \in Tasks : TaskInUse(t)'
    <3>1. task' = [t \in Tasks |-> UnusedTask]
      BY <1>9 DEF CrashAndBoot
    <3>2. QED
      BY <3>1, FreshTask DEF TaskInUse
  <2>6. client' \in [Clients -> Client] /\ \A c \in Clients : ClientInUse(c)'
    BY <1>9 DEF CrashAndBoot, IdleClient, Client, ClientPC, ClientInUse
  <2>7. QED
    BY <1>9, <2>1, <2>2, <2>3, <2>4, <2>5, <2>6 DEF CrashAndBoot, RetryTime
<1>10. ASSUME NEW v \in Videos, RetryBecomesDue(v) PROVE Typed'
  <2>1. [row[v] EXCEPT !.next_retry = "due"] \in Row
    <3>1. row[v] \in Row
      OBVIOUS
    <3>2. QED
      BY ONLY <3>1, RetryDueTyped
  <2>2. QED
    BY <1>10, <2>1 DEF RetryBecomesDue, TaskInUse, ClientInUse
<1>11. QED
  BY <1>1, <1>2, <1>3, <1>4, <1>5, <1>6, <1>7, <1>8, <1>9, <1>10 DEF Environment

\* Messages that arrive leave the head alone.
LEMMA TellKeepsHead ==
  ASSUME NEW m, mailbox \in Seq(Message), mailbox # <<>>, mailbox' = Append(mailbox, m)
  PROVE  mailbox' # <<>> /\ Head(mailbox') = Head(mailbox)
OBVIOUS

\* How a step treats the report that is half done.
LEMMA VerdictSteps ==
  ASSUME TypeInv, [Next]_vars
  PROVE  \/ JudgeFailure
         \/ verdict' = None
         \/ /\ UNCHANGED <<sweep, verdict>>
            /\ mailbox' = mailbox \/ \E m : mailbox' = Append(mailbox, m)
<1> USE DEF supervisorVars, configVars, clientUnchanged
<1>1. CASE UNCHANGED vars
  BY <1>1 DEF vars
<1>2. CASE SupervisorStep
  <2>1. CASE EnqueueDownload \/ RegisterWorker \/ DownloadCompleted \/ ReportOutcome
    BY <2>1 DEF EnqueueDownload, RegisterWorker, DownloadCompleted, ReportOutcome, Receive, Idle
  <2>2. CASE ProcessPendingDownloads \/ ApplySemaphoreTarget \/ CancelDownload
             \/ GetSupervisorStatus
    BY <2>2 DEF ProcessPendingDownloads, ApplySemaphoreTarget, CancelDownload,
                GetSupervisorStatus, Receive, Idle
  <2>3. CASE SweepVideo
    BY <2>3 DEF SweepVideo, TypeInv, HalfDone
  <2>4. CASE RecordFailure
    BY <2>4 DEF RecordFailure
  <2>5. QED
    BY <1>2, <2>1, <2>2, <2>3, <2>4 DEF SupervisorStep
<1>3. ASSUME NEW t \in Tasks, Acquire(t) \/ TaskStep(t)
      PROVE  /\ UNCHANGED <<sweep, verdict>>
             /\ mailbox' = mailbox \/ \E m : mailbox' = Append(mailbox, m)
  BY <1>3 DEF Acquire, TaskStep, TellRegisterWorker, AskStartDownload, ClaimVideo, EndDownload,
              ReleasePermit, TellDownloadCompleted, TellReportOutcome, Tell
<1>4. ASSUME NEW c \in Clients, ClientStep(c)
      PROVE  /\ UNCHANGED <<sweep, verdict>>
             /\ mailbox' = mailbox \/ \E m : mailbox' = Append(mailbox, m)
  BY <1>4 DEF ClientStep, BeginOperation, ResetToPending, RereadVideo, ReleaseVideo,
              TellEnqueueDownload, AskCancelDownload, RemoveVideo, AbandonOperation, Tell
<1>5. CASE Environment
  BY <1>5 DEF Environment, SchedulerTick, DbBackoffElapses, SetTarget, WatchTarget, TogglePause,
              BeginDrain, ProbeQuiescence, RestartSupervisor, CrashAndBoot, RetryBecomesDue, Tell
<1>6. QED
  BY <1>1, <1>2, <1>3, <1>4, <1>5 DEF Next

LEMMA HalfDoneNext == TypeInv /\ [Next]_vars => HalfDone'
<1> SUFFICES ASSUME TypeInv, [Next]_vars PROVE HalfDone'
  OBVIOUS
<1>1. CASE JudgeFailure
  BY <1>1 DEF JudgeFailure, Idle, HalfDone
<1>2. CASE verdict' = None
  BY <1>2 DEF HalfDone
<1>3. CASE /\ UNCHANGED <<sweep, verdict>>
           /\ mailbox' = mailbox \/ \E m : mailbox' = Append(mailbox, m)
  BY <1>3, TellKeepsHead DEF TypeInv, TypeOK, HalfDone
<1>4. QED
  BY <1>1, <1>2, <1>3, VerdictSteps

LEMMA TypeInvNext == TypeInv /\ [Next]_vars => TypeInv'
<1> SUFFICES ASSUME TypeInv, [Next]_vars PROVE TypeInv'
  OBVIOUS
<1>1. ASSUME UNCHANGED vars PROVE Typed'
  BY <1>1 DEF vars, configVars, supervisorVars, TypeInv, Typed, TypeOK, TaskInUse, ClientInUse
<1>2. ASSUME Next PROVE Typed'
  BY <1>2, TypeSupervisor, TypeTask, TypeClient, TypeEnvironment DEF Next
<1>3. Typed'
  BY <1>1, <1>2
<1>4. QED
  BY <1>3, HalfDoneNext DEF TypeInv, Typed

\* The pipeline is type correct whatever the constants are: no step of a
\* handler, a task, a client or the environment leaves the types of its state,
\* and no counter of permits ever becomes negative.
THEOREM TypeCorrect == Spec => []TypeOK
<1>1. TypeInv => TypeOK
  BY DEF TypeInv
<1>2. QED
  BY TypeInvInit, TypeInvNext, <1>1, PTL DEF Spec
=============================================================================
