--------------------------- MODULE DispatchProofs ----------------------------
(***************************************************************************)
(* What dispatches do to videos.  While nobody cancels a download and the  *)
(* supervisor is not restarted, reserve_dispatch is the dedup guard its    *)
(* comment promises and a drain that saw quiescence has seen the last of   *)
(* the downloads.  The run CancelRedispatch shows that a cancel breaks it; *)
(* a restart, which forgets the reservations of tasks that live on, does   *)
(* too.  Then: without faults a row that says `downloading` is answered    *)
(* for and a video that was released is not held at the gate again; a      *)
(* pipeline left to itself stops retrying and, without faults, keeps what  *)
(* it has completed.                                                       *)
(***************************************************************************)
EXTENDS ResourceProofs

Undisturbed == "cancel" \notin Operations /\ Budget["restarts"] = 0

(***************************************************************************)
(* UniqueDispatch is not inductive.  It needs the reservation of every     *)
(* live task, and that a completion is the last trace of its dispatch: the *)
(* reservation that it will drop cannot be the one of a later task.        *)
(***************************************************************************)

NobodyCancels ==
  /\ \A c \in Clients : client[c].pc # "cancel"
  /\ \A i \in DOMAIN mailbox : mailbox[i].kind # "CancelDownload"

LiveIsReserved == \A t \in Tasks : Live(t) => task[t].video \in dispatching

Completion(i, v) == mailbox[i].kind = "DownloadCompleted" /\ mailbox[i].video = v

CompletionIsLast ==
  \A i \in DOMAIN mailbox, v \in Videos : Completion(i, v) =>
     /\ v \in dispatching /\ ~LiveFor(v)
     /\ \A j \in DOMAIN mailbox : Completion(j, v) => i = j

ProbesDrain ==
  \A i \in DOMAIN mailbox : mailbox[i].kind = "GetSupervisorStatus" => draining

DrainedIsQuiet == drained => draining /\ dispatching = {}

DedupInv ==
  /\ TypeInv /\ NobodyCancels /\ LiveIsReserved /\ UniqueDispatch
  /\ CompletionIsLast /\ ProbesDrain /\ DrainedIsQuiet

LEMMA DedupInvInit == Init => DedupInv
<1> SUFFICES ASSUME Init PROVE DedupInv
  OBVIOUS
<1>1. TypeInv
  BY TypeInvInit
<1>2. DOMAIN mailbox = {1} /\ mailbox[1].kind = "ProcessPendingDownloads"
  BY DEF Init
<1>3. (\A t \in Tasks : ~Live(t)) /\ (\A c \in Clients : client[c].pc # "cancel")
  BY DEF Init, UnusedTask, IdleClient, Live
<1>4. ~drained
  BY DEF Init
<1>5. QED
  BY <1>1, <1>2, <1>3, <1>4
  DEF DedupInv, NobodyCancels, LiveIsReserved, UniqueDispatch, CompletionIsLast, Completion,
      ProbesDrain, DrainedIsQuiet

\* What the mailbox must satisfy, and a step's effect on what it refers to.
MailInv ==
  /\ \A i \in DOMAIN mailbox : mailbox[i].kind # "CancelDownload"
  /\ CompletionIsLast /\ ProbesDrain

FinishedKept(v) ==
  v \in dispatching /\ ~LiveFor(v) => v \in dispatching' /\ ~LiveFor(v)'

LEMMA MailShifts ==
  ASSUME MailInv, Shifted, draining' = draining,
         \A v \in Videos : ~Completes(v) => FinishedKept(v)
  PROVE  MailInv'
<1>1. /\ Len(mailbox) \in Nat /\ Len(mailbox) > 0
      /\ DOMAIN mailbox = 1 .. Len(mailbox)
      /\ DOMAIN mailbox' = 1 .. Len(mailbox) - 1
      /\ \A i \in DOMAIN mailbox' : mailbox'[i] = mailbox[i + 1]
  BY ShiftFacts
<1>2. \A i \in DOMAIN mailbox' : i + 1 \in DOMAIN mailbox /\ i + 1 # 1
  BY <1>1
<1>3. Head(mailbox) = mailbox[1] /\ 1 \in DOMAIN mailbox
  BY <1>1, HeadTailProperties DEF Shifted
<1>4. ASSUME NEW i \in DOMAIN mailbox', NEW v \in Videos, Completion(i, v)'
      PROVE  /\ v \in dispatching' /\ ~LiveFor(v)'
             /\ \A j \in DOMAIN mailbox' : Completion(j, v)' => i = j
  <2>1. Completion(i + 1, v)
    BY <1>1, <1>4 DEF Completion
  <2>2. ~Completes(v)
    BY <1>2, <1>3, <2>1 DEF MailInv, CompletionIsLast, Completion, Completes
  <2>3. v \in dispatching' /\ ~LiveFor(v)'
    BY <1>2, <2>1, <2>2 DEF FinishedKept, MailInv, CompletionIsLast
  <2>4. ASSUME NEW j \in DOMAIN mailbox', Completion(j, v)' PROVE i = j
    <3>1. Completion(j + 1, v)
      BY <1>1, <2>4 DEF Completion
    <3>2. i + 1 = j + 1
      BY <1>2, <2>1, <3>1 DEF MailInv, CompletionIsLast
    <3>3. QED
      BY <1>1, <3>2
  <2>5. QED
    BY <2>3, <2>4
<1>5. CompletionIsLast'
  BY <1>4 DEF CompletionIsLast
<1>6. QED
  BY <1>1, <1>2, <1>5 DEF MailInv, ProbesDrain

LEMMA MailTold ==
  ASSUME MailInv, mailbox \in Seq(Message), NEW m \in Message, Tell(m), draining' = draining,
         m.kind # "CancelDownload", m.kind = "GetSupervisorStatus" => draining,
         m.kind = "DownloadCompleted" =>
            /\ m.video \in dispatching' /\ ~LiveFor(m.video)'
            /\ \A i \in DOMAIN mailbox : ~Completion(i, m.video),
         \A v \in Videos : FinishedKept(v)
  PROVE  MailInv'
<1>1. /\ Len(mailbox) \in Nat /\ DOMAIN mailbox = 1 .. Len(mailbox)
      /\ DOMAIN mailbox' = 1 .. Len(mailbox) + 1
      /\ \A j \in DOMAIN mailbox : mailbox'[j] = mailbox[j]
      /\ mailbox'[Len(mailbox) + 1] = m
  BY TellFacts
<1>0. PICK new \in Nat : new = Len(mailbox) + 1
  BY <1>1
<1>2. \A i \in DOMAIN mailbox' : i \in DOMAIN mailbox \/ i = new
  BY <1>0, <1>1
<1>3. \A i \in DOMAIN mailbox, v \in Videos : Completion(i, v)' <=> Completion(i, v)
  BY <1>1 DEF Completion
<1>4. \A v \in Videos : Completion(new, v)' <=> (m.kind = "DownloadCompleted" /\ m.video = v)
  BY <1>0, <1>1 DEF Completion
<1>5. ASSUME NEW i \in DOMAIN mailbox', NEW v \in Videos, Completion(i, v)'
      PROVE  /\ v \in dispatching' /\ ~LiveFor(v)'
             /\ \A j \in DOMAIN mailbox' : Completion(j, v)' => i = j
  <2>1. CASE i \in DOMAIN mailbox
    <3>1. Completion(i, v)
      BY <1>3, <1>5, <2>1
    <3>2. v \in dispatching /\ ~LiveFor(v) /\ \A j \in DOMAIN mailbox : Completion(j, v) => i = j
      BY <2>1, <3>1 DEF MailInv, CompletionIsLast
    <3>3. ~Completion(new, v)'
      BY <1>4, <2>1, <3>1, <3>2 DEF Completion
    <3>4. QED
      BY <1>2, <1>3, <3>2, <3>3 DEF FinishedKept
  <2>2. CASE i = new
    BY <1>2, <1>3, <1>4, <1>5, <2>2
  <2>3. QED
    BY <1>2, <2>1, <2>2
<1>6. CompletionIsLast'
  BY <1>5 DEF CompletionIsLast
<1>7. \A i \in DOMAIN mailbox' : /\ mailbox'[i].kind # "CancelDownload"
                                 /\ mailbox'[i].kind = "GetSupervisorStatus" => draining'
  <2>1. mailbox'[new] = m
    BY <1>0, <1>1
  <2>2. QED
    BY <1>1, <1>2, <2>1 DEF MailInv, ProbesDrain
<1>8. QED
  BY <1>6, <1>7 DEF MailInv, ProbesDrain

LEMMA MailStays ==
  ASSUME MailInv, mailbox' = mailbox, draining => draining', \A v \in Videos : FinishedKept(v)
  PROVE  MailInv'
BY DEF MailInv, CompletionIsLast, ProbesDrain, Completion, FinishedKept

\* The tasks' side: who is live has a reservation, and no other has it too.
TasksInv == LiveIsReserved /\ UniqueDispatch

LEMMA TasksStay ==
  ASSUME TypeInv, TasksInv,
         \A t \in Tasks : Live(t)' => /\ Live(t) /\ task'[t].video = task[t].video
                                      /\ task[t].video \in dispatching'
  PROVE  /\ TasksInv'
         /\ \A v \in Videos : (v \in dispatching => v \in dispatching') => FinishedKept(v)
<1>1. LiveIsReserved'
  BY DEF LiveIsReserved
<1>2. UniqueDispatch'
  BY DEF TasksInv, UniqueDispatch
<1>3. QED
  BY <1>1, <1>2 DEF TasksInv, FinishedKept, LiveFor

LEMMA TasksUntouched ==
  ASSUME TypeInv, TasksInv, task' = task, dispatching' = dispatching
  PROVE  TasksInv' /\ \A v \in Videos : FinishedKept(v)
BY TasksStay DEF TasksInv, LiveIsReserved, Live

\* reserve_dispatch: the task it lets spawn is the only one of its video.
LEMMA DispatchDedups ==
  ASSUME TypeInv, TasksInv, DrainedIsQuiet, NEW v \in Videos, NEW snapshot,
         DispatchDownload(v, snapshot), drained' = drained, draining' = draining
  PROVE  TasksInv' /\ DrainedIsQuiet' /\ \A w \in Videos : FinishedKept(w)
<1>1. task \in [Tasks -> Task]
  BY DEF TypeInv, TypeOK
<1> DEFINE parked == [UnusedTask EXCEPT !.pc = "parked", !.video = v, !.semaphore = incarnation]
<1>2. parked.pc = "parked" /\ parked.video = v
  BY DEF UnusedTask
<1> HIDE DEF parked
<1>3. CASE UNCHANGED <<task, dispatching>>
  BY <1>3, TasksUntouched DEF DrainedIsQuiet
<1>4. ASSUME NEW t \in Tasks, task' = [task EXCEPT ![t] = parked], ~Refusing,
             v \notin dispatching, dispatching' = dispatching \cup {v}
      PROVE  TasksInv' /\ DrainedIsQuiet' /\ \A w \in Videos : FinishedKept(w)
  <2>1. \A u \in Tasks : Live(u)' => u = t \/ (Live(u) /\ task'[u].video = task[u].video
                                                      /\ task[u].video # v)
    BY <1>1, <1>4 DEF TasksInv, LiveIsReserved, Live
  <2>2. task'[t].video = v
    BY <1>1, <1>2, <1>4
  <2>3. LiveIsReserved'
    BY <1>4, <2>1, <2>2 DEF TasksInv, LiveIsReserved
  <2>4. UniqueDispatch'
    BY <2>1, <2>2 DEF TasksInv, UniqueDispatch
  <2>5. DrainedIsQuiet'
    BY <1>4 DEF DrainedIsQuiet, Refusing
  <2>6. \A w \in Videos : FinishedKept(w)
    BY <1>4, <2>1, <2>2 DEF FinishedKept, LiveFor
  <2>7. QED
    BY <2>3, <2>4, <2>5, <2>6 DEF TasksInv
<1>5. QED
  BY <1>3, <1>4 DEF DispatchDownload, Reservable, parked

LEMMA DedupParts ==
  DedupInv <=> /\ TypeInv /\ MailInv /\ TasksInv /\ DrainedIsQuiet
               /\ \A c \in Clients : client[c].pc # "cancel"
BY DEF DedupInv, MailInv, TasksInv, NobodyCancels

\* The report whose failure is recorded leaves the mailbox with that.
LEMMA RecordFacts ==
  ASSUME TypeInv, RecordFailure
  PROVE  /\ Shifted /\ 1 \in DOMAIN mailbox /\ Head(mailbox) = mailbox[1]
         /\ Head(mailbox).kind = "ReportOutcome" /\ Head(mailbox).outcome = "failed"
         /\ Head(mailbox).video \in Videos /\ verdict \in Verdict /\ sweep = {}
<1>1. Taken("ReportOutcome") /\ verdict \in Verdict /\ Head(mailbox).outcome = "failed"
  BY RecordTakes
<1>2. mailbox \in Seq(Message) /\ sweep = {} /\ mailbox # <<>>
  BY DEF TypeInv, TypeOK, HalfDone, RecordFailure, Verdict
<1>3. /\ Head(mailbox) \in Message /\ Head(mailbox).kind = "ReportOutcome"
      /\ Head(mailbox) = mailbox[1] /\ 1 \in DOMAIN mailbox
  BY <1>1, <1>2, TakenFacts
<1>4. Head(mailbox).video \in Videos
  BY <1>3, MessageFields
<1>5. Shifted
  BY <1>1, <1>2 DEF Taken, Shifted
<1>6. QED
  BY <1>1, <1>2, <1>3, <1>4, <1>5

LEMMA DedupSupervisor ==
  ASSUME DedupInv, TypeInv', SupervisorStep
  PROVE  DedupInv'
<1> USE DEF configVars, supervisorVars
<1>1. TypeInv /\ MailInv /\ TasksInv /\ DrainedIsQuiet /\ client' = client
      /\ mailbox \in Seq(Message) /\ dispatching \subseteq Videos
      /\ \A c \in Clients : client[c].pc # "cancel"
  BY DedupParts
  DEF TypeInv, TypeOK, SupervisorStep, EnqueueDownload, RegisterWorker, DownloadCompleted,
      ReportOutcome, JudgeFailure, RecordFailure, ProcessPendingDownloads, SweepVideo,
      ApplySemaphoreTarget, CancelDownload, GetSupervisorStatus
<1>2. SUFFICES MailInv' /\ TasksInv' /\ DrainedIsQuiet'
  BY <1>1 DEF DedupInv, MailInv, TasksInv, NobodyCancels
<1>3. ASSUME NEW kind, Receive(kind)
      PROVE  /\ Shifted /\ Head(mailbox).kind = kind
             /\ Head(mailbox) \in Message /\ Head(mailbox) = mailbox[1] /\ 1 \in DOMAIN mailbox
             /\ kind # "DownloadCompleted" => \A v : ~Completes(v)
  BY <1>1, <1>3, ReceiveFacts DEF Receive, Shifted, Completes
<1>4. CASE EnqueueDownload
  <2>1. Shifted /\ Head(mailbox).video \in Videos
    BY <1>3, <1>4, MessageFields DEF EnqueueDownload
  <2>2. /\ DispatchDownload(Head(mailbox).video, Head(mailbox).snapshot)
        /\ drained' = drained /\ draining' = draining
    BY <1>4 DEF EnqueueDownload
  <2>3. TasksInv' /\ DrainedIsQuiet' /\ \A w \in Videos : FinishedKept(w)
    BY <1>1, <2>1, <2>2, DispatchDedups
  <2>4. QED
    BY <1>1, <2>1, <2>2, <2>3, MailShifts
<1>5. CASE RegisterWorker \/ ReportOutcome \/ ProcessPendingDownloads \/ ApplySemaphoreTarget
  <2>1. Shifted
    BY <1>3, <1>5
    DEF RegisterWorker, ReportOutcome, ProcessPendingDownloads, ApplySemaphoreTarget
  <2>2. /\ task' = task /\ dispatching' = dispatching
        /\ drained' = drained /\ draining' = draining
    BY <1>5
    DEF RegisterWorker, ReportOutcome, ProcessPendingDownloads, ApplySemaphoreTarget
  <2>3. TasksInv' /\ \A v \in Videos : FinishedKept(v)
    BY <1>1, <2>2, TasksUntouched
  <2>4. QED
    BY <1>1, <2>1, <2>2, <2>3, MailShifts DEF DrainedIsQuiet
<1>6. CASE DownloadCompleted
  <2> DEFINE w == Head(mailbox).video
  <2>1. /\ Shifted /\ Head(mailbox).kind = "DownloadCompleted" /\ w \in Videos
        /\ Head(mailbox) = mailbox[1] /\ 1 \in DOMAIN mailbox
    BY <1>3, <1>6, MessageFields DEF DownloadCompleted
  <2>2. /\ task' = task /\ dispatching' = dispatching \ {w}
        /\ drained' = drained /\ draining' = draining
    BY <1>6 DEF DownloadCompleted, ForgetDispatch
  <2>3. ~LiveFor(w)
    BY <1>1, <2>1 DEF MailInv, CompletionIsLast, Completion
  <2>4. \A t \in Tasks : Live(t)' => /\ Live(t) /\ task'[t].video = task[t].video
                                     /\ task[t].video \in dispatching'
    BY <1>1, <2>2, <2>3 DEF TasksInv, LiveIsReserved, Live, LiveFor
  <2>5. TasksInv' /\ \A v \in Videos : v # w => FinishedKept(v)
    BY <1>1, <2>2, <2>4, TasksStay
  <2>6. \A v \in Videos : ~Completes(v) => FinishedKept(v)
    BY <2>1, <2>5 DEF Completes
  <2>7. QED
    BY <1>1, <2>1, <2>2, <2>5, <2>6, MailShifts DEF DrainedIsQuiet
<1>7. CASE SweepVideo
  <2>1. PICK s \in sweep : SweepVideo!(s)
    BY <1>7 DEF SweepVideo
  <2>2. /\ s.video \in Videos /\ mailbox' = mailbox
        /\ drained' = drained /\ draining' = draining
    BY <1>1, <2>1 DEF TypeInv, TypeOK
  <2>3. \/ task' = task /\ dispatching' = dispatching
        \/ DispatchDownload(s.video, s.snapshot)
    BY <2>1
  <2>4. TasksInv' /\ DrainedIsQuiet' /\ \A v \in Videos : FinishedKept(v)
    BY <1>1, <2>2, <2>3, TasksUntouched, DispatchDedups DEF DrainedIsQuiet
  <2>5. QED
    BY <1>1, <2>2, <2>4, MailStays
<1>8. CASE CancelDownload
  BY <1>1, <1>3, <1>8 DEF CancelDownload, MailInv
<1>9. CASE GetSupervisorStatus
  <2>1. /\ Shifted /\ Head(mailbox).kind = "GetSupervisorStatus"
        /\ Head(mailbox) = mailbox[1] /\ 1 \in DOMAIN mailbox
    BY <1>3, <1>9 DEF GetSupervisorStatus
  <2>2. /\ task' = task /\ dispatching' = dispatching /\ draining' = draining
        /\ drained' => drained \/ Quiescent
    BY <1>9 DEF GetSupervisorStatus
  <2>3. draining
    BY <1>1, <2>1 DEF MailInv, ProbesDrain
  <2>4. TasksInv' /\ \A v \in Videos : FinishedKept(v)
    BY <1>1, <2>2, TasksUntouched
  <2>5. DrainedIsQuiet'
    BY <1>1, <2>2, <2>3 DEF DrainedIsQuiet, Quiescent
  <2>6. QED
    BY <1>1, <2>1, <2>2, <2>4, <2>5, MailShifts
<1>10. CASE JudgeFailure \/ RecordFailure
  <2>1. /\ task' = task /\ dispatching' = dispatching
        /\ drained' = drained /\ draining' = draining
    BY <1>10 DEF JudgeFailure, RecordFailure
  <2>2. TasksInv' /\ \A v \in Videos : FinishedKept(v)
    BY <1>1, <2>1, TasksUntouched
  <2>3. MailInv'
    <3>1. CASE JudgeFailure
      BY <1>1, <2>1, <2>2, <3>1, MailStays DEF JudgeFailure
    <3>2. CASE RecordFailure
      <4>1. Shifted /\ \A v : ~Completes(v)
        BY <1>1, <3>2, RecordFacts DEF Completes
      <4>2. QED
        BY <1>1, <2>1, <2>2, <4>1, MailShifts
    <3>3. QED
      BY <1>10, <3>1, <3>2
  <2>4. QED
    BY <1>1, <2>1, <2>2, <2>3 DEF DrainedIsQuiet
<1>11. QED
  BY <1>4, <1>5, <1>6, <1>7, <1>8, <1>9, <1>10 DEF SupervisorStep

LEMMA DedupTask ==
  ASSUME DedupInv, TypeInv', NEW t \in Tasks, Acquire(t) \/ TaskStep(t)
  PROVE  DedupInv'
<1> USE DEF configVars, supervisorVars
<1>1. /\ TypeInv /\ MailInv /\ TasksInv /\ DrainedIsQuiet
      /\ mailbox \in Seq(Message) /\ dispatching \subseteq Videos
      /\ \A c \in Clients : client[c].pc # "cancel"
  BY DedupParts DEF TypeInv, TypeOK
<1>2. /\ client' = client /\ dispatching' = dispatching
      /\ drained' = drained /\ draining' = draining
  BY DEF Acquire, TaskStep, TellRegisterWorker, AskStartDownload, ClaimVideo, EndDownload,
         ReleasePermit, TellDownloadCompleted, TellReportOutcome
<1>3. SUFFICES MailInv' /\ TasksInv'
  BY <1>1, <1>2 DEF DedupInv, MailInv, TasksInv, NobodyCancels, DrainedIsQuiet
<1>4. task \in [Tasks -> Task] /\ (task[t].pc # "unused" => task[t].video \in Videos)
      /\ (task[t].pc = "reporting" => task[t].outcome \in Outcome)
  BY <1>1 DEF TypeInv, TypeOK, TaskInUse
<1>5. \A u \in Tasks \ {t} : task'[u] = task[u]
  BY <1>4
  DEF Acquire, TaskStep, TellRegisterWorker, AskStartDownload, ClaimVideo, EndDownload,
      ReleasePermit, TellDownloadCompleted, TellReportOutcome, Move, Finish
<1>6. Live(t)' => Live(t) /\ task'[t].video = task[t].video
  BY <1>4
  DEF Acquire, TaskStep, TellRegisterWorker, AskStartDownload, ClaimVideo, EndDownload,
      ReleasePermit, TellDownloadCompleted, TellReportOutcome, Move, Finish, Live, UnusedTask, Task
<1>7. TasksInv' /\ \A v \in Videos : FinishedKept(v)
  <2>1. \A u \in Tasks : Live(u)' => Live(u) /\ task'[u].video = task[u].video
    BY <1>5, <1>6 DEF Live
  <2>2. QED
    BY <1>1, <1>2, <2>1, TasksStay DEF TasksInv, LiveIsReserved
<1>8. CASE Acquire(t) \/ AskStartDownload(t) \/ ClaimVideo(t) \/ EndDownload(t) \/ ReleasePermit(t)
  <2>1. mailbox' = mailbox
    BY <1>8 DEF Acquire, AskStartDownload, ClaimVideo, EndDownload, ReleasePermit
  <2>2. QED
    BY <1>1, <1>2, <1>7, <2>1, MailStays
<1>9. CASE TellRegisterWorker(t)
  <2> DEFINE m == [kind |-> "RegisterWorker", video |-> task[t].video, worker |-> t]
  <2>1. m \in Message /\ m.kind = "RegisterWorker" /\ Tell(m)
    BY <1>4, <1>9 DEF TellRegisterWorker, Message
  <2> HIDE DEF m
  <2>2. QED
    BY <1>1, <1>2, <1>7, <2>1, MailTold
<1>10. CASE TellDownloadCompleted(t)
  <2>0. PICK v \in Videos : v = task[t].video
    BY <1>4, <1>10 DEF TellDownloadCompleted
  <2> DEFINE m == [kind |-> "DownloadCompleted", video |-> v]
  <2>1. m \in Message /\ m.kind = "DownloadCompleted" /\ m.video = v /\ Tell(m)
    BY <2>0, <1>10 DEF TellDownloadCompleted, Message
  <2>2. Live(t) /\ ~Live(t)'
    BY <1>4, <1>10 DEF TellDownloadCompleted, Live, UnusedTask, Task
  <2>3. v \in dispatching' /\ ~LiveFor(v)'
    BY <1>1, <1>2, <1>5, <2>0, <2>2 DEF TasksInv, LiveIsReserved, UniqueDispatch, LiveFor, Live
  <2>4. \A i \in DOMAIN mailbox : ~Completion(i, v)
    BY <1>1, <2>0, <2>2 DEF MailInv, CompletionIsLast, LiveFor
  <2> HIDE DEF m
  <2>5. QED
    BY <1>1, <1>2, <1>7, <2>1, <2>3, <2>4, MailTold
<1>11. CASE TellReportOutcome(t)
  <2> DEFINE m == [kind |-> "ReportOutcome", video |-> task[t].video, outcome |-> task[t].outcome]
  <2>1. m \in Message /\ m.kind = "ReportOutcome" /\ Tell(m)
    BY <1>4, <1>11 DEF TellReportOutcome, Message
  <2> HIDE DEF m
  <2>2. QED
    BY <1>1, <1>2, <1>7, <2>1, MailTold
<1>12. QED
  BY <1>8, <1>9, <1>10, <1>11 DEF TaskStep

\* No client cancels: an operation that is not exercised is never begun.
LEMMA DedupClient ==
  ASSUME Undisturbed, DedupInv, TypeInv', NEW c \in Clients, ClientStep(c)
  PROVE  DedupInv'
<1> USE DEF clientUnchanged, configVars, supervisorVars
<1>1. /\ TypeInv /\ MailInv /\ TasksInv /\ DrainedIsQuiet
      /\ mailbox \in Seq(Message)
      /\ \A d \in Clients : client[d].pc # "cancel"
      /\ client \in [Clients -> Client]
  BY DedupParts DEF TypeInv, TypeOK
<1>2. /\ task' = task /\ dispatching' = dispatching
      /\ drained' = drained /\ draining' = draining
  BY DEF ClientStep, BeginOperation, ResetToPending, RereadVideo, ReleaseVideo,
         TellEnqueueDownload, AskCancelDownload, RemoveVideo, AbandonOperation
<1>3. TasksInv' /\ \A v \in Videos : FinishedKept(v)
  BY <1>1, <1>2, TasksUntouched
<1>4. \A d \in Clients : client'[d].pc # "cancel"
  <2>1. \A d \in Clients \ {c} : client'[d] = client[d]
    BY <1>1
    DEF ClientStep, BeginOperation, ResetToPending, RereadVideo, ReleaseVideo,
        TellEnqueueDownload, AskCancelDownload, RemoveVideo, AbandonOperation, Leave, Proceed
  <2>2. CASE BeginOperation(c)
    <3>1. PICK op \in Operations, w \in Videos :
            client' = [client EXCEPT ![c] = [IdleClient EXCEPT !.pc = Second(op), !.op = op,
                                                                !.video = w]]
      BY <2>2 DEF BeginOperation
    <3>2. op \in ClientOps /\ op # "cancel"
      BY ConstantsAssumption DEF Undisturbed
    <3>3. Second(op) # "cancel"
      BY <3>2 DEF ClientOps, Second
    <3>4. client'[c].pc = Second(op)
      BY <1>1, <3>1 DEF IdleClient
    <3>5. QED
      BY <1>1, <2>1, <3>3, <3>4
  <2>3. CASE ~BeginOperation(c)
    <3>1. client'[c].pc # "cancel"
      BY <1>1, <2>3
      DEF ClientStep, ResetToPending, RereadVideo, ReleaseVideo, TellEnqueueDownload,
          AskCancelDownload, RemoveVideo, AbandonOperation, Leave, Proceed, IdleClient, Client
    <3>2. QED
      BY <1>1, <2>1, <3>1
  <2>4. QED
    BY <2>2, <2>3
<1>5. CASE TellEnqueueDownload(c)
  <2> DEFINE m == [kind |-> "EnqueueDownload", video |-> client[c].video,
                   snapshot |-> client[c].snapshot]
  <2>1. m \in Message /\ m.kind = "EnqueueDownload" /\ Tell(m)
    BY <1>1, <1>5 DEF TellEnqueueDownload, Message, TypeInv, ClientInUse
  <2> HIDE DEF m
  <2>2. MailInv'
    BY <1>1, <1>2, <1>3, <2>1, MailTold
  <2>3. QED
    BY <1>1, <1>2, <1>3, <1>4, <2>2
    DEF DedupInv, MailInv, TasksInv, NobodyCancels, DrainedIsQuiet
<1>6. CASE ~TellEnqueueDownload(c)
  <2>1. mailbox' = mailbox
    BY <1>1, <1>6
    DEF ClientStep, BeginOperation, ResetToPending, RereadVideo, ReleaseVideo,
        AskCancelDownload, RemoveVideo, AbandonOperation
  <2>2. MailInv'
    BY <1>1, <1>2, <1>3, <2>1, MailStays
  <2>3. QED
    BY <1>1, <1>2, <1>3, <1>4, <2>2
    DEF DedupInv, MailInv, TasksInv, NobodyCancels, DrainedIsQuiet
<1>7. QED
  BY <1>5, <1>6

LEMMA DedupEnvironment ==
  ASSUME Undisturbed, DedupInv, TypeInv', Environment
  PROVE  DedupInv'
<1> USE DEF configVars, supervisorVars
<1>1. /\ TypeInv /\ MailInv /\ TasksInv /\ DrainedIsQuiet
      /\ mailbox \in Seq(Message)
      /\ \A c \in Clients : client[c].pc # "cancel"
  BY DedupParts DEF TypeInv, TypeOK
<1>2. ~RestartSupervisor
  <2>1. incarnation \in Nat /\ incarnation >= 1 /\ budget["restarts"] \in Nat
        /\ incarnation + budget["restarts"] = 1
    BY <1>1 DEF Undisturbed, TypeInv, TypeOK, Incarnation, BudgetKeys
  <2>2. ~(budget["restarts"] > 0)
    BY <2>1
  <2>3. QED
    BY <2>2 DEF RestartSupervisor, Spend
<1>3. CASE CrashAndBoot
  <2>1. DOMAIN mailbox' = {1} /\ mailbox'[1].kind = "ProcessPendingDownloads"
    BY <1>3 DEF CrashAndBoot
  <2>2. (\A t \in Tasks : ~Live(t)') /\ (\A c \in Clients : client'[c].pc # "cancel") /\ ~drained'
    BY <1>3 DEF CrashAndBoot, UnusedTask, IdleClient, Live
  <2>3. QED
    BY <2>1, <2>2
    DEF DedupInv, NobodyCancels, LiveIsReserved, UniqueDispatch, CompletionIsLast, Completion,
        ProbesDrain, DrainedIsQuiet
<1>4. CASE ~CrashAndBoot
  <2>1. /\ task' = task /\ dispatching' = dispatching /\ client' = client
        /\ drained' = drained /\ (draining => draining')
    BY <1>2, <1>4
    DEF Environment, SchedulerTick, DbBackoffElapses, SetTarget, WatchTarget, TogglePause,
        BeginDrain, ProbeQuiescence, RetryBecomesDue
  <2>2. \/ mailbox' = mailbox
        \/ /\ draining' = draining
           /\ \/ Tell([kind |-> "ApplySemaphoreTarget", target |-> target])
              \/ Tell([kind |-> "ProcessPendingDownloads"])
              \/ Tell([kind |-> "GetSupervisorStatus"]) /\ draining
    BY <1>2, <1>4
    DEF Environment, SchedulerTick, DbBackoffElapses, SetTarget, WatchTarget, TogglePause,
        BeginDrain, ProbeQuiescence, RetryBecomesDue
  <2>3. /\ [kind |-> "ApplySemaphoreTarget", target |-> target] \in Message
        /\ [kind |-> "ProcessPendingDownloads"] \in Message
        /\ [kind |-> "GetSupervisorStatus"] \in Message
    BY <1>1 DEF TypeInv, TypeOK, Message
  <2>4. TasksInv' /\ \A v \in Videos : FinishedKept(v)
    BY <1>1, <2>1, TasksUntouched
  <2>5. MailInv'
    <3>1. CASE mailbox' = mailbox
      BY <1>1, <2>1, <2>4, <3>1, MailStays
    <3>2. CASE \E m \in Message : /\ Tell(m) /\ draining' = draining
                                  /\ m.kind \notin {"CancelDownload", "DownloadCompleted"}
                                  /\ m.kind = "GetSupervisorStatus" => draining
      BY <1>1, <2>4, <3>2, MailTold
    <3>3. QED
      BY <2>2, <2>3, <3>1, <3>2
  <2>6. QED
    BY <1>1, <2>1, <2>4, <2>5
    DEF DedupInv, MailInv, TasksInv, NobodyCancels, DrainedIsQuiet
<1>5. QED
  BY <1>3, <1>4

LEMMA DedupInvNext == Undisturbed /\ DedupInv /\ [Next]_vars => DedupInv'
<1> SUFFICES ASSUME Undisturbed, DedupInv, [Next]_vars PROVE DedupInv'
  OBVIOUS
<1>1. TypeInv'
  BY TypeInvNext DEF DedupInv
<1>2. CASE UNCHANGED vars
  <2>1. MailInv' /\ TasksInv'
    <3>1. TypeInv /\ MailInv /\ TasksInv
      BY DedupParts
    <3>2. task' = task /\ dispatching' = dispatching /\ mailbox' = mailbox /\ draining' = draining
      BY <1>2 DEF vars, configVars, supervisorVars
    <3>3. QED
      BY <3>1, <3>2, TasksUntouched, MailStays
  <2>2. QED
    BY <1>1, <1>2, <2>1
    DEF vars, configVars, supervisorVars, DedupInv, MailInv, TasksInv, NobodyCancels,
        DrainedIsQuiet
<1>3. CASE Next
  BY <1>1, <1>3, DedupSupervisor, DedupTask, DedupClient, DedupEnvironment DEF Next
<1>4. QED
  BY <1>2, <1>3

\* The dedup guard: with no cancel and no restart a video is never dispatched
\* twice at a time, however many sweeps and stale snapshots arrive.
THEOREM DispatchIsUnique == Undisturbed => (Spec => []UniqueDispatch)
<1> SUFFICES ASSUME Undisturbed PROVE Spec => []UniqueDispatch
  OBVIOUS
<1>1. DedupInv /\ [Next]_vars => DedupInv'
  BY DedupInvNext
<1>2. DedupInv => UniqueDispatch
  BY DEF DedupInv
<1>3. QED
  BY DedupInvInit, <1>1, <1>2, PTL DEF Spec

\* A drain that saw quiescence is not overtaken by a download: none is left,
\* and none can be dispatched any more.
THEOREM QuiescenceIsSound == Undisturbed => (Spec => []QuiescenceSound)
<1> SUFFICES ASSUME Undisturbed PROVE Spec => []QuiescenceSound
  OBVIOUS
<1>1. DedupInv /\ [Next]_vars => DedupInv'
  BY DedupInvNext
<1>2. DedupInv => QuiescenceSound
  BY DEF DedupInv, LiveIsReserved, DrainedIsQuiet, QuiescenceSound
<1>3. QED
  BY DedupInvInit, <1>1, <1>2, PTL DEF Spec

(***************************************************************************)
(* Who answers for a row that says `downloading`.  The property itself is  *)
(* not inductive: a task that merely has the video need not have claimed   *)
(* it, and an outcome that succeeded writes nothing.  Neither cancels nor  *)
(* any other client operation matters here, only faults of the database.   *)
(***************************************************************************)

Faultless == Budget["faults"] = 0

\* The task has claimed the row and will complete it or report on it.
Owns(t, v) ==
  /\ task[t].video = v
  /\ \/ task[t].pc = "downloading"
     \/ task[t].pc \in {"finished", "released", "reporting"}
        /\ task[t].outcome \in {"failed", "deferred"}

Reported(i, v) ==
  mailbox[i].kind = "ReportOutcome" /\ mailbox[i].video = v /\ mailbox[i].outcome # "success"

OwnedByTask(v) == \E t \in Tasks : Owns(t, v)

OwnedByReport(v) == \E i \in DOMAIN mailbox : Reported(i, v)

Answered(v) ==
  FirstInstance /\ row[v].status = "downloading" => OwnedByTask(v) \/ OwnedByReport(v)

OwnedInv == TypeInv /\ budget["faults"] = 0 /\ \A v \in Videos : Answered(v)

\* A step pays for at most one event.
LEMMA SpendsOne ==
  ASSUME TypeInv, [Next]_vars
  PROVE  budget' = budget \/ \E key \in BudgetKeys : Spend(key)
<1>0. {"requests", "changes", "pauses", "restarts", "crashes", "faults"} = BudgetKeys
  BY DEF BudgetKeys
<1>1. ASSUME SupervisorStep PROVE budget' = budget \/ Spend("faults")
  BY <1>1
  DEF SupervisorStep, EnqueueDownload, RegisterWorker, DownloadCompleted, ReportOutcome,
      JudgeFailure, RecordFailure, ProcessPendingDownloads, SweepVideo, ApplySemaphoreTarget,
      CancelDownload, GetSupervisorStatus
<1>2. ASSUME NEW t \in Tasks, Acquire(t) \/ TaskStep(t) PROVE budget' = budget \/ Spend("faults")
  BY <1>2
  DEF Acquire, TaskStep, TellRegisterWorker, AskStartDownload, ClaimVideo, QualityGate,
      EndDownload, ReleasePermit, TellDownloadCompleted, TellReportOutcome
<1>3. ASSUME NEW c \in Clients, ClientStep(c) PROVE budget' = budget \/ Spend("requests")
  <2>1. CASE BeginOperation(c)
    BY <2>1 DEF BeginOperation
  <2>2. CASE ~BeginOperation(c)
    BY <1>3, <2>2
    DEF ClientStep, ResetToPending, RereadVideo, ReleaseVideo, TellEnqueueDownload,
        AskCancelDownload, RemoveVideo, AbandonOperation
  <2>3. QED
    BY <2>1, <2>2
<1>4. ASSUME Environment PROVE budget' = budget \/ \E key \in BudgetKeys : Spend(key)
  BY <1>0, <1>4
  DEF Environment, SchedulerTick, DbBackoffElapses, SetTarget, WatchTarget, TogglePause,
      BeginDrain, ProbeQuiescence, RestartSupervisor, CrashAndBoot, RetryBecomesDue
<1>5. QED
  BY <1>0, <1>1, <1>2, <1>3, <1>4 DEF Next, vars

\* What the budget does not hold any more does not happen.
LEMMA SpentIsSpent ==
  ASSUME TypeInv, [Next]_vars, NEW key \in BudgetKeys, budget[key] = 0
  PROVE  budget'[key] = 0 /\ ~Spend(key)
<1>1. budget \in [BudgetKeys -> Nat]
  BY DEF TypeInv, TypeOK
<1>2. ~Spend(key)
  BY DEF Spend
<1>3. \A other \in BudgetKeys : Spend(other) => budget'[key] = 0
  BY <1>1, <1>2, SpendFacts
<1>4. QED
  BY <1>2, <1>3, SpendsOne

\* A report stays in the mailbox until it is at the head and handled.
LEMMA ReportsTold ==
  ASSUME mailbox \in Seq(Message), NEW m \in Message, Tell(m), NEW v, OwnedByReport(v)
  PROVE  OwnedByReport(v)'
<1>1. DOMAIN mailbox \subseteq DOMAIN mailbox' /\ \A i \in DOMAIN mailbox : mailbox'[i] = mailbox[i]
  BY TellFacts
<1>2. QED
  BY <1>1 DEF OwnedByReport, Reported

LEMMA ReportsShift ==
  ASSUME Shifted, NEW v, OwnedByReport(v), ~Reported(1, v)
  PROVE  OwnedByReport(v)'
<1>1. /\ Len(mailbox) \in Nat /\ DOMAIN mailbox = 1 .. Len(mailbox)
      /\ DOMAIN mailbox' = 1 .. Len(mailbox) - 1
      /\ \A i \in DOMAIN mailbox' : mailbox'[i] = mailbox[i + 1]
  BY ShiftFacts
<1>2. PICK i \in DOMAIN mailbox : Reported(i, v)
  BY DEF OwnedByReport
<1>3. PICK j \in Nat : j = i - 1
  BY <1>1, <1>2
<1>4. j \in DOMAIN mailbox' /\ j + 1 = i
  BY <1>1, <1>2, <1>3
<1>5. mailbox'[j] = mailbox[i]
  BY <1>1, <1>4
<1>6. QED
  BY <1>2, <1>4, <1>5 DEF OwnedByReport, Reported

\* The statements but the claim leave a row that is not being downloaded.
LEMMA StatusAfter ==
  ASSUME NEW r \in Row
  PROVE  /\ \A s \in VideoStatus : UpdateVideoStatus(r, s).status = s
         /\ \A o : MarkVideoFailed(r, o).status \in {"failed", "permanently_failed"}
         /\ DeferVideoForQuality(r).status = "awaiting_quality"
         /\ MarkVideoCompleted(r).status = "completed"
         /\ MarkVideoDownloading(r).status = "downloading"
         /\ ReleaseFromQualityGate(r).status = "pending"
         /\ UpsertVideo(r).status \in {r.status, "pending"}
         /\ ResetStuckDownload(r).status # "downloading"
         /\ [r EXCEPT !.next_retry = "due"].status = r.status
BY DEF Row, UpdateVideoStatus, MarkVideoFailed, DeferVideoForQuality, MarkVideoCompleted,
       MarkVideoDownloading, ReleaseFromQualityGate, UpsertVideo, NewVideo, Absent,
       ResetStuckDownload

LEMMA OwnersDispatch ==
  ASSUME TypeInv, NEW w \in Videos, NEW snapshot, DispatchDownload(w, snapshot),
         NEW v, OwnedByTask(v)
  PROVE  OwnedByTask(v)'
<1>1. task \in [Tasks -> Task]
  BY DEF TypeInv, TypeOK
<1>2. \A t \in Tasks : task[t].pc # "unused" => task'[t] = task[t]
  BY <1>1 DEF DispatchDownload
<1>3. QED
  BY <1>2 DEF OwnedByTask, Owns

LEMMA OwnersStop ==
  ASSUME TypeInv, NEW workers, StopWorkers(workers), NEW v, OwnedByTask(v)
  PROVE  OwnedByTask(v)'
<1>1. \A t \in Tasks : task[t].pc # "registered" => task'[t] = task[t]
  BY DEF TypeInv, TypeOK, StopWorkers
<1>2. QED
  BY <1>1 DEF OwnedByTask, Owns

LEMMA OwnedSupervisor ==
  ASSUME OwnedInv, ~Spend("faults"), SupervisorStep, NEW v \in Videos
  PROVE  Answered(v)'
<1> USE DEF configVars, supervisorVars
<1>1. /\ TypeInv /\ row \in [Videos -> Row] /\ row[v] \in Row
      /\ mailbox \in Seq(Message) /\ Answered(v)
  BY DEF OwnedInv, TypeInv, TypeOK
<1>2. ASSUME NEW kind, Receive(kind)
      PROVE  /\ Shifted /\ Head(mailbox) \in Message
             /\ Head(mailbox).kind = kind /\ Head(mailbox) = mailbox[1]
  BY <1>1, <1>2, ReceiveFacts DEF Receive, Shifted
<1>3. OwnedByTask(v) => OwnedByTask(v)'
  <2>1. CASE EnqueueDownload
    BY <1>1, <1>2, <2>1, MessageFields, OwnersDispatch DEF EnqueueDownload
  <2>2. CASE SweepVideo
    <3>1. PICK s \in sweep : SweepVideo!(s)
      BY <2>2 DEF SweepVideo
    <3>2. s.video \in Videos
      BY <1>1, <3>1 DEF TypeInv, TypeOK
    <3>3. DispatchDownload(s.video, s.snapshot) \/ task' = task
      BY <3>1
    <3>4. QED
      BY <1>1, <3>2, <3>3, OwnersDispatch DEF OwnedByTask, Owns
  <2>3. CASE CancelDownload
    BY <1>1, <2>3, OwnersStop DEF CancelDownload
  <2>4. CASE ~EnqueueDownload /\ ~SweepVideo /\ ~CancelDownload
    <3>1. task' = task
      BY <2>4
      DEF SupervisorStep, RegisterWorker, DownloadCompleted, ReportOutcome, JudgeFailure,
          RecordFailure, ProcessPendingDownloads, ApplySemaphoreTarget, GetSupervisorStatus
    <3>2. QED
      BY <3>1 DEF OwnedByTask, Owns
  <2>5. QED
    BY <2>1, <2>2, <2>3, <2>4
<1>4. incarnation' = incarnation
  BY DEF SupervisorStep, EnqueueDownload, RegisterWorker, DownloadCompleted, ReportOutcome,
         JudgeFailure, RecordFailure, ProcessPendingDownloads, SweepVideo, ApplySemaphoreTarget,
         CancelDownload, GetSupervisorStatus
<1>5. CASE ReportOutcome
  <2> DEFINE w == Head(mailbox).video
             o == Head(mailbox).outcome
  <2>1. Shifted /\ Head(mailbox) = mailbox[1] /\ w \in Videos /\ o \in Outcome
    BY <1>2, <1>5, MessageFields DEF ReportOutcome
  <2>2. row' = row \/ row' = [row EXCEPT ![w] = DeferVideoForQuality(row[w])]
    BY <1>5 DEF ReportOutcome
  <2>3. row'[v].status = "downloading" => row[v].status = "downloading"
    BY <1>1, <2>2, StatusAfter
  <2>4. ASSUME Reported(1, v) PROVE row'[v].status # "downloading"
    <3>1. w = v /\ o # "success"
      BY <2>1, <2>4 DEF Reported
    <3>2. CASE ~Found(v)
      BY <2>3, <3>2 DEF Found
    <3>3. CASE Found(v)
      <4>1. row' = [row EXCEPT ![v] = DeferVideoForQuality(row[v])]
        BY <1>5, <3>1, <3>3 DEF ReportOutcome
      <4>2. QED
        BY <1>1, <4>1, StatusAfter
    <3>4. QED
      BY <3>2, <3>3
  <2>5. OwnedByReport(v) => OwnedByReport(v)' \/ row'[v].status # "downloading"
    BY <2>1, <2>4, ReportsShift
  <2>6. QED
    BY <1>1, <1>3, <1>4, <2>3, <2>5 DEF Answered, FirstInstance
<1>6. CASE RecordFailure
  <2> DEFINE w == Head(mailbox).video
  <2>1. /\ Shifted /\ Head(mailbox) = mailbox[1] /\ w \in Videos
        /\ \/ row' = [row EXCEPT ![w] = MarkVideoFailed(row[w], verdict)]
           \/ row' = row /\ ~Found(w)
    BY <1>1, <1>6, RecordFacts DEF RecordFailure
  <2>2. row'[v].status = "downloading" => row[v].status = "downloading" /\ w # v
    BY <1>1, <2>1, StatusAfter DEF Found
  <2>3. w # v /\ OwnedByReport(v) => OwnedByReport(v)'
    BY <2>1, ReportsShift DEF Reported
  <2>4. QED
    BY <1>1, <1>3, <1>4, <2>2, <2>3 DEF Answered, FirstInstance
<1>7. CASE ~ReportOutcome /\ ~RecordFailure
  <2>1. row'[v].status = "downloading" => row[v].status = "downloading"
    <3>1. CASE CancelDownload
      <4>1. Head(mailbox).video \in Videos
        BY <1>2, <3>1, MessageFields DEF CancelDownload
      <4>2. \/ row' = row
            \/ row' = [row EXCEPT ![Head(mailbox).video] =
                                     UpdateVideoStatus(row[Head(mailbox).video], "failed")]
        BY <3>1 DEF CancelDownload
      <4>3. "failed" \in VideoStatus
        BY DEF VideoStatus
      <4>4. QED
        BY <1>1, <4>1, <4>2, <4>3, StatusAfter
    <3>2. CASE ~CancelDownload
      BY <1>7, <3>2
      DEF SupervisorStep, EnqueueDownload, RegisterWorker, DownloadCompleted, JudgeFailure,
          ProcessPendingDownloads, SweepVideo, ApplySemaphoreTarget, GetSupervisorStatus
    <3>3. QED
      BY <3>1, <3>2
  <2>2. OwnedByReport(v) => OwnedByReport(v)'
    <3>1. CASE SweepVideo \/ JudgeFailure
      BY <3>1 DEF SweepVideo, JudgeFailure, OwnedByReport, Reported
    <3>2. CASE ~SweepVideo /\ ~JudgeFailure
      <4>1. Shifted /\ Head(mailbox) = mailbox[1] /\ Head(mailbox).kind # "ReportOutcome"
        BY <1>2, <1>7, <3>2
        DEF SupervisorStep, EnqueueDownload, RegisterWorker, DownloadCompleted,
            ProcessPendingDownloads, ApplySemaphoreTarget, CancelDownload, GetSupervisorStatus
      <4>2. QED
        BY <4>1, ReportsShift DEF Reported
    <3>3. QED
      BY <3>1, <3>2
  <2>3. QED
    BY <1>1, <1>3, <1>4, <2>1, <2>2 DEF Answered, FirstInstance
<1>8. QED
  BY <1>5, <1>6, <1>7

\* The claim makes its task the owner; only a row written `completed`, or gone,
\* ends a download without a report.
LEMMA OwnedTask ==
  ASSUME OwnedInv, ~Spend("faults"), NEW t \in Tasks, Acquire(t) \/ TaskStep(t), NEW v \in Videos
  PROVE  Answered(v)'
<1> USE DEF configVars, supervisorVars
<1>1. /\ TypeInv /\ row \in [Videos -> Row] /\ row[v] \in Row
      /\ task \in [Tasks -> Task] /\ mailbox \in Seq(Message) /\ Answered(v)
      /\ task[t].pc # "unused" => task[t].video \in Videos
      /\ task[t].pc = "reporting" => task[t].outcome \in Outcome
  BY DEF OwnedInv, TypeInv, TypeOK, TaskInUse
<1>2. incarnation' = incarnation
  BY DEF Acquire, TaskStep, TellRegisterWorker, AskStartDownload, ClaimVideo, EndDownload,
         ReleasePermit, TellDownloadCompleted, TellReportOutcome
<1>3. \A u \in Tasks \ {t} : Owns(u, v) => Owns(u, v)'
  <2>1. \A u \in Tasks \ {t} : task'[u] = task[u]
    BY <1>1
    DEF Acquire, TaskStep, TellRegisterWorker, AskStartDownload, ClaimVideo, EndDownload,
        ReleasePermit, TellDownloadCompleted, TellReportOutcome, Move, Finish
  <2>2. QED
    BY <2>1 DEF Owns
<1>4. CASE Acquire(t) \/ TellRegisterWorker(t) \/ AskStartDownload(t)
  <2>1. ~Owns(t, v)
    BY <1>4 DEF Acquire, TellRegisterWorker, AskStartDownload, Owns
  <2>2. OwnedByTask(v) => OwnedByTask(v)'
    BY <1>3, <2>1 DEF OwnedByTask
  <2>3. OwnedByReport(v) => OwnedByReport(v)'
    <3> DEFINE m == [kind |-> "RegisterWorker", video |-> task[t].video, worker |-> t]
    <3>1. CASE TellRegisterWorker(t)
      <4>1. m \in Message /\ Tell(m)
        BY <1>1, <3>1 DEF TellRegisterWorker, Message
      <4>2. QED
        BY <1>1, <4>1, ReportsTold
    <3>2. CASE Acquire(t) \/ AskStartDownload(t)
      BY <3>2 DEF Acquire, AskStartDownload, OwnedByReport, Reported
    <3>3. QED
      BY <1>4, <3>1, <3>2
  <2>4. row' = row
    BY <1>4 DEF Acquire, TellRegisterWorker, AskStartDownload
  <2>5. QED
    BY <1>1, <1>2, <2>2, <2>3, <2>4 DEF Answered, FirstInstance
<1>5. CASE ClaimVideo(t)
  <2>1. mailbox' = mailbox /\ ~Owns(t, v) /\ task[t].video \in Videos
    BY <1>1, <1>5 DEF ClaimVideo, Owns
  <2>2. \/ row' = row
        \/ /\ row' = [row EXCEPT ![task[t].video] = MarkVideoDownloading(row[task[t].video])]
           /\ task'[t].pc = "downloading" /\ task'[t].video = task[t].video
    BY <1>1, <1>5 DEF ClaimVideo, Task
  <2>3. row'[v] = row[v] \/ Owns(t, v)'
    BY <1>1, <2>1, <2>2 DEF Owns
  <2>4. QED
    BY <1>1, <1>2, <1>3, <2>1, <2>3
    DEF Answered, FirstInstance, OwnedByTask, OwnedByReport, Reported
<1>6. CASE EndDownload(t)
  <2>1. mailbox' = mailbox /\ task[t].video \in Videos
    BY <1>1, <1>6 DEF EndDownload
  <2>2. CASE task[t].video # v
    <3>1. row'[v] = row[v] /\ ~Owns(t, v)
      BY <1>1, <1>6, <2>2 DEF EndDownload, Owns
    <3>2. QED
      BY <1>1, <1>2, <1>3, <2>1, <3>1
      DEF Answered, FirstInstance, OwnedByTask, OwnedByReport, Reported
  <2>3. CASE task[t].video = v
    <3>1. \/ row'[v].status # "downloading"
          \/ Finish(t, "failed") /\ row' = row
          \/ Finish(t, "deferred") /\ row' = row
      BY <1>1, <1>6, <2>3, StatusAfter DEF EndDownload, Found
    <3>2. ASSUME NEW o \in {"failed", "deferred"}, Finish(t, o) PROVE Owns(t, v)'
      BY <1>1, <2>3, <3>2 DEF Finish, Owns, Task
    <3>3. row'[v].status # "downloading" \/ OwnedByTask(v)'
      BY <3>1, <3>2 DEF OwnedByTask
    <3>4. QED
      BY <3>3 DEF Answered
  <2>4. QED
    BY <2>2, <2>3
<1>7. CASE ReleasePermit(t)
  <2>1. row' = row /\ mailbox' = mailbox
    BY <1>7 DEF ReleasePermit
  <2>2. Owns(t, v) => Owns(t, v)'
    BY <1>1, <1>7 DEF ReleasePermit, Move, Owns, Task
  <2>3. QED
    BY <1>1, <1>2, <1>3, <2>1, <2>2
    DEF Answered, FirstInstance, OwnedByTask, OwnedByReport, Reported
<1>8. CASE TellDownloadCompleted(t)
  <2> DEFINE m == [kind |-> "DownloadCompleted", video |-> task[t].video]
  <2>1. m \in Message /\ Tell(m) /\ row' = row
    BY <1>1, <1>8 DEF TellDownloadCompleted, Message
  <2>2. Owns(t, v) => Owns(t, v)'
    <3>1. ASSUME Owns(t, v) PROVE task'[t] = [task[t] EXCEPT !.pc = "reporting"]
      <4>1. task[t].outcome # None
        BY <1>8, <3>1, ConstantsAssumption DEF TellDownloadCompleted, Owns, Outcome
      <4>2. QED
        BY <1>1, <1>8, <4>1 DEF TellDownloadCompleted
    <3>2. QED
      BY <1>1, <1>8, <3>1 DEF TellDownloadCompleted, Owns, Task
  <2>3. OwnedByReport(v) => OwnedByReport(v)'
    BY <1>1, <2>1, ReportsTold
  <2>4. QED
    BY <1>1, <1>2, <1>3, <2>1, <2>2, <2>3 DEF Answered, FirstInstance, OwnedByTask
<1>9. CASE TellReportOutcome(t)
  <2> DEFINE m == [kind |-> "ReportOutcome", video |-> task[t].video, outcome |-> task[t].outcome]
  <2>1. m \in Message /\ Tell(m) /\ row' = row
    BY <1>1, <1>9 DEF TellReportOutcome, Message
  <2>2. OwnedByReport(v) => OwnedByReport(v)'
    BY <1>1, <2>1, ReportsTold
  <2>3. ASSUME Owns(t, v) PROVE OwnedByReport(v)'
    <3>1. /\ DOMAIN mailbox' = 1 .. Len(mailbox) + 1 /\ Len(mailbox) \in Nat
          /\ mailbox'[Len(mailbox) + 1] = m
      BY <1>1, <2>1, TellFacts
    <3>2. Len(mailbox) + 1 \in DOMAIN mailbox'
      BY <3>1
    <3>3. m.kind = "ReportOutcome" /\ m.video = v /\ m.outcome # "success"
      BY <1>9, <2>3 DEF TellReportOutcome, Owns
    <3> HIDE DEF m
    <3>4. QED
      BY <3>1, <3>2, <3>3 DEF OwnedByReport, Reported
  <2>4. QED
    BY <1>1, <1>2, <1>3, <2>1, <2>2, <2>3 DEF Answered, FirstInstance, OwnedByTask
<1>10. QED
  BY <1>4, <1>5, <1>6, <1>7, <1>8, <1>9 DEF TaskStep

LEMMA OwnedClient ==
  ASSUME OwnedInv, NEW c \in Clients, ClientStep(c), NEW v \in Videos
  PROVE  Answered(v)'
<1>1. /\ TypeInv /\ row \in [Videos -> Row] /\ row[v] \in Row
      /\ mailbox \in Seq(Message) /\ Answered(v) /\ client[c] \in Client
      /\ client[c].pc # "idle" => client[c].video \in Videos
      /\ client[c].pc = "enqueue" => client[c].snapshot \in Snapshot
  BY DEF OwnedInv, TypeInv, TypeOK, ClientInUse
<1>2. incarnation' = incarnation /\ task' = task
  <2>1. UNCHANGED clientUnchanged
    <3>1. CASE BeginOperation(c)
      BY <3>1 DEF BeginOperation
    <3>2. CASE ReleaseVideo(c) \/ RemoveVideo(c) \/ ResetToPending(c)
      BY <3>2 DEF ReleaseVideo, RemoveVideo, ResetToPending
    <3>3. CASE RereadVideo(c) \/ TellEnqueueDownload(c) \/ AskCancelDownload(c)
                \/ AbandonOperation(c)
      BY <3>3 DEF RereadVideo, TellEnqueueDownload, AskCancelDownload, AbandonOperation
    <3>4. QED
      BY <3>1, <3>2, <3>3 DEF ClientStep
  <2>2. QED
    BY <2>1 DEF clientUnchanged, supervisorVars
<1>3. row'[v].status = "downloading" => row[v].status = "downloading"
  <2>1. {"pending", "cleaned"} \subseteq VideoStatus
    BY DEF VideoStatus
  <2>2. CASE BeginOperation(c)
    <3>1. PICK op \in Operations, w \in Videos :
            row' = [row EXCEPT ![w] = IF op = "discover" THEN UpsertVideo(@) ELSE @]
      BY <2>2 DEF BeginOperation
    <3>2. row'[v] \in {row[v], UpsertVideo(row[v])}
      BY <1>1, <3>1
    <3>3. QED
      BY <1>1, <3>2, StatusAfter
  <2>3. CASE ResetToPending(c)
    BY <1>1, <2>1, <2>3, StatusAfter DEF ResetToPending
  <2>4. CASE ReleaseVideo(c)
    BY <1>1, <2>4, StatusAfter DEF ReleaseVideo
  <2>5. CASE RemoveVideo(c)
    <3>1. Absent.status # "downloading"
      BY DEF Absent
    <3>2. QED
      BY <1>1, <2>1, <2>5, <3>1, StatusAfter DEF RemoveVideo
  <2>6. CASE ~BeginOperation(c) /\ ~ResetToPending(c) /\ ~ReleaseVideo(c) /\ ~RemoveVideo(c)
    BY <2>6
    DEF ClientStep, RereadVideo, TellEnqueueDownload, AskCancelDownload, AbandonOperation
  <2>7. QED
    BY <2>2, <2>3, <2>4, <2>5, <2>6
<1>4. OwnedByReport(v) => OwnedByReport(v)'
  <2>1. mailbox' = mailbox \/ \E m \in Message : Tell(m)
    <3>1. CASE TellEnqueueDownload(c)
      BY <1>1, <3>1 DEF TellEnqueueDownload, Message
    <3>2. CASE AskCancelDownload(c)
      BY <1>1, <3>2 DEF AskCancelDownload, Message
    <3>3. CASE ~TellEnqueueDownload(c) /\ ~AskCancelDownload(c)
      <4>1. CASE BeginOperation(c)
        BY <4>1 DEF BeginOperation
      <4>2. CASE ~BeginOperation(c)
        BY <3>3, <4>2
        DEF ClientStep, ResetToPending, RereadVideo, ReleaseVideo, RemoveVideo, AbandonOperation
      <4>3. QED
        BY <4>1, <4>2
    <3>4. QED
      BY <3>1, <3>2, <3>3
  <2>2. QED
    BY <1>1, <2>1, ReportsTold DEF OwnedByReport, Reported
<1>5. QED
  BY <1>1, <1>2, <1>3, <1>4 DEF Answered, FirstInstance, OwnedByTask, Owns

LEMMA OwnedEnvironment ==
  ASSUME OwnedInv, Environment, NEW v \in Videos
  PROVE  Answered(v)'
<1> USE DEF configVars, supervisorVars
<1>1. /\ TypeInv /\ row \in [Videos -> Row] /\ row[v] \in Row
      /\ mailbox \in Seq(Message) /\ Answered(v)
      /\ target \in Targets /\ incarnation \in Incarnation
  BY DEF OwnedInv, TypeInv, TypeOK
<1>2. CASE RestartSupervisor
  <2>1. incarnation + 1 # 1
    BY <1>1, ConstantsAssumption DEF Incarnation, BudgetKeys
  <2>2. QED
    BY <1>2, <2>1 DEF RestartSupervisor, Answered, FirstInstance
<1>3. CASE CrashAndBoot
  BY <1>1, <1>3, StatusAfter DEF CrashAndBoot, Answered
<1>4. CASE ~RestartSupervisor /\ ~CrashAndBoot
  <2>1. task' = task /\ incarnation' = incarnation
    BY <1>4
    DEF Environment, SchedulerTick, DbBackoffElapses, SetTarget, WatchTarget, TogglePause,
        BeginDrain, ProbeQuiescence, RetryBecomesDue
  <2>2. row'[v].status = row[v].status
    <3>1. CASE \E w \in Videos : RetryBecomesDue(w)
      BY <1>1, <3>1, StatusAfter DEF RetryBecomesDue
    <3>2. CASE ~\E w \in Videos : RetryBecomesDue(w)
      BY <1>4, <3>2
      DEF Environment, SchedulerTick, DbBackoffElapses, SetTarget, WatchTarget, TogglePause,
          BeginDrain, ProbeQuiescence
    <3>3. QED
      BY <3>1, <3>2
  <2>3. mailbox' = mailbox \/ \E m \in Message : Tell(m)
    <3>1. /\ [kind |-> "ApplySemaphoreTarget", target |-> target] \in Message
          /\ [kind |-> "ProcessPendingDownloads"] \in Message
          /\ [kind |-> "GetSupervisorStatus"] \in Message
      BY <1>1 DEF Message
    <3>2. QED
      BY <1>4, <3>1
      DEF Environment, SchedulerTick, DbBackoffElapses, SetTarget, WatchTarget, TogglePause,
          BeginDrain, ProbeQuiescence, RetryBecomesDue
  <2>4. OwnedByReport(v) => OwnedByReport(v)'
    BY <1>1, <2>3, ReportsTold DEF OwnedByReport, Reported
  <2>5. QED
    BY <1>1, <2>1, <2>2, <2>4 DEF Answered, FirstInstance, OwnedByTask, Owns
<1>5. QED
  BY <1>2, <1>3, <1>4

LEMMA OwnedInvNext == OwnedInv /\ [Next]_vars => OwnedInv'
<1> SUFFICES ASSUME OwnedInv, [Next]_vars PROVE OwnedInv'
  OBVIOUS
<1>1. TypeInv' /\ budget'["faults"] = 0 /\ ~Spend("faults")
  BY TypeInvNext, SpentIsSpent DEF OwnedInv, BudgetKeys
<1>2. ASSUME NEW v \in Videos PROVE Answered(v)'
  <2>1. CASE UNCHANGED vars
    BY <2>1
    DEF vars, configVars, supervisorVars, OwnedInv, Answered, FirstInstance, OwnedByTask, Owns,
        OwnedByReport, Reported
  <2>2. CASE Next
    BY <1>1, <2>2, OwnedSupervisor, OwnedTask, OwnedClient, OwnedEnvironment DEF Next
  <2>3. QED
    BY <2>1, <2>2
<1>3. QED
  BY <1>1, <1>2 DEF OwnedInv

\* Without faults of the database a row that says `downloading` has a task
\* that works on it or an outcome on its way, in the first instance of the
\* supervisor, whatever operators, cancels and crashes do: it is never stuck.
THEOREM DownloadsAreOwned == Faultless => (Spec => []DownloadingIsOwned)
<1> SUFFICES ASSUME Faultless PROVE Spec => []DownloadingIsOwned
  OBVIOUS
<1>1. Init => OwnedInv
  <2> SUFFICES ASSUME Init PROVE OwnedInv
    OBVIOUS
  <2>1. budget["faults"] = 0
    BY DEF Init, Faultless
  <2>2. \A v \in Videos : row[v].status # "downloading"
    BY DEF Init, Absent, NewVideo
  <2>3. QED
    BY <2>1, <2>2, TypeInvInit DEF OwnedInv, Answered
<1>2. OwnedInv => DownloadingIsOwned
  BY DEF OwnedInv, Answered, OwnedByTask, Owns, OwnedByReport, Reported, DownloadingIsOwned, Queued
<1>3. QED
  BY <1>1, <1>2, OwnedInvNext, PTL DEF Spec

BeforeClaim(t) == task[t].pc \in {"parked", "spawned", "registered", "queued"}

LEMMA AttemptsAfter ==
  ASSUME NEW r \in Row
  PROVE  /\ \A o : MarkVideoFailed(r, o).attempts = r.attempts
         /\ DeferVideoForQuality(r).attempts <= r.attempts
         /\ \A n \in Nat \ {0} : r.attempts <= n => DeferVideoForQuality(r).attempts < n
         /\ MarkVideoCompleted(r).attempts = r.attempts
         /\ MarkVideoDownloading(r).attempts = r.attempts + 1
         /\ [r EXCEPT !.next_retry = "due"].attempts = r.attempts
<1>1. r.attempts \in Nat
  BY DEF Row
<1>2. \A o : MarkVideoFailed(r, o).attempts = r.attempts
  BY DEF Row, MarkVideoFailed
<1>3. DeferVideoForQuality(r).attempts = IF r.attempts > 0 THEN r.attempts - 1 ELSE 0
  BY DEF Row, DeferVideoForQuality
<1>4. /\ MarkVideoCompleted(r).attempts = r.attempts
      /\ MarkVideoDownloading(r).attempts = r.attempts + 1
      /\ [r EXCEPT !.next_retry = "due"].attempts = r.attempts
  BY DEF Row, MarkVideoCompleted, MarkVideoDownloading
<1>5. QED
  BY <1>1, <1>2, <1>3, <1>4

(***************************************************************************)
(* Why a released video is not held back again.  The order of UPDATE and   *)
(* report decides it: the gate answers when the row is claimed, the answer *)
(* is written by the supervisor some steps later, and "Download now" may   *)
(* come in between.  It cannot when the row does not wait at the gate as   *)
(* long as an answer is outstanding.  A retry or the indexer, which send a *)
(* snapshot of a row that need not have been released, break that.         *)
(***************************************************************************)

\* Nobody but "Download now" asks for a download ...
NobodyRetries == Undisturbed /\ Operations \subseteq {"download_now", "delete", "clean"}

\* ... and no statement fails.
OnlyReleased == NobodyRetries /\ Faultless

\* Work or a report on v that has yet to be written to its row.
Outstanding(v) == OwnedByTask(v) \/ OwnedByReport(v)

\* Of it, what may or will put the row back to the gate.
Holding(t) ==
  IF task[t].pc = "downloading" THEN task[t].gated ELSE task[t].outcome = "deferred"

Report(m, v) == m.kind = "ReportOutcome" /\ m.video = v /\ m.outcome # "success"

HeldByReport(v) == \E i \in DOMAIN mailbox : Reported(i, v) /\ mailbox[i].outcome = "deferred"

HeldBack(v) == (\E t \in Tasks : Owns(t, v) /\ Holding(t)) \/ HeldByReport(v)

\* Somebody's request for v is on its way.
Asked(v) ==
  Queued("EnqueueDownload", v) \/ \E c \in Clients : client[c].pc = "enqueue" /\ client[c].video = v

OneReport(v) == \A i, j \in DOMAIN mailbox : Reported(i, v) /\ Reported(j, v) => i = j

Once(v) ==
  /\ \A t, u \in Tasks : Owns(t, v) /\ Owns(u, v) => t = u
  /\ OneReport(v)
  /\ ~(OwnedByTask(v) /\ OwnedByReport(v))

Waiting(v) == row[v].status \in {"pending", "failed", "awaiting_quality"}

\* While an answer is outstanding nothing else is, and nothing dispatches v.
Orderly(v) ==
  /\ Once(v)
  /\ Outstanding(v) =>
       /\ ~Waiting(v)
       /\ \A t \in Tasks : BeforeClaim(t) => task[t].video # v
       /\ \A s \in sweep : s.video = v => v \in dispatching

\* Every claim fails because the counter is at its limit.
Stuck(v) == row[v].attempts >= MaxInteger /\ ~HeldBack(v)

GateHolds(v) ==
  \/ ~Found(v)
  \/ row[v].skip_quality_gate /\ ~HeldBack(v)
  \/ ~row[v].skip_quality_gate /\ ~Asked(v) /\ (Stuck(v) \/ Orderly(v))

OnlyReleases == \A c \in Clients : client[c].pc \notin {"reset", "reread", "cancel"}

NoOutcomeYet == \A t \in Tasks : BeforeClaim(t) => task[t].outcome = None

GatesHold == OnlyReleases /\ \A v \in Videos : GateHolds(v)

Ordered == DedupInv /\ NoOutcomeYet /\ GatesHold

\* A failed statement ends the order for good.
GateInv == DedupInv /\ budget["faults"] <= Budget["faults"] /\ (~Faulty => Ordered)

\* As long as no statement has failed none fails in the step either.
LEMMA FaultyStays ==
  ASSUME TypeInv, [Next]_vars, budget["faults"] <= Budget["faults"]
  PROVE  /\ budget'["faults"] <= Budget["faults"]
         /\ Faulty => Faulty'
         /\ ~Faulty' => ~Faulty /\ ~Spend("faults")
<1>1. budget \in [BudgetKeys -> Nat] /\ "faults" \in BudgetKeys
  BY DEF TypeInv, TypeOK, BudgetKeys
<1>2. \/ budget' = budget
      \/ \E key \in BudgetKeys : Spend(key)
  BY SpendsOne
<1>3. \A key \in BudgetKeys : Spend(key) =>
        budget'["faults"] = IF key = "faults" THEN budget["faults"] - 1 ELSE budget["faults"]
  BY <1>1, SpendFacts
<1>4. PICK before \in Nat : before = budget["faults"]
  BY <1>1
<1>5. PICK all \in Nat : all = Budget["faults"]
  BY <1>1, ConstantsAssumption
<1>6. budget'["faults"] \in {before, before - 1}
  BY <1>2, <1>3, <1>4
<1>7. Spend("faults") => budget'["faults"] = before - 1
  BY <1>1, <1>3, <1>4
<1>8. PICK after : after = budget'["faults"]
  OBVIOUS
<1>9. /\ after <= all
      /\ before < all => after < all
      /\ after >= all => ~Spend("faults") /\ before >= all
  BY <1>4, <1>5, <1>6, <1>7, <1>8
<1>10. (Faulty <=> before < all) /\ (Faulty' <=> after < all)
  BY <1>4, <1>5, <1>8 DEF Faulty
<1>11. after < all \/ after >= all
  BY <1>4, <1>5, <1>6, <1>8
<1>12. before >= all => ~(before < all)
  BY <1>4, <1>5
<1>13. QED
  BY <1>5, <1>8, <1>9, <1>10, <1>11, <1>12

\* A message that waits after a step waited before it or has just been sent.
LEMMA EarlierMail ==
  ASSUME mailbox \in Seq(Message), NEW m \in Message,
         mailbox' = mailbox \/ Shifted \/ Tell(m)
  PROVE  \E d \in {0, 1} : \A j \in DOMAIN mailbox' :
            \/ j \in Nat /\ j + d \in DOMAIN mailbox /\ mailbox'[j] = mailbox[j + d]
            \/ mailbox'[j] = m /\ Tell(m) /\ j \notin DOMAIN mailbox
<1>1. CASE mailbox' = mailbox
  <2>1. \A j \in DOMAIN mailbox : j \in Nat /\ j + 0 = j
    BY DEF Message
  <2>2. QED
    BY <1>1, <2>1
<1>2. CASE Shifted
  <2>1. \A j \in DOMAIN mailbox' : /\ j \in Nat /\ j + 1 \in DOMAIN mailbox
                                   /\ mailbox'[j] = mailbox[j + 1]
    BY <1>2, ShiftFacts
  <2>2. QED
    BY <2>1
<1>3. CASE Tell(m)
  <2>1. /\ Len(mailbox) \in Nat /\ DOMAIN mailbox = 1 .. Len(mailbox)
        /\ DOMAIN mailbox' = 1 .. Len(mailbox) + 1
        /\ \A i \in DOMAIN mailbox : mailbox'[i] = mailbox[i]
        /\ mailbox'[Len(mailbox) + 1] = m
    BY <1>3, TellFacts
  <2>2. ASSUME NEW j \in DOMAIN mailbox'
        PROVE  \/ j \in Nat /\ j + 0 \in DOMAIN mailbox /\ mailbox'[j] = mailbox[j + 0]
               \/ mailbox'[j] = m /\ Tell(m) /\ j \notin DOMAIN mailbox
    <3>1. CASE j \in DOMAIN mailbox
      <4>1. j \in Nat /\ j + 0 = j
        BY <2>1, <3>1
      <4>2. QED
        BY <2>1, <3>1, <4>1
    <3>2. CASE j \notin DOMAIN mailbox
      <4>1. j = Len(mailbox) + 1
        BY <2>1, <3>2
      <4>2. QED
        BY <1>3, <2>1, <3>2, <4>1
    <3>3. QED
      BY <3>1, <3>2
  <2>3. QED
    BY <2>2
<1>4. QED
  BY <1>1, <1>2, <1>3

\* No report on v is sent: those that wait are those that waited.
LEMMA ReportsAfter ==
  ASSUME mailbox \in Seq(Message), NEW v,
         \/ mailbox' = mailbox \/ Shifted
         \/ \E m \in Message : Tell(m) /\ ~Report(m, v)
  PROVE  /\ OneReport(v) => OneReport(v)'
         /\ OwnedByReport(v)' => OwnedByReport(v)
         /\ HeldByReport(v)' => HeldByReport(v)
<1>1. PICK m \in Message : ~Report(m, v) /\ (mailbox' = mailbox \/ Shifted \/ Tell(m))
  <2>1. /\ [kind |-> "ProcessPendingDownloads"] \in Message
        /\ ~Report([kind |-> "ProcessPendingDownloads"], v)
    BY DEF Message, Report
  <2>2. QED
    BY <2>1
<1>2. PICK d \in {0, 1} : \A j \in DOMAIN mailbox' :
            \/ j \in Nat /\ j + d \in DOMAIN mailbox /\ mailbox'[j] = mailbox[j + d]
            \/ mailbox'[j] = m /\ Tell(m) /\ j \notin DOMAIN mailbox
  BY <1>1, EarlierMail
<1>3. \A j \in DOMAIN mailbox' : Reported(j, v)' =>
         j \in Nat /\ j + d \in DOMAIN mailbox /\ mailbox'[j] = mailbox[j + d] /\ Reported(j + d, v)
  BY <1>1, <1>2 DEF Reported, Report
<1>4. OwnedByReport(v)' => OwnedByReport(v)
  BY <1>3 DEF OwnedByReport
<1>5. HeldByReport(v)' => HeldByReport(v)
  BY <1>3 DEF HeldByReport
<1>6. ASSUME OneReport(v), NEW i \in DOMAIN mailbox', NEW j \in DOMAIN mailbox',
             Reported(i, v)', Reported(j, v)'
      PROVE  i = j
  <2>1. i \in Nat /\ j \in Nat /\ i + d = j + d
    BY <1>3, <1>6 DEF OneReport
  <2>2. QED
    BY <2>1
<1>7. QED
  BY <1>4, <1>5, <1>6 DEF OneReport

\* The report that is handled was the only one.
LEMMA ReportHandled ==
  ASSUME Shifted, NEW v, OneReport(v), Reported(1, v)
  PROVE  ~OwnedByReport(v)'
<1>1. /\ Len(mailbox) \in Nat /\ Len(mailbox) > 0 /\ DOMAIN mailbox = 1 .. Len(mailbox)
      /\ DOMAIN mailbox' = 1 .. Len(mailbox) - 1
      /\ \A i \in DOMAIN mailbox' : mailbox'[i] = mailbox[i + 1]
  BY ShiftFacts
<1>2. ASSUME NEW i \in DOMAIN mailbox', Reported(i, v)' PROVE FALSE
  <2>1. i + 1 \in DOMAIN mailbox /\ 1 \in DOMAIN mailbox /\ i + 1 # 1
    BY <1>1
  <2>2. Reported(i + 1, v)
    BY <1>1, <1>2 DEF Reported
  <2>3. QED
    BY <2>1, <2>2 DEF OneReport
<1>3. QED
  BY <1>2 DEF OwnedByReport

\* A report that is sent is the only one if there was none.
LEMMA ReportSent ==
  ASSUME mailbox \in Seq(Message), NEW m \in Message, Tell(m), NEW v
  PROVE  /\ OwnedByReport(v)' =>
              OwnedByReport(v) \/ Report(m, v)
         /\ HeldByReport(v)' =>
              HeldByReport(v) \/ (Report(m, v) /\ m.outcome = "deferred")
         /\ ~OwnedByReport(v) => OneReport(v)'
<1>1. /\ Len(mailbox) \in Nat /\ DOMAIN mailbox = 1 .. Len(mailbox)
      /\ DOMAIN mailbox' = 1 .. Len(mailbox) + 1
      /\ \A i \in DOMAIN mailbox : mailbox'[i] = mailbox[i]
      /\ mailbox'[Len(mailbox) + 1] = m
  BY TellFacts
<1>2. ASSUME NEW j \in DOMAIN mailbox', Reported(j, v)'
      PROVE  \/ j \in DOMAIN mailbox /\ Reported(j, v) /\ mailbox'[j] = mailbox[j]
             \/ j = Len(mailbox) + 1 /\ mailbox'[j] = m
  BY <1>1, <1>2 DEF Reported
<1>3. OwnedByReport(v)' => OwnedByReport(v) \/ Report(m, v)
  BY <1>2 DEF OwnedByReport, Reported, Report
<1>4. HeldByReport(v)' => HeldByReport(v) \/ (Report(m, v) /\ m.outcome = "deferred")
  BY <1>2 DEF HeldByReport, Reported, Report
<1>5. ~OwnedByReport(v) => OneReport(v)'
  BY <1>2 DEF OwnedByReport, OneReport
<1>6. QED
  BY <1>3, <1>4, <1>5

LEMMA RequestsAfter ==
  ASSUME mailbox \in Seq(Message), NEW v, Queued("EnqueueDownload", v)',
         \/ mailbox' = mailbox \/ Shifted
         \/ \E m \in Message : Tell(m) /\ ~(m.kind = "EnqueueDownload" /\ m.video = v)
  PROVE  Queued("EnqueueDownload", v)
<1>1. PICK m \in Message : /\ ~(m.kind = "EnqueueDownload" /\ m.video = v)
                           /\ mailbox' = mailbox \/ Shifted \/ Tell(m)
  <2>1. [kind |-> "ProcessPendingDownloads"] \in Message
    BY DEF Message
  <2>2. QED
    BY <2>1
<1>2. PICK d \in {0, 1} : \A j \in DOMAIN mailbox' :
            \/ j \in Nat /\ j + d \in DOMAIN mailbox /\ mailbox'[j] = mailbox[j + d]
            \/ mailbox'[j] = m /\ Tell(m) /\ j \notin DOMAIN mailbox
  BY <1>1, EarlierMail
<1>3. QED
  BY <1>1, <1>2 DEF Queued

LEMMA OrderlyKept ==
  ASSUME NEW v, Orderly(v), Once(v)', Outstanding(v)' => Outstanding(v),
         Outstanding(v) =>
           /\ Outstanding(v)' => ~Waiting(v)'
           /\ \A t \in Tasks : BeforeClaim(t)' /\ task'[t].video = v =>
                                  BeforeClaim(t) /\ task[t].video = v
           /\ \A s \in sweep' : s.video = v => v \in dispatching'
  PROVE  Orderly(v)'
BY DEF Orderly

LEMMA GateKept ==
  ASSUME TypeInv, NEW v \in Videos, GateHolds(v), row' \in [Videos -> Row],
         Found(v)' => /\ Found(v) /\ row'[v].skip_quality_gate = row[v].skip_quality_gate
                      /\ HeldBack(v) \/ row'[v].attempts >= row[v].attempts,
         HeldBack(v)' => HeldBack(v), Asked(v)' => Asked(v),
         Found(v)' /\ ~Asked(v) /\ Orderly(v) => Orderly(v)'
  PROVE  GateHolds(v)'
<1>1. row[v].attempts \in Nat /\ row'[v].attempts \in Nat /\ MaxInteger \in Nat
  BY ConstantsAssumption DEF TypeInv, TypeOK, Row
<1>2. CASE ~Found(v)'
  BY <1>2 DEF GateHolds
<1>3. CASE Found(v)' /\ row[v].skip_quality_gate
  BY <1>3 DEF GateHolds
<1>4. CASE Found(v)' /\ ~row[v].skip_quality_gate
  <2>1. ~Asked(v) /\ (Stuck(v) \/ Orderly(v)) /\ ~row'[v].skip_quality_gate
    BY <1>4 DEF GateHolds
  <2>2. Stuck(v) => Stuck(v)'
    BY <1>1, <1>4 DEF Stuck
  <2>3. QED
    BY <1>4, <2>1, <2>2 DEF GateHolds
<1>5. QED
  BY <1>2, <1>3, <1>4

\* The tasks and the reports on v are the same.
LEMMA SameWork ==
  ASSUME NEW v, mailbox \in Seq(Message),
         \/ mailbox' = mailbox \/ Shifted
         \/ \E m \in Message : Tell(m) /\ ~Report(m, v),
         \A t \in Tasks : Owns(t, v)' => Owns(t, v) /\ (Holding(t)' => Holding(t))
  PROVE  /\ Once(v) => Once(v)'
         /\ Outstanding(v)' => Outstanding(v)
         /\ HeldBack(v)' => HeldBack(v)
BY ReportsAfter DEF Once, Outstanding, OwnedByTask, HeldBack

LEMMA SkipAfter ==
  ASSUME NEW r \in Row
  PROVE  /\ \A s : /\ UpdateVideoStatus(r, s).skip_quality_gate = r.skip_quality_gate
                   /\ UpdateVideoStatus(r, s).attempts = r.attempts
         /\ (\A o : MarkVideoFailed(r, o).skip_quality_gate = r.skip_quality_gate)
         /\ DeferVideoForQuality(r).skip_quality_gate = r.skip_quality_gate
         /\ MarkVideoCompleted(r).skip_quality_gate = r.skip_quality_gate
         /\ MarkVideoDownloading(r).skip_quality_gate = r.skip_quality_gate
         /\ ReleaseFromQualityGate(r).skip_quality_gate = TRUE
         /\ ResetStuckDownload(r).skip_quality_gate = r.skip_quality_gate
         /\ ResetStuckDownload(r).attempts = r.attempts
         /\ ResetStuckDownload(r).status = "absent" => r.status = "absent"
         /\ [r EXCEPT !.next_retry = "due"].skip_quality_gate = r.skip_quality_gate
BY DEF Row, UpdateVideoStatus, MarkVideoFailed, DeferVideoForQuality, MarkVideoCompleted,
       MarkVideoDownloading, ReleaseFromQualityGate, ResetStuckDownload

\* A step that adds no work, no request and no dispatch, and does not make the
\* row wait.
LEMMA GateIdle ==
  ASSUME TypeInv, NEW v \in Videos, GateHolds(v), row' \in [Videos -> Row],
         Found(v)' => /\ Found(v) /\ row'[v].skip_quality_gate = row[v].skip_quality_gate
                      /\ row'[v].attempts = row[v].attempts /\ (Waiting(v)' => Waiting(v)),
         \/ mailbox' = mailbox \/ Shifted
         \/ \E m \in Message : Tell(m) /\ ~Report(m, v),
         \A t \in Tasks : Owns(t, v)' => Owns(t, v) /\ (Holding(t)' => Holding(t)),
         \A t \in Tasks : BeforeClaim(t)' /\ task'[t].video = v =>
                              BeforeClaim(t) /\ task[t].video = v,
         Asked(v)' => Asked(v), sweep' \subseteq sweep, dispatching \subseteq dispatching'
  PROVE  GateHolds(v)'
<1>1. mailbox \in Seq(Message) /\ row[v].attempts \in Nat
  BY DEF TypeInv, TypeOK, Row
<1>2. /\ (Once(v) => Once(v)') /\ (Outstanding(v)' => Outstanding(v))
      /\ (HeldBack(v)' => HeldBack(v))
  BY <1>1, SameWork
<1>3. ASSUME Found(v)', Orderly(v) PROVE Orderly(v)'
  <2>1. Once(v)' /\ (Waiting(v)' => Waiting(v))
    BY <1>2, <1>3 DEF Orderly
  <2>2. Outstanding(v) => ~Waiting(v)' /\ \A s \in sweep' : s.video = v => v \in dispatching'
    BY <1>3, <2>1 DEF Orderly
  <2>3. QED
    BY <1>2, <1>3, <2>1, <2>2, OrderlyKept
<1>4. Found(v)' => /\ Found(v) /\ row'[v].skip_quality_gate = row[v].skip_quality_gate
                   /\ HeldBack(v) \/ row'[v].attempts >= row[v].attempts
  BY <1>1
<1>5. QED
  BY <1>2, <1>3, <1>4, GateKept

\* A dispatch reaches only a video of which nothing is outstanding.
LEMMA GateDispatch ==
  ASSUME Ordered, NEW v \in Videos, NEW w \in Videos, NEW snapshot,
         DispatchDownload(w, snapshot), row' = row, sweep' \subseteq sweep, client' = client,
         mailbox' = mailbox \/ Shifted,
         w = v => Asked(v) \/ \E s \in sweep : s.video = v
  PROVE  GateHolds(v)'
<1>1. /\ TypeInv /\ row \in [Videos -> Row] /\ task \in [Tasks -> Task]
      /\ mailbox \in Seq(Message) /\ GateHolds(v) /\ row[v].attempts \in Nat
  BY DEF Ordered, GatesHold, DedupInv, TypeInv, TypeOK, Row
<1> DEFINE parked == [UnusedTask EXCEPT !.pc = "parked", !.video = w, !.semaphore = incarnation]
<1>2. \/ task' = task /\ dispatching' = dispatching
      \/ /\ w \notin dispatching /\ dispatching' = dispatching \cup {w}
         /\ \E t \in Tasks : task[t].pc = "unused" /\ task' = [task EXCEPT ![t] = parked]
  BY DEF DispatchDownload, Reservable
<1>3. parked.pc = "parked" /\ parked.video = w
  BY DEF UnusedTask
<1> HIDE DEF parked
<1>4. \A t \in Tasks : \/ task'[t] = task[t]
                      \/ /\ w \notin dispatching
                         /\ task'[t].pc = "parked" /\ task'[t].video = w
  BY <1>1, <1>2, <1>3
<1>5. \A t \in Tasks : Owns(t, v)' => Owns(t, v) /\ (Holding(t)' => Holding(t))
  BY <1>4 DEF Owns, Holding
<1>6. /\ (Once(v) => Once(v)') /\ (Outstanding(v)' => Outstanding(v))
      /\ (HeldBack(v)' => HeldBack(v))
  BY <1>1, <1>5, SameWork
<1>7. Asked(v)' => Asked(v)
  BY <1>1, RequestsAfter DEF Asked
<1>8. ASSUME Orderly(v), ~Asked(v) PROVE Orderly(v)'
  <2>1. Once(v)' /\ (Outstanding(v)' => Outstanding(v))
    BY <1>6, <1>8 DEF Orderly
  <2>2. ASSUME Outstanding(v)
        PROVE  \A t \in Tasks : BeforeClaim(t)' /\ task'[t].video = v =>
                                    BeforeClaim(t) /\ task[t].video = v
    <3>1. w = v => v \in dispatching
      BY <1>8, <2>2 DEF Orderly
    <3>2. QED
      BY <1>4, <3>1 DEF BeforeClaim
  <2>3. dispatching \subseteq dispatching'
    BY <1>2
  <2>4. Outstanding(v) => ~Waiting(v)' /\ \A s \in sweep' : s.video = v => v \in dispatching'
    BY <1>8, <2>3 DEF Orderly, Waiting
  <2>5. QED
    BY <1>8, <2>1, <2>2, <2>4, OrderlyKept
<1>9. QED
  BY <1>1, <1>6, <1>7, <1>8, GateKept DEF Found

LEMMA GateSupervisor ==
  ASSUME Ordered, ~Spend("faults"), SupervisorStep, NEW v \in Videos, row' \in [Videos -> Row]
  PROVE  GateHolds(v)'
<1> USE DEF configVars, supervisorVars
<1>1. /\ TypeInv /\ row \in [Videos -> Row] /\ row[v] \in Row /\ row[v].attempts \in Nat
      /\ task \in [Tasks -> Task] /\ mailbox \in Seq(Message) /\ GateHolds(v)
      /\ NobodyCancels
  BY DEF Ordered, GatesHold, DedupInv, TypeInv, TypeOK, Row
<1>2. ASSUME NEW kind, Receive(kind)
      PROVE  /\ Shifted /\ sweep = {} /\ Head(mailbox) \in Message
             /\ Head(mailbox).kind = kind /\ Head(mailbox) = mailbox[1] /\ 1 \in DOMAIN mailbox
  BY <1>1, <1>2, ReceiveFacts DEF Receive, Idle, Shifted
<1>3. client' = client
  BY DEF SupervisorStep, EnqueueDownload, RegisterWorker, DownloadCompleted, ReportOutcome,
         JudgeFailure, RecordFailure, ProcessPendingDownloads, SweepVideo, ApplySemaphoreTarget,
         CancelDownload, GetSupervisorStatus
<1>4. (mailbox' = mailbox \/ Shifted) => (Asked(v)' => Asked(v))
  BY <1>1, <1>3, RequestsAfter DEF Asked
<1>5. CASE EnqueueDownload
  <2> DEFINE w == Head(mailbox).video
  <2>1. /\ Shifted /\ w \in Videos /\ sweep' \subseteq sweep /\ row' = row
        /\ DispatchDownload(w, Head(mailbox).snapshot)
    BY <1>2, <1>5, MessageFields DEF EnqueueDownload
  <2>2. w = v => Asked(v)
    BY <1>2, <1>5 DEF EnqueueDownload, Asked, Queued
  <2>3. QED
    BY <1>3, <2>1, <2>2, GateDispatch
<1>6. CASE SweepVideo
  <2>1. PICK s \in sweep : SweepVideo!(s)
    BY <1>6 DEF SweepVideo
  <2>2. /\ s.video \in Videos /\ mailbox' = mailbox /\ row' = row /\ sweep' \subseteq sweep
        /\ DispatchDownload(s.video, s.snapshot) \/ UNCHANGED <<task, dispatching>>
    BY <1>1, <2>1 DEF TypeInv, TypeOK
  <2>3. CASE DispatchDownload(s.video, s.snapshot)
    BY <1>3, <2>2, <2>3, GateDispatch
  <2>4. CASE UNCHANGED <<task, dispatching>>
    <3>1. \A t \in Tasks : Owns(t, v)' => Owns(t, v) /\ (Holding(t)' => Holding(t))
      BY <2>4 DEF Owns, Holding
    <3>2. /\ (Once(v) => Once(v)') /\ (Outstanding(v)' => Outstanding(v))
          /\ (HeldBack(v)' => HeldBack(v))
      BY <1>1, <2>2, <3>1, SameWork
    <3>3. Orderly(v) => Orderly(v)'
      BY <2>2, <2>4, <3>2, OrderlyKept DEF Orderly, Waiting, BeforeClaim
    <3>4. QED
      BY <1>1, <1>4, <2>2, <3>2, <3>3, GateKept DEF Found
  <2>5. QED
    BY <2>2, <2>3, <2>4
<1>7. CASE RegisterWorker \/ DownloadCompleted \/ ApplySemaphoreTarget \/ GetSupervisorStatus
  <2>1. Shifted /\ sweep' = {}
    BY <1>2, <1>7 DEF RegisterWorker, DownloadCompleted, ApplySemaphoreTarget, GetSupervisorStatus
  <2>2. task' = task /\ row' = row
    BY <1>7 DEF RegisterWorker, DownloadCompleted, ApplySemaphoreTarget, GetSupervisorStatus
  <2>3. \A t \in Tasks : Owns(t, v)' => Owns(t, v) /\ (Holding(t)' => Holding(t))
    BY <2>2 DEF Owns, Holding
  <2>4. /\ (Once(v) => Once(v)') /\ (Outstanding(v)' => Outstanding(v))
        /\ (HeldBack(v)' => HeldBack(v))
    BY <1>1, <2>1, <2>3, SameWork
  <2>5. Orderly(v) => Orderly(v)'
    BY <2>1, <2>2, <2>4, OrderlyKept DEF Orderly, Waiting, BeforeClaim
  <2>6. QED
    BY <1>1, <1>4, <2>1, <2>2, <2>4, <2>5, GateKept DEF Found
<1>8. CASE ProcessPendingDownloads
  <2>1. Shifted /\ sweep = {}
    BY <1>2, <1>8 DEF ProcessPendingDownloads
  <2>2. task' = task /\ row' = row
    BY <1>8 DEF ProcessPendingDownloads
  <2>3. \A s \in sweep' : s.video = v => Waiting(v)
    BY <1>8, <2>1 DEF ProcessPendingDownloads, ReadyForDownload, Waiting
  <2>4. \A t \in Tasks : Owns(t, v)' => Owns(t, v) /\ (Holding(t)' => Holding(t))
    BY <2>2 DEF Owns, Holding
  <2>5. /\ (Once(v) => Once(v)') /\ (Outstanding(v)' => Outstanding(v))
        /\ (HeldBack(v)' => HeldBack(v))
    BY <1>1, <2>1, <2>4, SameWork
  <2>6. Orderly(v) => Orderly(v)'
    BY <2>2, <2>3, <2>5, OrderlyKept DEF Orderly, Waiting, BeforeClaim
  <2>7. QED
    BY <1>1, <1>4, <2>1, <2>2, <2>5, <2>6, GateKept DEF Found
<1>9. CASE ReportOutcome
  <2> DEFINE w == Head(mailbox).video
             o == Head(mailbox).outcome
  <2>1. /\ Shifted /\ w \in Videos /\ o \in Outcome /\ sweep = {} /\ sweep' = {}
        /\ Head(mailbox) = mailbox[1] /\ 1 \in DOMAIN mailbox
        /\ Head(mailbox).kind = "ReportOutcome" /\ task' = task
    BY <1>2, <1>9, MessageFields DEF ReportOutcome
  <2>2. \A t \in Tasks : Owns(t, v)' => Owns(t, v) /\ (Holding(t)' => Holding(t))
    BY <2>1 DEF Owns, Holding
  <2>3. /\ (Once(v) => Once(v)') /\ (Outstanding(v)' => Outstanding(v))
        /\ (HeldBack(v)' => HeldBack(v))
    BY <1>1, <2>1, <2>2, SameWork
  <2>4. CASE row'[v] = row[v]
    <3>1. Orderly(v) => Orderly(v)'
      BY <2>1, <2>3, <2>4, OrderlyKept DEF Orderly, Waiting, BeforeClaim
    <3>2. QED
      BY <1>1, <1>4, <2>1, <2>3, <2>4, <3>1, GateKept DEF Found
  <2>5. CASE row'[v] # row[v]
    <3>1. /\ w = v /\ Found(v) /\ o = "deferred"
          /\ row'[v] = DeferVideoForQuality(row[v])
      BY <1>1, <1>9, <2>1, <2>5 DEF ReportOutcome
    <3>2. Reported(1, v) /\ HeldBack(v)
      BY <2>1, <3>1 DEF Reported, HeldBack, HeldByReport
    <3>3. row'[v].skip_quality_gate = row[v].skip_quality_gate
      BY <1>1, <3>1, SkipAfter
    <3>4. ASSUME Orderly(v) PROVE Orderly(v)'
      <4>1. OwnedByReport(v) /\ Once(v) /\ Once(v)'
        BY <2>1, <2>3, <3>2, <3>4 DEF Orderly, OwnedByReport
      <4>2. ~OwnedByReport(v)' /\ ~OwnedByTask(v)
        BY <2>1, <3>2, <4>1, ReportHandled DEF Once
      <4>3. ~Outstanding(v)'
        BY <2>2, <4>2 DEF Outstanding, OwnedByTask
      <4>4. QED
        BY <4>1, <4>3 DEF Orderly
    <3>5. Found(v)' => /\ Found(v) /\ row'[v].skip_quality_gate = row[v].skip_quality_gate
                       /\ HeldBack(v) \/ row'[v].attempts >= row[v].attempts
      BY <3>1, <3>2, <3>3
    <3>6. QED
      BY <1>1, <1>4, <2>1, <2>3, <3>4, <3>5, GateKept
  <2>6. QED
    BY <2>4, <2>5
<1>10. CASE JudgeFailure
  <2>1. /\ row' = row /\ mailbox' = mailbox /\ task' = task
        /\ sweep' = sweep /\ dispatching' = dispatching
    BY <1>10 DEF JudgeFailure
  <2>2. /\ \A t \in Tasks : Owns(t, v)' => Owns(t, v) /\ (Holding(t)' => Holding(t))
        /\ \A t \in Tasks : BeforeClaim(t)' /\ task'[t].video = v =>
                              BeforeClaim(t) /\ task[t].video = v
        /\ sweep' \subseteq sweep /\ dispatching \subseteq dispatching'
    BY <2>1 DEF Owns, Holding, BeforeClaim
  <2>3. Found(v)' => /\ Found(v) /\ row'[v].skip_quality_gate = row[v].skip_quality_gate
                     /\ row'[v].attempts = row[v].attempts /\ (Waiting(v)' => Waiting(v))
    BY <2>1 DEF Found, Waiting
  <2>4. QED
    BY <1>1, <1>4, <2>1, <2>2, <2>3, GateIdle
<1>11. CASE RecordFailure
  <2> DEFINE w == Head(mailbox).video
  <2>1. /\ Shifted /\ w \in Videos /\ sweep = {} /\ sweep' = {}
        /\ Head(mailbox) = mailbox[1] /\ 1 \in DOMAIN mailbox
        /\ Head(mailbox).kind = "ReportOutcome" /\ Head(mailbox).outcome = "failed"
        /\ task' = task
    BY <1>1, <1>11, RecordFacts DEF RecordFailure
  <2>2. \A t \in Tasks : Owns(t, v)' => Owns(t, v) /\ (Holding(t)' => Holding(t))
    BY <2>1 DEF Owns, Holding
  <2>3. /\ (Once(v) => Once(v)') /\ (Outstanding(v)' => Outstanding(v))
        /\ (HeldBack(v)' => HeldBack(v))
    BY <1>1, <2>1, <2>2, SameWork
  <2>4. CASE row'[v] = row[v]
    <3>1. Orderly(v) => Orderly(v)'
      BY <2>1, <2>3, <2>4, OrderlyKept DEF Orderly, Waiting, BeforeClaim
    <3>2. QED
      BY <1>1, <1>4, <2>1, <2>3, <2>4, <3>1, GateKept DEF Found
  <2>5. CASE row'[v] # row[v]
    <3>1. w = v /\ Found(v) /\ row'[v] = MarkVideoFailed(row[v], verdict)
      <4>1. \/ row' = row
            \/ Found(w) /\ row' = [row EXCEPT ![w] = MarkVideoFailed(row[w], verdict)]
        BY <1>11 DEF RecordFailure
      <4>2. QED
        BY <1>1, <2>1, <2>5, <4>1
    <3>2. Reported(1, v)
      BY <2>1, <3>1 DEF Reported
    <3>3. row'[v].skip_quality_gate = row[v].skip_quality_gate
      <4>1. \A o : MarkVideoFailed(row[v], o).skip_quality_gate = row[v].skip_quality_gate
        BY <1>1, SkipAfter
      <4>2. QED
        BY <3>1, <4>1
    <3>4. row'[v].attempts = row[v].attempts
      <4>1. \A o : MarkVideoFailed(row[v], o).attempts = row[v].attempts
        BY <1>1, AttemptsAfter
      <4>2. QED
        BY <3>1, <4>1
    <3>5. ASSUME Orderly(v) PROVE Orderly(v)'
      <4>1. OwnedByReport(v) /\ Once(v) /\ Once(v)'
        BY <2>1, <2>3, <3>2, <3>5 DEF Orderly, OwnedByReport
      <4>2. ~OwnedByReport(v)' /\ ~OwnedByTask(v)
        BY <2>1, <3>2, <4>1, ReportHandled DEF Once
      <4>3. ~Outstanding(v)'
        BY <2>2, <4>2 DEF Outstanding, OwnedByTask
      <4>4. QED
        BY <4>1, <4>3 DEF Orderly
    <3>6. Found(v)' => /\ Found(v) /\ row'[v].skip_quality_gate = row[v].skip_quality_gate
                       /\ HeldBack(v) \/ row'[v].attempts >= row[v].attempts
      BY <1>1, <3>1, <3>3, <3>4
    <3>7. QED
      BY <1>1, <1>4, <2>1, <2>3, <3>5, <3>6, GateKept
  <2>6. QED
    BY <2>4, <2>5
<1>12. ~CancelDownload
  BY <1>1, <1>2 DEF CancelDownload, NobodyCancels
<1>13. QED
  BY <1>5, <1>6, <1>7, <1>8, <1>9, <1>10, <1>11, <1>12 DEF SupervisorStep

\* A claim whose gate holds is one of a video that was not released, and
\* nothing else of that video is outstanding.
LEMMA GateClaim ==
  ASSUME Ordered, ~Spend("faults"), NEW t \in Tasks, ClaimVideo(t), NEW v \in Videos,
         row' \in [Videos -> Row]
  PROVE  GateHolds(v)'
<1> USE DEF configVars, supervisorVars
<1>1. /\ TypeInv /\ row \in [Videos -> Row] /\ row[v] \in Row /\ row[v].attempts \in Nat
      /\ task \in [Tasks -> Task] /\ mailbox \in Seq(Message) /\ GateHolds(v)
      /\ task[t].pc = "queued" /\ BeforeClaim(t) /\ task[t].video \in Videos
      /\ UniqueDispatch /\ LiveIsReserved /\ task[t].outcome = None
      /\ MaxInteger \in Nat
  BY ConstantsAssumption
  DEF ClaimVideo, BeforeClaim, Ordered, GatesHold, DedupInv, NoOutcomeYet, TypeInv, TypeOK,
      TaskInUse, Row
<1>2. UNCHANGED <<mailbox, sweep, dispatching, client>>
  BY DEF ClaimVideo
<1>3. \A u \in Tasks \ {t} : task'[u] = task[u]
  BY <1>1 DEF ClaimVideo, Finish
<1>4. task'[t].video = task[t].video
  BY <1>1 DEF ClaimVideo, Finish, Task
<1>5. Asked(v)' => Asked(v)
  BY <1>2 DEF Asked, Queued
<1>6. ~Owns(t, v)
  BY <1>1 DEF Owns
<1>7. CASE task[t].video # v
  <2>1. row'[v] = row[v]
    BY <1>1, <1>7 DEF ClaimVideo
  <2>2. \A u \in Tasks : Owns(u, v)' => Owns(u, v) /\ (Holding(u)' => Holding(u))
    BY <1>3, <1>4, <1>7 DEF Owns, Holding
  <2>3. /\ (Once(v) => Once(v)') /\ (Outstanding(v)' => Outstanding(v))
        /\ (HeldBack(v)' => HeldBack(v))
    BY <1>1, <1>2, <2>2, SameWork
  <2>4. \A u \in Tasks : BeforeClaim(u)' /\ task'[u].video = v =>
                              BeforeClaim(u) /\ task[u].video = v
    BY <1>3, <1>4, <1>7 DEF BeforeClaim
  <2>5. Orderly(v) => Orderly(v)'
    BY <1>2, <2>1, <2>3, <2>4, OrderlyKept DEF Orderly, Waiting
  <2>6. QED
    BY <1>1, <1>5, <2>1, <2>3, <2>5, GateKept DEF Found
<1>8. CASE task[t].video = v /\ ~(Found(v) /\ row[v].attempts < MaxInteger)
  <2>1. row' = row /\ Finish(t, "failed")
    BY <1>8 DEF ClaimVideo
  <2>2. ~Holding(t)'
    BY <1>1, <2>1 DEF Finish, Holding, Task
  <2>3. HeldBack(v)' => HeldBack(v)
    BY <1>2, <1>3, <2>2 DEF HeldBack, HeldByReport, Reported, Owns, Holding
  <2>4. CASE ~Found(v)
    BY <2>1, <2>4 DEF GateHolds, Found
  <2>5. CASE Found(v) /\ row[v].skip_quality_gate
    BY <1>1, <2>1, <2>3, <2>5 DEF GateHolds
  <2>6. CASE Found(v) /\ ~row[v].skip_quality_gate
    <3>1. ~HeldBack(v)
      <4>1. Orderly(v) => ~Outstanding(v)
        BY <1>1, <1>8 DEF Orderly
      <4>2. Stuck(v) \/ Orderly(v)
        BY <1>1, <2>6 DEF GateHolds
      <4>3. QED
        BY <4>1, <4>2 DEF Stuck, HeldBack, HeldByReport, Outstanding, OwnedByTask, OwnedByReport
    <3>2. row[v].attempts >= MaxInteger
      BY <1>1, <1>8, <2>6
    <3>3. QED
      BY <1>1, <1>5, <2>1, <2>3, <2>6, <3>1, <3>2 DEF GateHolds, Stuck
  <2>7. QED
    BY <2>4, <2>5, <2>6
<1>9. CASE task[t].video = v /\ Found(v) /\ row[v].attempts < MaxInteger
  <2>1. PICK gated \in BOOLEAN :
          /\ row' = [row EXCEPT ![v] = MarkVideoDownloading(@)]
          /\ task' = [task EXCEPT ![t].pc = "downloading", ![t].gated = gated]
          /\ QualityGate(v, gated)
    BY <1>9 DEF ClaimVideo
  <2>2. /\ row'[v].status = "downloading" /\ row'[v].attempts = row[v].attempts + 1
        /\ row'[v].skip_quality_gate = row[v].skip_quality_gate
    <3>1. row'[v] = MarkVideoDownloading(row[v])
      BY <1>1, <2>1
    <3>2. MarkVideoDownloading(row[v]).status = "downloading"
      BY <1>1, StatusAfter
    <3>3. MarkVideoDownloading(row[v]).attempts = row[v].attempts + 1
      BY <1>1, AttemptsAfter
    <3>4. MarkVideoDownloading(row[v]).skip_quality_gate = row[v].skip_quality_gate
      BY <1>1, SkipAfter
    <3>5. QED
      BY <3>1, <3>2, <3>3, <3>4
  <2>3. task'[t].pc = "downloading" /\ task'[t].gated = gated
    BY <1>1, <2>1 DEF Task
  <2>4. CASE row[v].skip_quality_gate
    <3>1. ~Holding(t)'
      BY <2>1, <2>3, <2>4 DEF QualityGate, Holding
    <3>2. HeldBack(v)' => HeldBack(v)
      BY <1>2, <1>3, <3>1 DEF HeldBack, HeldByReport, Reported, Owns, Holding
    <3>3. ~HeldBack(v)
      BY <1>1, <1>9, <2>4 DEF GateHolds
    <3>4. QED
      BY <2>2, <2>4, <3>2, <3>3 DEF GateHolds
  <2>5. CASE ~row[v].skip_quality_gate
    <3>1. Orderly(v) /\ ~Asked(v)
      BY <1>1, <1>9, <2>5 DEF GateHolds, Stuck
    <3>2. Once(v) /\ ~Outstanding(v)
      BY <1>1, <1>9, <3>1 DEF Orderly
    <3>3. \A u \in Tasks : Owns(u, v)' => u = t
      BY <1>3, <3>2 DEF Outstanding, OwnedByTask, Owns
    <3>4. ~OwnedByReport(v)'
      BY <1>2, <3>2 DEF Outstanding, OwnedByReport, Reported
    <3>5. Once(v)'
      BY <3>3, <3>4 DEF Once, OneReport, OwnedByReport
    <3>6. ASSUME NEW u \in Tasks, BeforeClaim(u)' PROVE task'[u].video # v
      <4>1. u # t /\ task'[u] = task[u]
        BY <1>3, <2>3, <3>6 DEF BeforeClaim
      <4>2. Live(t) /\ Live(u)
        BY <1>1, <3>6, <4>1 DEF BeforeClaim, Live
      <4>3. QED
        BY <1>1, <1>9, <4>1, <4>2 DEF UniqueDispatch
    <3>7. v \in dispatching'
      BY <1>1, <1>2, <1>9 DEF LiveIsReserved, Live
    <3>8. Orderly(v)'
      BY <2>2, <3>5, <3>6, <3>7 DEF Orderly, Waiting
    <3>9. QED
      BY <1>5, <2>2, <2>5, <3>1, <3>8 DEF GateHolds
  <2>6. QED
    BY <2>4, <2>5
<1>10. QED
  BY <1>7, <1>8, <1>9

\* But for the claim nothing of a task is new: its answer becomes that of its report.
LEMMA GateTask ==
  ASSUME Ordered, ~Spend("faults"), NEW t \in Tasks, Acquire(t) \/ TaskStep(t),
         NEW v \in Videos, row' \in [Videos -> Row]
  PROVE  GateHolds(v)'
<1> USE DEF configVars, supervisorVars
<1>1. /\ TypeInv /\ row \in [Videos -> Row] /\ row[v] \in Row
      /\ task \in [Tasks -> Task] /\ mailbox \in Seq(Message) /\ GateHolds(v)
      /\ task[t].pc # "unused" => task[t].video \in Videos
      /\ task[t].pc = "reporting" => task[t].outcome \in Outcome
      /\ BeforeClaim(t) => task[t].outcome = None
  BY DEF Ordered, GatesHold, DedupInv, NoOutcomeYet, TypeInv, TypeOK, TaskInUse
<1>2. UNCHANGED <<sweep, dispatching, client>>
  BY DEF Acquire, TaskStep, TellRegisterWorker, AskStartDownload, ClaimVideo, EndDownload,
         ReleasePermit, TellDownloadCompleted, TellReportOutcome
<1>3. \A u \in Tasks \ {t} : task'[u] = task[u]
  BY <1>1
  DEF Acquire, TaskStep, TellRegisterWorker, AskStartDownload, ClaimVideo, EndDownload,
      ReleasePermit, TellDownloadCompleted, TellReportOutcome, Move, Finish
<1>4. BeforeClaim(t)' => BeforeClaim(t) /\ task'[t].video = task[t].video
  BY <1>1
  DEF Acquire, TaskStep, TellRegisterWorker, AskStartDownload, ClaimVideo, EndDownload,
      ReleasePermit, TellDownloadCompleted, TellReportOutcome, Move, Finish, BeforeClaim,
      UnusedTask, Task
<1>5. \A u \in Tasks : BeforeClaim(u)' /\ task'[u].video = v => BeforeClaim(u) /\ task[u].video = v
  BY <1>3, <1>4 DEF BeforeClaim
<1>6. ASSUME Owns(t, v)' => Owns(t, v) /\ (Holding(t)' => Holding(t))
      PROVE  \A u \in Tasks : Owns(u, v)' => Owns(u, v) /\ (Holding(u)' => Holding(u))
  BY <1>3, <1>6 DEF Owns, Holding
<1>7. /\ sweep' \subseteq sweep /\ dispatching \subseteq dispatching'
      /\ row' = row => (Found(v)' =>
           /\ Found(v) /\ row'[v].skip_quality_gate = row[v].skip_quality_gate
           /\ row'[v].attempts = row[v].attempts /\ (Waiting(v)' => Waiting(v)))
  BY <1>2 DEF Found, Waiting
<1>8. ASSUME \/ mailbox' = mailbox
             \/ \E m \in Message : Tell(m) /\ m.kind # "EnqueueDownload"
      PROVE  Asked(v)' => Asked(v)
  BY <1>1, <1>2, <1>8, RequestsAfter DEF Asked
<1>9. CASE Acquire(t) \/ AskStartDownload(t)
  <2>1. row' = row /\ mailbox' = mailbox
    BY <1>9 DEF Acquire, AskStartDownload
  <2>2. ~Owns(t, v)'
    BY <1>1, <1>9, ConstantsAssumption
    DEF Acquire, AskStartDownload, Move, BeforeClaim, Owns, Task, Outcome
  <2>3. QED
    BY <1>1, <1>5, <1>6, <1>7, <1>8, <2>1, <2>2, GateIdle
<1>10. CASE TellRegisterWorker(t)
  <2> DEFINE m == [kind |-> "RegisterWorker", video |-> task[t].video, worker |-> t]
  <2>1. row' = row /\ m \in Message /\ m.kind = "RegisterWorker" /\ Tell(m)
    BY <1>1, <1>10 DEF TellRegisterWorker, Message
  <2>2. ~Owns(t, v)'
    BY <1>1, <1>10 DEF TellRegisterWorker, Move, Owns, Task
  <2> HIDE DEF m
  <2>3. \E n \in Message : Tell(n) /\ ~Report(n, v) /\ n.kind # "EnqueueDownload"
    BY <2>1 DEF Report
  <2>4. Asked(v)' => Asked(v)
    BY <1>8, <2>3
  <2>5. QED
    BY <1>1, <1>5, <1>6, <1>7, <2>1, <2>2, <2>3, <2>4, GateIdle
<1>11. CASE ClaimVideo(t)
  BY <1>11, GateClaim
<1>12. CASE EndDownload(t)
  <2>1. mailbox' = mailbox /\ task[t].pc = "downloading"
    BY <1>12 DEF EndDownload
  <2>2. Owns(t, v)' => Owns(t, v) /\ (Holding(t)' => Holding(t))
    BY <1>1, <1>12 DEF EndDownload, Finish, Owns, Holding, Task
  <2>3. Found(v)' => /\ Found(v) /\ row'[v].skip_quality_gate = row[v].skip_quality_gate
                     /\ row'[v].attempts = row[v].attempts /\ (Waiting(v)' => Waiting(v))
    <3>0. PICK w \in Videos : w = task[t].video
      BY <1>1, <2>1
    <3>1. row' = row \/ (row' = [row EXCEPT ![w] = MarkVideoCompleted(row[w])] /\ Found(w))
      BY <1>12, <3>0 DEF EndDownload
    <3>2. row'[v] = row[v] \/ (row'[v] = MarkVideoCompleted(row[v]) /\ Found(v))
      <4>1. CASE w = v
        BY <1>1, <3>1, <4>1
      <4>2. CASE w # v
        BY <1>1, <3>1, <4>2
      <4>3. QED
        BY <4>1, <4>2
    <3>3. CASE row'[v] = row[v]
      BY <3>3 DEF Found, Waiting
    <3>4. CASE row'[v] = MarkVideoCompleted(row[v]) /\ Found(v)
      <4>1. row'[v].skip_quality_gate = row[v].skip_quality_gate
        BY <1>1, <3>4, SkipAfter
      <4>2. row'[v].attempts = row[v].attempts
        BY <1>1, <3>4, AttemptsAfter
      <4>3. row'[v].status = "completed"
        BY <1>1, <3>4, StatusAfter
      <4>4. QED
        BY <3>4, <4>1, <4>2, <4>3 DEF Waiting
    <3>5. QED
      BY <3>2, <3>3, <3>4
  <2>4. QED
    BY <1>1, <1>5, <1>6, <1>7, <1>8, <2>1, <2>2, <2>3, GateIdle
<1>13. CASE ReleasePermit(t)
  <2>1. row' = row /\ mailbox' = mailbox
    BY <1>13 DEF ReleasePermit
  <2>2. Owns(t, v)' => Owns(t, v) /\ (Holding(t)' => Holding(t))
    BY <1>1, <1>13 DEF ReleasePermit, Move, Owns, Holding, Task
  <2>3. QED
    BY <1>1, <1>5, <1>6, <1>7, <1>8, <2>1, <2>2, GateIdle
<1>14. CASE TellDownloadCompleted(t)
  <2> DEFINE m == [kind |-> "DownloadCompleted", video |-> task[t].video]
  <2>1. row' = row /\ m \in Message /\ m.kind = "DownloadCompleted" /\ Tell(m)
    BY <1>1, <1>14 DEF TellDownloadCompleted, Message
  <2>2. Owns(t, v)' => Owns(t, v) /\ (Holding(t)' => Holding(t))
    BY <1>1, <1>14 DEF TellDownloadCompleted, Owns, Holding, Task, UnusedTask
  <2> HIDE DEF m
  <2>3. \E n \in Message : Tell(n) /\ ~Report(n, v) /\ n.kind # "EnqueueDownload"
    BY <2>1 DEF Report
  <2>4. Asked(v)' => Asked(v)
    BY <1>8, <2>3
  <2>5. QED
    BY <1>1, <1>5, <1>6, <1>7, <2>1, <2>2, <2>3, <2>4, GateIdle
<1>15. CASE TellReportOutcome(t)
  <2> DEFINE sent == [kind |-> "ReportOutcome", video |-> task[t].video,
                      outcome |-> task[t].outcome]
  <2>1. PICK m \in Message : /\ m.kind = "ReportOutcome" /\ m.video = task[t].video
                             /\ m.outcome = task[t].outcome /\ Tell(m)
    <3>1. sent \in Message /\ Tell(sent)
      BY <1>1, <1>15 DEF TellReportOutcome, Message
    <3>2. QED
      BY <3>1
  <2>2. row' = row /\ task[t].pc = "reporting" /\ ~Owns(t, v)'
    BY <1>1, <1>15 DEF TellReportOutcome, Owns, UnusedTask
  <2>3. Asked(v)' => Asked(v)
    BY <1>8, <2>1
  <2>4. CASE ~Owns(t, v)
    <3>1. ~Report(m, v)
      BY <1>1, <2>1, <2>2, <2>4 DEF Report, Owns, Outcome
    <3>2. QED
      BY <1>1, <1>5, <1>6, <1>7, <2>1, <2>2, <2>3, <3>1, GateIdle
  <2>5. CASE Owns(t, v)
    <3>1. \A u \in Tasks : Owns(u, v)' => u # t /\ Owns(u, v) /\ (Holding(u)' => Holding(u))
      BY <1>3, <2>2 DEF Owns, Holding
    <3>2. Outstanding(v)' => Outstanding(v)
      BY <2>5 DEF Outstanding, OwnedByTask
    <3>3. HeldBack(v)' => HeldBack(v)
      <4>1. HeldByReport(v)' => HeldByReport(v) \/ m.outcome = "deferred"
        BY <1>1, <2>1, ReportSent
      <4>2. m.outcome = "deferred" => HeldBack(v)
        BY <2>1, <2>2, <2>5 DEF HeldBack, Holding
      <4>3. QED
        BY <3>1, <4>1, <4>2 DEF HeldBack
    <3>4. ASSUME Orderly(v) PROVE Orderly(v)'
      <4>1. ~OwnedByReport(v) /\ \A u \in Tasks : Owns(u, v) => u = t
        BY <2>5, <3>4 DEF Orderly, Once, OwnedByTask
      <4>2. OneReport(v)'
        BY <1>1, <2>1, <4>1, ReportSent
      <4>3. Once(v)'
        BY <3>1, <4>1, <4>2 DEF Once, OwnedByTask
      <4>4. Outstanding(v) => /\ ~Waiting(v)'
                              /\ \A s \in sweep' : s.video = v => v \in dispatching'
        BY <1>2, <2>2, <3>4 DEF Orderly, Waiting
      <4>5. QED
        BY <1>5, <3>2, <3>4, <4>3, <4>4, OrderlyKept
    <3>5. Found(v)' => /\ Found(v) /\ row'[v].skip_quality_gate = row[v].skip_quality_gate
                       /\ HeldBack(v) \/ row'[v].attempts >= row[v].attempts
      <4>1. row[v].attempts \in Nat
        BY <1>1 DEF Row
      <4>2. QED
        BY <2>2, <4>1 DEF Found
    <3>6. QED
      BY <1>1, <2>3, <3>3, <3>4, <3>5, GateKept
  <2>6. QED
    BY <2>4, <2>5
<1>16. QED
  BY <1>9, <1>10, <1>11, <1>12, <1>13, <1>14, <1>15 DEF TaskStep

\* "Download now" releases a row of which nothing is outstanding; the other
\* operations neither dispatch nor release.
LEMMA GateClient ==
  ASSUME NobodyRetries, Ordered, NEW c \in Clients, ClientStep(c), NEW v \in Videos,
         row' \in [Videos -> Row]
  PROVE  GateHolds(v)'
<1> USE DEF clientUnchanged, configVars, supervisorVars
<1>1. /\ TypeInv /\ row \in [Videos -> Row] /\ row[v] \in Row /\ mailbox \in Seq(Message)
      /\ client \in [Clients -> Client] /\ GateHolds(v) /\ OnlyReleases
      /\ client[c].pc # "idle" => client[c].video \in Videos
      /\ client[c].pc = "enqueue" => client[c].snapshot \in Snapshot
  BY DEF Ordered, GatesHold, DedupInv, TypeInv, TypeOK, ClientInUse
<1>2. UNCHANGED <<task, sweep, dispatching>>
  BY DEF ClientStep, BeginOperation, ResetToPending, RereadVideo, ReleaseVideo,
         TellEnqueueDownload, AskCancelDownload, RemoveVideo, AbandonOperation
<1>3. \A d \in Clients \ {c} : client'[d] = client[d]
  <2>1. CASE BeginOperation(c)
    BY <1>1, <2>1 DEF BeginOperation
  <2>2. CASE ~BeginOperation(c)
    BY <1>1, <2>2
    DEF ClientStep, ResetToPending, RereadVideo, ReleaseVideo, TellEnqueueDownload,
        AskCancelDownload, RemoveVideo, AbandonOperation, Leave, Proceed
  <2>3. QED
    BY <2>1, <2>2
<1>4. ~ResetToPending(c) /\ ~RereadVideo(c) /\ ~AskCancelDownload(c)
  BY <1>1 DEF OnlyReleases, ResetToPending, RereadVideo, AskCancelDownload
<1>5. /\ \A t \in Tasks : Owns(t, v)' => Owns(t, v) /\ (Holding(t)' => Holding(t))
      /\ \A t \in Tasks : BeforeClaim(t)' /\ task'[t].video = v =>
                            BeforeClaim(t) /\ task[t].video = v
      /\ sweep' \subseteq sweep /\ dispatching \subseteq dispatching'
  BY <1>2 DEF Owns, Holding, BeforeClaim
<1>7. ASSUME mailbox' = mailbox, client'[c].pc = "enqueue" => client'[c].video # v
      PROVE  Asked(v)' => Asked(v)
  BY <1>1, <1>3, <1>7 DEF Asked, Queued
<1>8. ASSUME row'[v] = row[v]
      PROVE  Found(v)' => /\ Found(v) /\ row'[v].skip_quality_gate = row[v].skip_quality_gate
                          /\ row'[v].attempts = row[v].attempts /\ (Waiting(v)' => Waiting(v))
  BY <1>8 DEF Found, Waiting
<1>9. CASE BeginOperation(c)
  <2>1. PICK op \in Operations, w \in Videos :
          /\ client' = [client EXCEPT ![c] = [IdleClient EXCEPT !.pc = Second(op), !.op = op,
                                                                !.video = w]]
          /\ row' = [row EXCEPT ![w] = IF op = "discover" THEN UpsertVideo(@) ELSE @]
    BY <1>9 DEF BeginOperation
  <2>2. op \in {"download_now", "delete", "clean"}
    BY DEF NobodyRetries
  <2>3. Second(op) \in {"release", "delete", "clean"}
    BY <2>2 DEF Second
  <2>4. client'[c].pc = Second(op)
    BY <1>1, <2>1 DEF IdleClient
  <2>5. row'[v] = row[v] /\ mailbox' = mailbox
    BY <1>1, <1>9, <2>1, <2>2 DEF BeginOperation
  <2>6. Asked(v)' => Asked(v)
    BY <1>7, <2>3, <2>4, <2>5
  <2>7. QED
    BY <1>1, <1>5, <1>8, <2>5, <2>6, GateIdle
<1>10. CASE ReleaseVideo(c)
  <2> PICK w \in Videos : w = client[c].video
    BY <1>1, <1>10 DEF ReleaseVideo
  <2>1. /\ mailbox' = mailbox /\ row[w].status = "awaiting_quality"
        /\ row' = [row EXCEPT ![w] = ReleaseFromQualityGate(row[w])]
        /\ client'[c].pc = "enqueue" /\ client'[c].video = w
    BY <1>1, <1>10 DEF ReleaseVideo, Client
  <2>3. CASE w # v
    <3>1. row'[v] = row[v]
      BY <1>1, <2>1, <2>3
    <3>2. Asked(v)' => Asked(v)
      BY <1>7, <2>1, <2>3
    <3>3. QED
      BY <1>1, <1>5, <1>8, <2>1, <3>1, <3>2, GateIdle
  <2>4. CASE w = v
    <3>1. ~HeldBack(v)
      <4>1. Orderly(v) => ~Outstanding(v)
        BY <2>1, <2>4 DEF Orderly, Waiting
      <4>2. ~Outstanding(v) => ~HeldBack(v)
        BY DEF HeldBack, HeldByReport, Outstanding, OwnedByTask, OwnedByReport
      <4>3. QED
        BY <1>1, <2>1, <2>4, <4>1, <4>2 DEF GateHolds, Stuck, Found
    <3>2. ~HeldBack(v)'
      BY <1>1, <1>5, <2>1, <3>1, SameWork
    <3>3. row'[v].skip_quality_gate
      BY <1>1, <2>1, <2>4, SkipAfter
    <3>4. QED
      BY <3>2, <3>3 DEF GateHolds
  <2>5. QED
    BY <2>3, <2>4
<1>11. CASE TellEnqueueDownload(c)
  <2> DEFINE sent == [kind |-> "EnqueueDownload", video |-> client[c].video,
                      snapshot |-> client[c].snapshot]
  <2>1. PICK m \in Message : m.kind = "EnqueueDownload" /\ m.video = client[c].video /\ Tell(m)
    <3>1. sent \in Message /\ Tell(sent)
      BY <1>1, <1>11 DEF TellEnqueueDownload, Message
    <3>2. QED
      BY <3>1
  <2>2. row' = row /\ client[c].pc = "enqueue" /\ client'[c].pc = "idle"
    BY <1>1, <1>11 DEF TellEnqueueDownload, Leave, IdleClient
  <2>3. Asked(v)' => Asked(v)
    <3>1. CASE client[c].video = v
      BY <2>2, <3>1 DEF Asked
    <3>2. CASE client[c].video # v
      BY <1>1, <1>3, <2>1, <2>2, <3>2, RequestsAfter DEF Asked
    <3>3. QED
      BY <3>1, <3>2
  <2>4. ~Report(m, v)
    BY <2>1 DEF Report
  <2>5. QED
    BY <1>1, <1>5, <1>8, <2>1, <2>2, <2>3, <2>4, GateIdle
<1>12. CASE RemoveVideo(c)
  <2> PICK w \in Videos : w = client[c].video
    BY <1>1, <1>12 DEF RemoveVideo
  <2>1. /\ mailbox' = mailbox /\ client'[c].pc = "idle" /\ Found(w)
        /\ \/ row' = [row EXCEPT ![w] = Absent]
           \/ row' = [row EXCEPT ![w] = UpdateVideoStatus(row[w], "cleaned")]
    BY <1>1, <1>12 DEF RemoveVideo, Leave, IdleClient
  <2>2. Asked(v)' => Asked(v)
    BY <1>7, <2>1
  <2>3. Found(v)' => /\ Found(v) /\ row'[v].skip_quality_gate = row[v].skip_quality_gate
                     /\ row'[v].attempts = row[v].attempts /\ (Waiting(v)' => Waiting(v))
    <3>1. CASE row'[v] = row[v]
      BY <1>8, <3>1
    <3>2. CASE row'[v] = Absent
      BY <3>2 DEF Found, Absent
    <3>3. CASE row'[v] = UpdateVideoStatus(row[v], "cleaned") /\ Found(v)
      <4>1. row'[v].status = "cleaned"
        BY <1>1, <3>3, StatusAfter DEF VideoStatus
      <4>2. /\ row'[v].skip_quality_gate = row[v].skip_quality_gate
            /\ row'[v].attempts = row[v].attempts
        <5>1. \A s : /\ UpdateVideoStatus(row[v], s).skip_quality_gate = row[v].skip_quality_gate
                     /\ UpdateVideoStatus(row[v], s).attempts = row[v].attempts
          BY <1>1, SkipAfter
        <5>2. QED
          BY <3>3, <5>1
      <4>3. QED
        BY <3>3, <4>1, <4>2 DEF Waiting
    <3>4. QED
      BY <1>1, <2>1, <3>1, <3>2, <3>3
  <2>4. QED
    BY <1>1, <1>5, <2>1, <2>2, <2>3, GateIdle
<1>13. CASE AbandonOperation(c)
  <2>1. row' = row /\ mailbox' = mailbox /\ client'[c].pc = "idle"
    BY <1>1, <1>13 DEF AbandonOperation, Leave, IdleClient
  <2>2. Asked(v)' => Asked(v)
    BY <1>7, <2>1
  <2>3. QED
    BY <1>1, <1>5, <1>8, <2>1, <2>2, GateIdle
<1>14. QED
  BY <1>4, <1>9, <1>10, <1>11, <1>12, <1>13 DEF ClientStep

\* A client that only releases or removes never resets, rereads or cancels.
LEMMA OnlyReleasesKept ==
  ASSUME NobodyRetries, TypeInv, OnlyReleases, NEW c \in Clients, ClientStep(c)
  PROVE  OnlyReleases'
<1>1. client \in [Clients -> Client]
  BY DEF TypeInv, TypeOK
<1>2. CASE BeginOperation(c)
  <2>1. PICK op \in Operations, w \in Videos :
          client' = [client EXCEPT ![c] = [IdleClient EXCEPT !.pc = Second(op), !.op = op,
                                                              !.video = w]]
    BY <1>2 DEF BeginOperation
  <2>2. op \in {"download_now", "delete", "clean"}
    BY DEF NobodyRetries
  <2>3. Second(op) \in {"release", "delete", "clean"}
    BY <2>2 DEF Second
  <2>4. client'[c].pc = Second(op) /\ \A d \in Clients \ {c} : client'[d] = client[d]
    BY <1>1, <2>1 DEF IdleClient
  <2>5. QED
    BY <2>3, <2>4 DEF OnlyReleases
<1>3. CASE ~BeginOperation(c)
  <2>1. client'[c].pc \in {"idle", "enqueue"} /\ \A d \in Clients \ {c} : client'[d] = client[d]
    BY <1>1, <1>3
    DEF ClientStep, OnlyReleases, ResetToPending, RereadVideo, ReleaseVideo,
        TellEnqueueDownload, AskCancelDownload, RemoveVideo, AbandonOperation, Leave,
        IdleClient, Client
  <2>2. QED
    BY <2>1 DEF OnlyReleases
<1>4. QED
  BY <1>2, <1>3

\* A process that boots has nothing outstanding.
Booted ==
  /\ DOMAIN mailbox = {1} /\ mailbox[1].kind = "ProcessPendingDownloads"
  /\ \A t \in Tasks : task[t] = UnusedTask
  /\ \A c \in Clients : client[c] = IdleClient

LEMMA GateBoots == Booted => GatesHold
<1> SUFFICES ASSUME Booted, NEW v \in Videos PROVE GateHolds(v)
  BY DEF Booted, GatesHold, OnlyReleases, IdleClient
<1>1. ~OwnedByReport(v) /\ ~HeldByReport(v) /\ ~Queued("EnqueueDownload", v) /\ OneReport(v)
  BY DEF Booted, OwnedByReport, HeldByReport, Reported, Queued, OneReport
<1>2. ~OwnedByTask(v) /\ \A t \in Tasks : ~Owns(t, v)
  BY DEF Booted, OwnedByTask, Owns, UnusedTask
<1>3. ~Asked(v) /\ ~HeldBack(v) /\ ~Outstanding(v)
  BY <1>1, <1>2 DEF Booted, Asked, HeldBack, Outstanding, IdleClient
<1>4. Orderly(v)
  BY <1>1, <1>2, <1>3 DEF Orderly, Once
<1>5. QED
  BY <1>3, <1>4 DEF GateHolds

LEMMA GateEnvironment ==
  ASSUME NobodyRetries, Ordered, Environment, row' \in [Videos -> Row]
  PROVE  GatesHold'
<1> USE DEF configVars, supervisorVars
<1>1. /\ TypeInv /\ row \in [Videos -> Row] /\ mailbox \in Seq(Message)
      /\ target \in Targets /\ (\A v \in Videos : GateHolds(v)) /\ OnlyReleases
  BY DEF Ordered, GatesHold, DedupInv, TypeInv, TypeOK
<1>2. ~RestartSupervisor
  <2>1. incarnation \in Nat /\ incarnation >= 1 /\ budget["restarts"] \in Nat
        /\ incarnation + budget["restarts"] = 1
    BY <1>1 DEF NobodyRetries, Undisturbed, TypeInv, TypeOK, Incarnation, BudgetKeys
  <2>2. ~(budget["restarts"] > 0)
    BY <2>1
  <2>3. QED
    BY <2>2 DEF RestartSupervisor, Spend
<1>3. CASE CrashAndBoot
  <2>1. Booted'
    BY <1>3 DEF CrashAndBoot, Booted
  <2>2. QED
    BY <2>1, GateBoots, PTL
<1>4. CASE ~CrashAndBoot
  <2>1. UNCHANGED <<task, sweep, dispatching, client>>
    BY <1>2, <1>4
    DEF Environment, SchedulerTick, DbBackoffElapses, SetTarget, WatchTarget, TogglePause,
        BeginDrain, ProbeQuiescence, RetryBecomesDue
  <2>2. \/ mailbox' = mailbox
        \/ \E m \in Message : Tell(m) /\ m.kind \notin {"EnqueueDownload", "ReportOutcome"}
    <3>1. /\ [kind |-> "ApplySemaphoreTarget", target |-> target] \in Message
          /\ [kind |-> "ProcessPendingDownloads"] \in Message
          /\ [kind |-> "GetSupervisorStatus"] \in Message
      BY <1>1 DEF Message
    <3>2. QED
      BY <1>2, <1>4, <3>1
      DEF Environment, SchedulerTick, DbBackoffElapses, SetTarget, WatchTarget, TogglePause,
          BeginDrain, ProbeQuiescence, RetryBecomesDue
  <2>3. ASSUME NEW v \in Videos PROVE GateHolds(v)'
    <3>1. Found(v)' => /\ Found(v) /\ row'[v].skip_quality_gate = row[v].skip_quality_gate
                       /\ row'[v].attempts = row[v].attempts /\ (Waiting(v)' => Waiting(v))
      <4>1. row'[v] = row[v] \/ row'[v] = [row[v] EXCEPT !.next_retry = "due"]
        BY <1>1, <1>2, <1>4
        DEF Environment, SchedulerTick, DbBackoffElapses, SetTarget, WatchTarget, TogglePause,
            BeginDrain, ProbeQuiescence, RetryBecomesDue
      <4>2. CASE row'[v] = row[v]
        BY <4>2 DEF Found, Waiting
      <4>3. CASE row'[v] = [row[v] EXCEPT !.next_retry = "due"]
        BY <1>1, <4>3 DEF Found, Waiting, Row
      <4>4. QED
        BY <4>1, <4>2, <4>3
    <3>2. Asked(v)' => Asked(v)
      BY <1>1, <2>1, <2>2, RequestsAfter DEF Asked
    <3>3. /\ \A t \in Tasks : Owns(t, v)' => Owns(t, v) /\ (Holding(t)' => Holding(t))
          /\ \A t \in Tasks : BeforeClaim(t)' /\ task'[t].video = v =>
                                BeforeClaim(t) /\ task[t].video = v
          /\ sweep' \subseteq sweep /\ dispatching \subseteq dispatching'
      BY <2>1 DEF Owns, Holding, BeforeClaim
    <3>4. mailbox' = mailbox \/ \E m \in Message : Tell(m) /\ ~Report(m, v)
      BY <2>2 DEF Report
    <3>5. QED
      BY <1>1, <3>1, <3>2, <3>3, <3>4, GateIdle
  <2>4. QED
    BY <1>1, <2>1, <2>3 DEF GatesHold, OnlyReleases
<1>5. QED
  BY <1>3, <1>4

\* The outcome of a task is set when its download ends, and not before.
LEMMA NoOutcomeYetNext ==
  ASSUME TypeInv, NoOutcomeYet, Next
  PROVE  NoOutcomeYet'
<1>1. task \in [Tasks -> Task]
  BY DEF TypeInv, TypeOK
<1>2. SUFFICES ASSUME NEW t \in Tasks, BeforeClaim(t)'
               PROVE  \/ task'[t].outcome = None
                      \/ BeforeClaim(t) /\ task'[t].outcome = task[t].outcome
  BY DEF NoOutcomeYet
<1>3. ASSUME NEW w, NEW snapshot, DispatchDownload(w, snapshot)
      PROVE  task'[t] = task[t] \/ task'[t].outcome = None
  BY <1>1, <1>3 DEF DispatchDownload, UnusedTask
<1>4. ASSUME NEW workers, StopWorkers(workers)
      PROVE  BeforeClaim(t) /\ task'[t].outcome = task[t].outcome
  BY <1>1, <1>2, <1>4 DEF StopWorkers, BeforeClaim, Task
<1>5. CASE task'[t] = task[t]
  BY <1>2, <1>5 DEF BeforeClaim
<1>6. CASE SupervisorStep
  <2>1. CASE EnqueueDownload
    BY <1>3, <1>5, <2>1 DEF EnqueueDownload
  <2>2. CASE SweepVideo
    BY <1>3, <1>5, <2>2 DEF SweepVideo
  <2>3. CASE CancelDownload
    BY <1>4, <2>3 DEF CancelDownload
  <2>4. CASE ~EnqueueDownload /\ ~SweepVideo /\ ~CancelDownload
    BY <1>5, <1>6, <2>4
    DEF SupervisorStep, RegisterWorker, DownloadCompleted, ReportOutcome, JudgeFailure,
        RecordFailure, ProcessPendingDownloads, ApplySemaphoreTarget, GetSupervisorStatus
  <2>5. QED
    BY <2>1, <2>2, <2>3, <2>4
<1>7. ASSUME NEW u \in Tasks, Acquire(u) \/ TaskStep(u)
      PROVE  task'[t] = task[t] \/ (BeforeClaim(t) /\ task'[t].outcome = task[t].outcome)
  BY <1>1, <1>2, <1>7
  DEF Acquire, TaskStep, TellRegisterWorker, AskStartDownload, ClaimVideo, EndDownload,
      ReleasePermit, TellDownloadCompleted, TellReportOutcome, Move, Finish, BeforeClaim,
      UnusedTask, Task
<1>8. ASSUME NEW c \in Clients, ClientStep(c) PROVE task'[t] = task[t]
  BY <1>8
  DEF ClientStep, BeginOperation, ResetToPending, RereadVideo, ReleaseVideo,
      TellEnqueueDownload, AskCancelDownload, RemoveVideo, AbandonOperation, clientUnchanged
<1>9. CASE Environment
  <2>1. CASE RestartSupervisor
    BY <1>4, <2>1 DEF RestartSupervisor
  <2>2. CASE CrashAndBoot
    BY <2>2 DEF CrashAndBoot, UnusedTask
  <2>3. CASE ~RestartSupervisor /\ ~CrashAndBoot
    BY <1>5, <1>9, <2>3
    DEF Environment, SchedulerTick, DbBackoffElapses, SetTarget, WatchTarget, TogglePause,
        BeginDrain, ProbeQuiescence, RetryBecomesDue
  <2>4. QED
    BY <2>1, <2>2, <2>3
<1>10. QED
  BY <1>5, <1>6, <1>7, <1>8, <1>9 DEF Next

LEMMA GateInvInit == Init => GateInv
<1> SUFFICES ASSUME Init PROVE GateInv
  OBVIOUS
<1>1. Booted
  BY DEF Init, Booted
<1>2. GatesHold
  BY <1>1, GateBoots
<1>3. NoOutcomeYet
  BY <1>1 DEF Booted, NoOutcomeYet, BeforeClaim, UnusedTask
<1>4. budget["faults"] = Budget["faults"] /\ Budget["faults"] \in Nat
  BY ConstantsAssumption DEF Init, BudgetKeys
<1>5. QED
  BY <1>2, <1>3, <1>4, DedupInvInit DEF GateInv, Ordered

LEMMA OrderedNext ==
  ASSUME NobodyRetries, Ordered, [Next]_vars, ~Spend("faults"), DedupInv'
  PROVE  Ordered'
<1>1. TypeInv /\ row' \in [Videos -> Row]
  BY DEF Ordered, DedupInv, TypeInv, TypeOK
<1>2. CASE UNCHANGED vars
  <2>1. NoOutcomeYet' /\ OnlyReleases'
    BY <1>2
    DEF vars, configVars, supervisorVars, Ordered, GatesHold, NoOutcomeYet, OnlyReleases,
        BeforeClaim
  <2>2. ASSUME NEW v \in Videos PROVE GateHolds(v)'
    BY <1>2, <2>2
    DEF vars, configVars, supervisorVars, Ordered, GatesHold, GateHolds, Found, Waiting, HeldBack,
        HeldByReport, Asked, Queued, Stuck, Orderly, Once, OneReport, Outstanding,
        OwnedByTask, OwnedByReport, Owns, Holding, Reported, BeforeClaim
  <2>3. QED
    BY <2>1, <2>2 DEF Ordered, GatesHold
<1>3. CASE Next
  <2>1. NoOutcomeYet'
    BY <1>1, <1>3, NoOutcomeYetNext DEF Ordered
  <2>2. CASE SupervisorStep
    <3>1. client' = client
      BY <2>2
      DEF SupervisorStep, EnqueueDownload, RegisterWorker, DownloadCompleted, ReportOutcome,
          JudgeFailure, RecordFailure, ProcessPendingDownloads, SweepVideo, ApplySemaphoreTarget,
          CancelDownload, GetSupervisorStatus
    <3>2. \A v \in Videos : GateHolds(v)'
      BY <1>1, <2>2, GateSupervisor
    <3>3. QED
      BY <2>1, <3>1, <3>2 DEF Ordered, GatesHold, OnlyReleases
  <2>3. CASE \E t \in Tasks : Acquire(t) \/ TaskStep(t)
    <3>1. client' = client
      BY <2>3
      DEF Acquire, TaskStep, TellRegisterWorker, AskStartDownload, ClaimVideo, EndDownload,
          ReleasePermit, TellDownloadCompleted, TellReportOutcome
    <3>2. \A v \in Videos : GateHolds(v)'
      BY <1>1, <2>3, GateTask
    <3>3. QED
      BY <2>1, <3>1, <3>2 DEF Ordered, GatesHold, OnlyReleases
  <2>4. CASE \E c \in Clients : ClientStep(c)
    <3>1. \A v \in Videos : GateHolds(v)'
      BY <1>1, <2>4, GateClient
    <3>2. OnlyReleases'
      BY <1>1, <2>4, OnlyReleasesKept DEF Ordered, GatesHold
    <3>3. QED
      BY <2>1, <3>1, <3>2 DEF Ordered, GatesHold
  <2>5. CASE Environment
    BY <1>1, <2>1, <2>5, GateEnvironment DEF Ordered
  <2>6. QED
    BY <1>3, <2>2, <2>3, <2>4, <2>5 DEF Next
<1>4. QED
  BY <1>2, <1>3

LEMMA GateInvNext == NobodyRetries /\ GateInv /\ [Next]_vars => GateInv'
<1> SUFFICES ASSUME NobodyRetries, GateInv, [Next]_vars PROVE GateInv'
  OBVIOUS
<1>1. DedupInv' /\ TypeInv
  BY DedupInvNext DEF NobodyRetries, GateInv, DedupInv
<1>2. /\ budget'["faults"] <= Budget["faults"]
      /\ ~Faulty' => ~Faulty /\ ~Spend("faults")
  BY <1>1, FaultyStays DEF GateInv
<1>3. ASSUME ~Faulty' PROVE Ordered'
  BY <1>1, <1>2, <1>3, OrderedNext DEF GateInv
<1>4. QED
  BY <1>1, <1>2, <1>3 DEF GateInv

\* A video that "Download now" released is never held by the quality gate
\* again, whatever sweeps, deferrals, deletions and crashes come in between, as
\* long as nothing but "Download now" asks for downloads.
THEOREM ReleasedStaysReleased == OnlyReleased => (Spec => ReleasedIsNotDeferred)
<1> SUFFICES ASSUME OnlyReleased PROVE Spec => ReleasedIsNotDeferred
  OBVIOUS
<1>1. GateInv /\ [Next]_vars => GateInv'
  BY GateInvNext DEF OnlyReleased
<1>2. ASSUME GateInv, [Next]_vars
      PROVE  [\A v \in Videos :
                FirstInstance /\ row[v].skip_quality_gate /\ row[v].status # "awaiting_quality"
                  => row'[v].status # "awaiting_quality"]_vars
  <2> SUFFICES ASSUME Next, NEW v \in Videos, row[v].skip_quality_gate,
                      row[v].status # "awaiting_quality", row'[v].status = "awaiting_quality"
               PROVE  FALSE
    BY <1>2
  <2>0. TypeInv /\ Ordered
    <3>1. TypeInv /\ budget["faults"] \in Nat
      BY <1>2 DEF GateInv, DedupInv, TypeInv, TypeOK, BudgetKeys
    <3>2. ~Faulty
      BY <3>1 DEF Faulty, OnlyReleased, Faultless
    <3>3. QED
      BY <1>2, <3>1, <3>2 DEF GateInv
  <2>1. /\ row \in [Videos -> Row] /\ row[v] \in Row /\ GateHolds(v) /\ OnlyReleases
        /\ \A i \in DOMAIN mailbox : mailbox[i].kind # "CancelDownload"
        /\ mailbox \in Seq(Message) /\ TypeInv
    BY <2>0 DEF Ordered, GatesHold, DedupInv, NobodyCancels, TypeInv, TypeOK
  <2>2. ASSUME NEW t \in Tasks, Acquire(t) \/ TaskStep(t) PROVE FALSE
    <3>1. row'[v] \in {row[v], MarkVideoDownloading(row[v]), MarkVideoCompleted(row[v])}
      BY <2>1, <2>2
      DEF Acquire, TaskStep, TellRegisterWorker, AskStartDownload, ClaimVideo, EndDownload,
          ReleasePermit, TellDownloadCompleted, TellReportOutcome
    <3>2. QED
      BY <2>1, <3>1, StatusAfter
  <2>3. CASE SupervisorStep
    <3>1. CASE ReportOutcome
      <4>1. /\ Head(mailbox) \in Message /\ Head(mailbox).kind = "ReportOutcome"
            /\ Head(mailbox) = mailbox[1] /\ 1 \in DOMAIN mailbox
        BY <2>1, <3>1, ReceiveFacts DEF ReportOutcome
      <4>2. PICK w \in Videos, o \in Outcome : w = Head(mailbox).video /\ o = Head(mailbox).outcome
        BY <4>1, MessageFields
      <4>3. \/ row' = row
            \/ /\ row' = [row EXCEPT ![w] = DeferVideoForQuality(row[w])]
               /\ o = "deferred" /\ Found(w)
        BY <3>1, <4>2 DEF ReportOutcome
      <4>4. w = v /\ o = "deferred" /\ Found(v)
        BY <2>1, <4>3
      <4>5. HeldBack(v)
        BY <4>1, <4>2, <4>4 DEF HeldBack, HeldByReport, Reported
      <4>6. QED
        BY <2>1, <4>4, <4>5 DEF GateHolds
    <3>2. CASE CancelDownload
      <4>1. Head(mailbox).kind = "CancelDownload" /\ Head(mailbox) = mailbox[1]
            /\ 1 \in DOMAIN mailbox
        BY <2>1, <3>2, ReceiveFacts DEF CancelDownload
      <4>2. QED
        BY <2>1, <4>1
    <3>3. CASE RecordFailure
      <4>1. PICK w \in Videos : w = Head(mailbox).video
        BY <2>1, <3>3, RecordFacts
      <4>2. row' = row \/ row' = [row EXCEPT ![w] = MarkVideoFailed(row[w], verdict)]
        BY <3>3, <4>1 DEF RecordFailure
      <4>3. row'[v] \in {row[v], MarkVideoFailed(row[v], verdict)}
        BY <2>1, <4>2
      <4>4. MarkVideoFailed(row[v], verdict).status # "awaiting_quality"
        BY <2>1, StatusAfter
      <4>5. QED
        BY <4>3, <4>4
    <3>4. CASE ~ReportOutcome /\ ~CancelDownload /\ ~RecordFailure
      BY <2>3, <3>4
      DEF SupervisorStep, EnqueueDownload, RegisterWorker, DownloadCompleted, JudgeFailure,
          ProcessPendingDownloads, SweepVideo, ApplySemaphoreTarget, GetSupervisorStatus
    <3>5. QED
      BY <3>1, <3>2, <3>3, <3>4
  <2>4. ASSUME NEW c \in Clients, ClientStep(c) PROVE FALSE
    <3>1. CASE BeginOperation(c)
      <4>1. PICK op \in Operations, w \in Videos :
              row' = [row EXCEPT ![w] = IF op = "discover" THEN UpsertVideo(@) ELSE @]
        BY <3>1 DEF BeginOperation
      <4>2. op # "discover"
        BY DEF OnlyReleased, NobodyRetries
      <4>3. QED
        BY <2>1, <4>1, <4>2
    <3>2. CASE ReleaseVideo(c)
      BY <2>1, <3>2, StatusAfter DEF ReleaseVideo
    <3>3. CASE RemoveVideo(c)
      <4>1. row'[v] \in {row[v], Absent, UpdateVideoStatus(row[v], "cleaned")}
        BY <2>1, <3>3 DEF RemoveVideo
      <4>2. Absent.status # "awaiting_quality" /\ "cleaned" \in VideoStatus
        BY DEF Absent, VideoStatus
      <4>3. UpdateVideoStatus(row[v], "cleaned").status = "cleaned"
        BY <2>1, <4>2, StatusAfter
      <4>4. QED
        BY <4>1, <4>2, <4>3
    <3>4. ~ResetToPending(c)
      BY <2>1 DEF OnlyReleases, ResetToPending
    <3>5. QED
      BY <2>4, <3>1, <3>2, <3>3, <3>4
      DEF ClientStep, RereadVideo, TellEnqueueDownload, AskCancelDownload, AbandonOperation
  <2>5. CASE Environment
    <3>1. CASE CrashAndBoot
      <4>1. row'[v] = ResetStuckDownload(row[v])
        BY <3>1 DEF CrashAndBoot
      <4>2. QED
        BY <2>1, <4>1 DEF ResetStuckDownload, Row
    <3>2. CASE \E w \in Videos : RetryBecomesDue(w)
      BY <2>1, <3>2, StatusAfter DEF RetryBecomesDue
    <3>3. CASE ~CrashAndBoot /\ ~\E w \in Videos : RetryBecomesDue(w)
      BY <2>5, <3>3
      DEF Environment, SchedulerTick, DbBackoffElapses, SetTarget, WatchTarget, TogglePause,
          BeginDrain, ProbeQuiescence, RestartSupervisor
    <3>4. QED
      BY <3>1, <3>2, <3>3
  <2>6. QED
    BY <2>2, <2>3, <2>4, <2>5 DEF Next
<1>3. QED
  BY GateInvInit, <1>1, <1>2, PTL DEF Spec, ReleasedIsNotDeferred

(***************************************************************************)
(* How often a video is claimed, and what becomes of a completed one, when *)
(* the pipeline is left to itself.  It dispatches a video only from the    *)
(* list of a sweep, and between that list and the claim nobody but the     *)
(* video's own task moves its row to where it must not be claimed any      *)
(* more: that rests on DedupInv, for a second task of the video would.     *)
(* The report of a failure is the other half.  It is judged on attempts    *)
(* that the next dispatch may have advanced by the time it is written.     *)
(* Without faults GateInv excludes that: as long as a report is            *)
(* outstanding nothing is dispatched.  After a fault it costs one more     *)
(* claim at most, since the supervisor dispatches nothing while it judges. *)
(***************************************************************************)

\* Nobody asks for a download and the supervisor is not restarted.
Unattended == Operations \subseteq {"delete", "clean"} /\ Budget["restarts"] = 0

\* A crash puts a claimed row back to `pending` and keeps its attempts.
Counted == Budget["crashes"] = 0 /\ MaxAttempts > 0

Limit == MaxAttempts + (IF Faulty THEN 1 ELSE 0)

RetriesLeft(v) == Counted => row[v].attempts < Limit

Claimable(v) == row[v].status # "completed" /\ RetriesLeft(v)

CountHolds(v) ==
  /\ Waiting(v) => RetriesLeft(v)
  /\ Counted => row[v].attempts <= Limit

NobodyAsks ==
  /\ \A c \in Clients : client[c].pc \in {"idle", "delete", "clean"}
  /\ \A i \in DOMAIN mailbox : mailbox[i].kind # "EnqueueDownload"

RowsCount == \A v \in Videos : CountHolds(v)

DispatchesCount == \A t \in Tasks : BeforeClaim(t) => Claimable(task[t].video)

ListedCount == \A s \in sweep : s.video \in dispatching \/ Claimable(s.video)

Counts == RowsCount /\ DispatchesCount /\ ListedCount

CrashesCount == Counted => budget["crashes"] = 0

\* The decision to retry was right when it was taken, and at most the one task
\* that was dispatched before has claimed the video since.
VerdictFor(v) ==
  Counted =>
    \/ row[v].attempts < MaxAttempts
    \/ /\ Faulty /\ row[v].attempts <= MaxAttempts
       /\ \A t \in Tasks : BeforeClaim(t) => task[t].video # v

VerdictHolds == verdict = "retry" => VerdictFor(Head(mailbox).video)

NoneReleased == \A v \in Videos : ~row[v].skip_quality_gate

Working(t, v) == task[t].pc = "downloading" /\ task[t].video = v

\* Who works on a video is the only one to answer for it, and a completed
\* video has no failure that could still be written.
Settled(v) ==
  /\ \A t \in Tasks : Working(t, v) =>
       ~OwnedByReport(v) /\ \A u \in Tasks : Owns(u, v) => u = t
  /\ Outstanding(v) => row[v].status # "completed"

AllSettled == ~Faulty => \A v \in Videos : Settled(v)

AttemptInv ==
  GateInv /\ NobodyAsks /\ Counts /\ CrashesCount /\ VerdictHolds /\ NoneReleased /\ AllSettled

LEMMA AttemptFacts ==
  ASSUME AttemptInv
  PROVE  /\ TypeInv /\ row \in [Videos -> Row] /\ task \in [Tasks -> Task]
         /\ mailbox \in Seq(Message) /\ client \in [Clients -> Client]
         /\ budget["faults"] <= Budget["faults"]
         /\ NobodyAsks /\ NobodyCancels /\ UniqueDispatch /\ LiveIsReserved
         /\ RowsCount /\ DispatchesCount /\ ListedCount
         /\ \A v \in Videos : row[v] \in Row /\ row[v].attempts \in Nat
         /\ \A t \in Tasks : task[t].pc # "unused" => task[t].video \in Videos
         /\ \A s \in sweep : s.video \in Videos
BY DEF AttemptInv, GateInv, DedupInv, Counts, TypeInv, TypeOK, TaskInUse, Row

LEMMA UnattendedFacts ==
  ASSUME Unattended, AttemptInv, [Next]_vars
  PROVE  /\ GateInv' /\ CrashesCount'
         /\ ~CrashAndBoot \/ ~Counted
         /\ ~RestartSupervisor
         /\ Faulty => Faulty'
<1>1. TypeInv /\ budget["faults"] <= Budget["faults"]
  BY AttemptFacts
<1>2. GateInv'
  BY GateInvNext DEF AttemptInv, Unattended, NobodyRetries, Undisturbed
<1>3. CrashesCount' /\ (~CrashAndBoot \/ ~Counted)
  BY <1>1, SpentIsSpent DEF AttemptInv, CrashesCount, BudgetKeys, CrashAndBoot
<1>4. ~RestartSupervisor
  <2>1. incarnation \in Nat /\ incarnation >= 1 /\ budget["restarts"] \in Nat
        /\ incarnation + budget["restarts"] = 1
    BY <1>1, ConstantsAssumption DEF Unattended, TypeInv, TypeOK, Incarnation, BudgetKeys
  <2>2. ~(budget["restarts"] > 0)
    BY <2>1
  <2>3. QED
    BY <2>2 DEF RestartSupervisor, Spend
<1>5. Faulty => Faulty'
  BY <1>1, FaultyStays
<1>6. QED
  BY <1>2, <1>3, <1>4, <1>5

\* The limit never falls.
LEMMA LimitGrows ==
  ASSUME Unattended, AttemptInv, [Next]_vars
  PROVE  /\ Limit \in Nat /\ Limit' \in Nat /\ Limit <= Limit'
         /\ MaxAttempts <= Limit /\ Limit <= MaxAttempts + 1
         /\ Faulty => Limit' = MaxAttempts + 1
BY UnattendedFacts, MaxAttemptsAssumption DEF Limit

\* What a client may still do: read a row, remove it or mark it cleaned.
LEMMA UnattendedClient ==
  ASSUME Unattended, AttemptInv, NEW c \in Clients, ClientStep(c)
  PROVE  /\ UNCHANGED <<mailbox, task, sweep, dispatching>>
         /\ \A d \in Clients : client'[d].pc \in {"idle", "delete", "clean"}
         /\ \A v \in Videos : \/ row'[v] = row[v]
                              \/ row'[v] = Absent
                              \/ row'[v] = UpdateVideoStatus(row[v], "cleaned")
<1> USE DEF clientUnchanged, configVars, supervisorVars
<1>1. /\ client \in [Clients -> Client] /\ row \in [Videos -> Row]
      /\ \A d \in Clients : client[d].pc \in {"idle", "delete", "clean"}
  BY AttemptFacts DEF NobodyAsks
<1>2. CASE BeginOperation(c)
  <2>1. PICK op \in Operations, w \in Videos :
          /\ client' = [client EXCEPT ![c] = [IdleClient EXCEPT !.pc = Second(op), !.op = op,
                                                                !.video = w]]
          /\ row' = [row EXCEPT ![w] = IF op = "discover" THEN UpsertVideo(@) ELSE @]
    BY <1>2 DEF BeginOperation
  <2>2. op \in {"delete", "clean"}
    BY DEF Unattended
  <2>3. Second(op) \in {"delete", "clean"}
    BY <2>2 DEF Second
  <2>4. client'[c].pc = Second(op) /\ \A d \in Clients \ {c} : client'[d] = client[d]
    BY <1>1, <2>1 DEF IdleClient
  <2>5. \A v \in Videos : row'[v] = row[v]
    BY <1>1, <2>1, <2>2
  <2>6. UNCHANGED <<mailbox, task, sweep, dispatching>>
    BY <1>2 DEF BeginOperation
  <2>7. \A d \in Clients : client'[d].pc \in {"idle", "delete", "clean"}
    BY <1>1, <2>3, <2>4
  <2>8. QED
    BY <2>5, <2>6, <2>7
<1>3. CASE RemoveVideo(c) \/ AbandonOperation(c)
  <2>1. /\ UNCHANGED <<mailbox, task, sweep, dispatching>>
        /\ \A d \in Clients : client'[d].pc \in {"idle", "delete", "clean"}
    BY <1>1, <1>3 DEF RemoveVideo, AbandonOperation, Leave, IdleClient
  <2>2. \A v \in Videos : \/ row'[v] = row[v]
                          \/ row'[v] = Absent
                          \/ row'[v] = UpdateVideoStatus(row[v], "cleaned")
    BY <1>1, <1>3 DEF RemoveVideo, AbandonOperation
  <2>3. QED
    BY <2>1, <2>2
<1>4. QED
  BY <1>1, <1>2, <1>3
  DEF ClientStep, ResetToPending, RereadVideo, ReleaseVideo, TellEnqueueDownload,
      AskCancelDownload

\* The supervisor takes the message it handles and sends none.
LEMMA SupervisorMail ==
  ASSUME TypeInv, SupervisorStep
  PROVE  mailbox' = mailbox \/ Shifted
<1> USE DEF configVars, supervisorVars
<1>1. mailbox \in Seq(Message)
  BY DEF TypeInv, TypeOK
<1>2. CASE RecordFailure
  BY <1>2, RecordFacts
<1>3. ASSUME NEW kind, Receive(kind) PROVE Shifted
  BY <1>1, <1>3 DEF Receive, Shifted
<1>4. CASE ~RecordFailure
  BY <1>3, <1>4
  DEF SupervisorStep, EnqueueDownload, RegisterWorker, DownloadCompleted, ReportOutcome,
      JudgeFailure, ProcessPendingDownloads, SweepVideo, ApplySemaphoreTarget,
      CancelDownload, GetSupervisorStatus
<1>5. QED
  BY <1>2, <1>4

\* Nobody enqueues: the messages that arrive are of other kinds.
LEMMA NobodyAsksNext ==
  ASSUME Unattended, AttemptInv, Next
  PROVE  NobodyAsks'
<1>1. /\ mailbox \in Seq(Message) /\ NobodyAsks
      /\ ~RestartSupervisor
  BY UnattendedFacts, AttemptFacts
<1>2. CASE CrashAndBoot
  <2>1. DOMAIN mailbox' = {1} /\ mailbox'[1].kind = "ProcessPendingDownloads"
        /\ \A c \in Clients : client'[c].pc = "idle"
    BY <1>2 DEF CrashAndBoot, IdleClient
  <2>2. QED
    BY <2>1 DEF NobodyAsks
<1>3. CASE \E c \in Clients : ClientStep(c)
  BY <1>1, <1>3, UnattendedClient DEF NobodyAsks
<1>4. CASE ~CrashAndBoot /\ ~\E c \in Clients : ClientStep(c)
  <2>1. client' = client
    <3>1. CASE SupervisorStep
      BY <3>1
      DEF SupervisorStep, EnqueueDownload, RegisterWorker, DownloadCompleted, ReportOutcome,
          JudgeFailure, RecordFailure, ProcessPendingDownloads, SweepVideo, ApplySemaphoreTarget,
          CancelDownload, GetSupervisorStatus
    <3>2. ASSUME NEW t \in Tasks, Acquire(t) \/ TaskStep(t) PROVE client' = client
      BY <3>2
      DEF Acquire, TaskStep, TellRegisterWorker, AskStartDownload, ClaimVideo, EndDownload,
          ReleasePermit, TellDownloadCompleted, TellReportOutcome
    <3>3. CASE Environment
      BY <1>1, <1>4, <3>3
      DEF Environment, SchedulerTick, DbBackoffElapses, SetTarget, WatchTarget, TogglePause,
          BeginDrain, ProbeQuiescence, RetryBecomesDue
    <3>4. QED
      BY <1>1, <1>4, <3>1, <3>2, <3>3 DEF Next
  <2>2. \/ mailbox' = mailbox \/ Shifted
        \/ \E m : Tell(m) /\ m.kind # "EnqueueDownload"
    <3>1. CASE SupervisorStep
      BY <3>1, AttemptFacts, SupervisorMail
    <3>2. ASSUME NEW t \in Tasks, Acquire(t) \/ TaskStep(t)
          PROVE  mailbox' = mailbox \/ \E m : Tell(m) /\ m.kind # "EnqueueDownload"
      BY <3>2
      DEF Acquire, TaskStep, TellRegisterWorker, AskStartDownload, ClaimVideo, EndDownload,
          ReleasePermit, TellDownloadCompleted, TellReportOutcome
    <3>3. CASE Environment
      BY <1>1, <1>4, <3>3
      DEF Environment, SchedulerTick, DbBackoffElapses, SetTarget, WatchTarget, TogglePause,
          BeginDrain, ProbeQuiescence, RetryBecomesDue
    <3>4. QED
      BY <1>1, <1>4, <3>1, <3>2, <3>3 DEF Next
  <2>3. \A i \in DOMAIN mailbox' : mailbox'[i].kind # "EnqueueDownload"
    <3>1. CASE Shifted
      <4>1. \A i \in DOMAIN mailbox' : i + 1 \in DOMAIN mailbox /\ mailbox'[i] = mailbox[i + 1]
        BY <3>1, ShiftFacts
      <4>2. QED
        BY <1>1, <4>1 DEF NobodyAsks
    <3>2. ASSUME NEW m, Tell(m), m.kind # "EnqueueDownload"
          PROVE  \A i \in DOMAIN mailbox' : mailbox'[i].kind # "EnqueueDownload"
      BY <1>1, <3>2 DEF Tell, NobodyAsks
    <3>3. QED
      BY <1>1, <2>2, <3>1, <3>2 DEF NobodyAsks
  <2>4. QED
    BY <1>1, <2>1, <2>3 DEF NobodyAsks
<1>5. QED
  BY <1>2, <1>3, <1>4

\* What a statement may do to a row while nobody asks.
LEMMA RowsAfter ==
  ASSUME Unattended, AttemptInv, Next, NEW v \in Videos
  PROVE  \/ row'[v] = row[v]
         \/ row'[v] = DeferVideoForQuality(row[v]) /\ Reported(1, v) /\ 1 \in DOMAIN mailbox
         \/ row'[v] = MarkVideoFailed(row[v], verdict) /\ Reported(1, v) /\ 1 \in DOMAIN mailbox
         \/ \E t \in Tasks : /\ ClaimVideo(t) /\ task[t].video = v
                             /\ Found(v) /\ row[v].attempts < MaxInteger
                             /\ row'[v] = MarkVideoDownloading(row[v])
                             /\ task'[t].pc = "downloading" /\ task'[t].video = v
         \/ \E t \in Tasks : /\ EndDownload(t) /\ task[t].video = v
                             /\ row'[v] = MarkVideoCompleted(row[v])
                             /\ task'[t].pc = "finished" /\ task'[t].outcome = "success"
         \/ row'[v] = Absent \/ row'[v] = UpdateVideoStatus(row[v], "cleaned")
         \/ row'[v] = [row[v] EXCEPT !.next_retry = "due"]
         \/ row'[v] = ResetStuckDownload(row[v]) /\ CrashAndBoot
<1>1. /\ row \in [Videos -> Row] /\ task \in [Tasks -> Task] /\ mailbox \in Seq(Message)
      /\ TypeInv /\ NobodyCancels /\ ~RestartSupervisor
  BY AttemptFacts, UnattendedFacts
<1>2. CASE ReportOutcome
  <2>1. /\ Head(mailbox) \in Message /\ Head(mailbox).kind = "ReportOutcome"
        /\ Head(mailbox) = mailbox[1] /\ 1 \in DOMAIN mailbox
    BY <1>1, <1>2, ReceiveFacts DEF ReportOutcome
  <2>2. PICK w \in Videos, o \in Outcome : w = Head(mailbox).video /\ o = Head(mailbox).outcome
    BY <2>1, MessageFields
  <2>3. \/ row' = row
        \/ row' = [row EXCEPT ![w] = DeferVideoForQuality(row[w])] /\ o = "deferred"
    BY <1>2, <2>2 DEF ReportOutcome
  <2>4. row'[v] = row[v] \/ (w = v /\ o = "deferred" /\ row'[v] = DeferVideoForQuality(row[v]))
    BY <1>1, <2>3
  <2>5. QED
    BY <2>1, <2>2, <2>4 DEF Reported
<1>3. CASE RecordFailure
  <2>1. /\ 1 \in DOMAIN mailbox /\ Head(mailbox) = mailbox[1] /\ Head(mailbox).video \in Videos
        /\ Head(mailbox).kind = "ReportOutcome" /\ Head(mailbox).outcome = "failed"
    BY <1>1, <1>3, RecordFacts
  <2>2. PICK w \in Videos : w = Head(mailbox).video
    BY <2>1
  <2>3. row' = row \/ row' = [row EXCEPT ![w] = MarkVideoFailed(row[w], verdict)]
    BY <1>3, <2>2 DEF RecordFailure
  <2>4. row'[v] = row[v] \/ (w = v /\ row'[v] = MarkVideoFailed(row[v], verdict))
    BY <1>1, <2>3
  <2>5. QED
    BY <2>1, <2>2, <2>4 DEF Reported
<1>4. CASE SupervisorStep /\ ~ReportOutcome /\ ~RecordFailure
  <2>1. ~CancelDownload
    <3>1. CancelDownload => Head(mailbox).kind = "CancelDownload" /\ Head(mailbox) = mailbox[1]
                            /\ 1 \in DOMAIN mailbox
      BY <1>1, ReceiveFacts DEF CancelDownload
    <3>2. QED
      BY <1>1, <3>1 DEF NobodyCancels
  <2>2. QED
    BY <1>4, <2>1
    DEF SupervisorStep, EnqueueDownload, RegisterWorker, DownloadCompleted, JudgeFailure,
        ProcessPendingDownloads, SweepVideo, ApplySemaphoreTarget, GetSupervisorStatus
<1>5. ASSUME NEW t \in Tasks, ClaimVideo(t), row'[v] # row[v]
      PROVE  /\ task[t].video = v /\ Found(v) /\ row[v].attempts < MaxInteger
             /\ row'[v] = MarkVideoDownloading(row[v])
             /\ task'[t].pc = "downloading" /\ task'[t].video = v
  BY <1>1, <1>5 DEF ClaimVideo, Task
<1>6. ASSUME NEW t \in Tasks, EndDownload(t), row'[v] # row[v]
      PROVE  /\ task[t].video = v /\ row'[v] = MarkVideoCompleted(row[v])
             /\ task'[t].pc = "finished" /\ task'[t].outcome = "success"
  BY <1>1, <1>6 DEF EndDownload, Finish, Task
<1>7. ASSUME NEW t \in Tasks, Acquire(t) \/ TaskStep(t), ~ClaimVideo(t), ~EndDownload(t)
      PROVE  row' = row
  BY <1>7
  DEF Acquire, TaskStep, TellRegisterWorker, AskStartDownload, ReleasePermit,
      TellDownloadCompleted, TellReportOutcome
<1>8. ASSUME NEW c \in Clients, ClientStep(c)
      PROVE  row'[v] \in {row[v], Absent, UpdateVideoStatus(row[v], "cleaned")}
  BY <1>8, UnattendedClient
<1>9. CASE Environment /\ ~CrashAndBoot
  <2>1. row'[v] = row[v] \/ row'[v] = [row[v] EXCEPT !.next_retry = "due"]
    BY <1>1, <1>9
    DEF Environment, SchedulerTick, DbBackoffElapses, SetTarget, WatchTarget, TogglePause,
        BeginDrain, ProbeQuiescence, RetryBecomesDue
  <2>2. QED
    BY <2>1
<1>10. CASE CrashAndBoot
  BY <1>10 DEF CrashAndBoot
<1>11. CASE row'[v] # row[v] /\ \E t \in Tasks : Acquire(t) \/ TaskStep(t)
  BY <1>5, <1>6, <1>7, <1>11 DEF TaskStep
<1>12. QED
  BY <1>2, <1>3, <1>4, <1>8, <1>9, <1>10, <1>11 DEF Next

LEMMA NoneReleasedNext ==
  ASSUME Unattended, AttemptInv, Next
  PROVE  NoneReleased'
<1> SUFFICES ASSUME NEW v \in Videos PROVE ~row'[v].skip_quality_gate
  BY DEF NoneReleased
<1>1. row[v] \in Row /\ ~row[v].skip_quality_gate
  BY AttemptFacts DEF AttemptInv, NoneReleased
<1>2. \/ row'[v] \in {row[v], DeferVideoForQuality(row[v]), MarkVideoFailed(row[v], verdict),
                      MarkVideoDownloading(row[v]), MarkVideoCompleted(row[v])}
      \/ row'[v] \in {Absent, UpdateVideoStatus(row[v], "cleaned"),
                      [row[v] EXCEPT !.next_retry = "due"], ResetStuckDownload(row[v])}
  BY RowsAfter
<1>3. CASE row'[v] \in {row[v], DeferVideoForQuality(row[v]), MarkVideoFailed(row[v], verdict),
                        MarkVideoDownloading(row[v]), MarkVideoCompleted(row[v])}
  <2>1. /\ ~DeferVideoForQuality(row[v]).skip_quality_gate
        /\ ~MarkVideoFailed(row[v], verdict).skip_quality_gate
        /\ ~MarkVideoDownloading(row[v]).skip_quality_gate
        /\ ~MarkVideoCompleted(row[v]).skip_quality_gate
    <3>1. \A o : MarkVideoFailed(row[v], o).skip_quality_gate = row[v].skip_quality_gate
      BY <1>1, SkipAfter
    <3>2. /\ DeferVideoForQuality(row[v]).skip_quality_gate = row[v].skip_quality_gate
          /\ MarkVideoDownloading(row[v]).skip_quality_gate = row[v].skip_quality_gate
          /\ MarkVideoCompleted(row[v]).skip_quality_gate = row[v].skip_quality_gate
      BY <1>1, SkipAfter
    <3>3. QED
      BY <1>1, <3>1, <3>2
  <2>2. QED
    BY <1>1, <1>3, <2>1
<1>4. CASE row'[v] \in {Absent, UpdateVideoStatus(row[v], "cleaned"),
                        [row[v] EXCEPT !.next_retry = "due"], ResetStuckDownload(row[v])}
  <2>1. /\ ~UpdateVideoStatus(row[v], "cleaned").skip_quality_gate
        /\ ~[row[v] EXCEPT !.next_retry = "due"].skip_quality_gate
        /\ ~ResetStuckDownload(row[v]).skip_quality_gate
    <3>1. \A s : UpdateVideoStatus(row[v], s).skip_quality_gate = row[v].skip_quality_gate
      BY <1>1, SkipAfter
    <3>2. /\ [row[v] EXCEPT !.next_retry = "due"].skip_quality_gate
                = row[v].skip_quality_gate
          /\ ResetStuckDownload(row[v]).skip_quality_gate = row[v].skip_quality_gate
      BY <1>1, SkipAfter
    <3>3. QED
      BY <1>1, <3>1, <3>2
  <2>2. ~Absent.skip_quality_gate
    BY DEF Absent
  <2>3. QED
    BY <1>4, <2>1, <2>2
<1>5. QED
  BY <1>2, <1>3, <1>4

\* A row that has no new attempt and does not begin to wait.
LEMMA CountKept ==
  ASSUME Unattended, AttemptInv, [Next]_vars, NEW v \in Videos,
         row'[v].attempts \in Nat, row'[v].attempts <= row[v].attempts
  PROVE  /\ (Waiting(v)' => Waiting(v)) => CountHolds(v)'
         /\ row'[v].status # "completed" /\ Claimable(v) => Claimable(v)'
<1>1. CountHolds(v) /\ row[v].attempts \in Nat
  BY AttemptFacts DEF RowsCount
<1>2. Limit \in Nat /\ Limit' \in Nat /\ Limit <= Limit'
  BY LimitGrows
<1>3. RetriesLeft(v) => RetriesLeft(v)'
  BY <1>1, <1>2 DEF RetriesLeft, Counted
<1>4. (Counted => row[v].attempts <= Limit) => (Counted => row'[v].attempts <= Limit')
  BY <1>1, <1>2
<1>5. QED
  BY <1>1, <1>3, <1>4 DEF CountHolds, Claimable, Counted

\* Every video counts as before and nobody else may claim.
LEMMA CountsKept ==
  ASSUME AttemptInv,
         \A v \in Videos : CountHolds(v)' /\ (Claimable(v) => Claimable(v)'),
         \A t \in Tasks : BeforeClaim(t)' => BeforeClaim(t) /\ task'[t].video = task[t].video,
         sweep' \subseteq sweep, sweep' # {} => dispatching \subseteq dispatching'
  PROVE  Counts'
<1>1. /\ \A t \in Tasks : BeforeClaim(t) => task[t].video \in Videos
      /\ \A s \in sweep : s.video \in Videos
      /\ DispatchesCount /\ ListedCount
  BY AttemptFacts DEF BeforeClaim
<1>2. DispatchesCount'
  BY <1>1 DEF DispatchesCount
<1>3. ListedCount'
  BY <1>1 DEF ListedCount
<1>4. QED
  BY <1>2, <1>3 DEF Counts, RowsCount

LEMMA SameCounts ==
  ASSUME Unattended, AttemptInv, [Next]_vars, NEW v \in Videos,
         row'[v].attempts = row[v].attempts, row'[v].status = row[v].status
  PROVE  CountHolds(v)' /\ (Claimable(v) => Claimable(v)')
<1>1. row[v].attempts \in Nat /\ row[v].attempts <= row[v].attempts
  BY AttemptFacts
<1>2. QED
  BY <1>1, CountKept DEF Waiting, Claimable

LEMMA CountsSupervisor ==
  ASSUME Unattended, AttemptInv, SupervisorStep
  PROVE  Counts'
<1> USE DEF configVars, supervisorVars
<1>1. /\ TypeInv /\ row \in [Videos -> Row] /\ task \in [Tasks -> Task]
      /\ mailbox \in Seq(Message) /\ NobodyAsks /\ NobodyCancels
      /\ RowsCount /\ DispatchesCount /\ ListedCount
      /\ \A v \in Videos : row[v] \in Row /\ row[v].attempts \in Nat
      /\ \A t \in Tasks : task[t].pc # "unused" => task[t].video \in Videos
      /\ \A s \in sweep : s.video \in Videos
  BY AttemptFacts
<1>2. ASSUME NEW kind, Receive(kind)
      PROVE  /\ sweep = {} /\ Head(mailbox) \in Message
             /\ Head(mailbox).kind = kind /\ Head(mailbox) = mailbox[1] /\ 1 \in DOMAIN mailbox
  BY <1>1, <1>2, ReceiveFacts DEF Receive, Idle
<1>3. ~EnqueueDownload /\ ~CancelDownload
  BY <1>1, <1>2 DEF EnqueueDownload, CancelDownload, NobodyAsks, NobodyCancels
<1>4. row' = row => \A v \in Videos : CountHolds(v)' /\ (Claimable(v) => Claimable(v)')
  BY SameCounts DEF Next
<1>5. CASE RegisterWorker \/ DownloadCompleted \/ ApplySemaphoreTarget \/ GetSupervisorStatus
           \/ JudgeFailure
  <2>1. row' = row /\ task' = task /\ sweep' = {}
    BY <1>2, <1>5
    DEF RegisterWorker, DownloadCompleted, ApplySemaphoreTarget, GetSupervisorStatus,
        JudgeFailure, Idle
  <2>2. QED
    BY <1>4, <2>1, CountsKept DEF BeforeClaim
<1>6. CASE ReportOutcome
  <2> DEFINE w == Head(mailbox).video
  <2>1. sweep' = {} /\ task' = task /\ w \in Videos
    BY <1>2, <1>6, MessageFields DEF ReportOutcome
  <2>2. row' = row \/ row' = [row EXCEPT ![w] = DeferVideoForQuality(row[w])]
    BY <1>6 DEF ReportOutcome
  <2>3. ASSUME NEW v \in Videos
        PROVE  CountHolds(v)' /\ (Claimable(v) => Claimable(v)')
    <3>1. CASE row'[v] = row[v]
      BY <3>1, SameCounts DEF Next
    <3>2. CASE row'[v] = DeferVideoForQuality(row[v])
      <4>1. row'[v].status = "awaiting_quality"
        BY <1>1, <3>2, StatusAfter
      <4>2. PICK n \in Nat : n = row'[v].attempts
        BY <1>1, <3>2, RowStatements DEF Row
      <4>3. CountHolds(v) /\ Limit \in Nat /\ Limit' \in Nat /\ Limit <= Limit'
            /\ MaxAttempts <= Limit
        BY <1>1, LimitGrows DEF RowsCount, Next
      <4>4. Counted => Limit \in Nat \ {0} /\ row[v].attempts <= Limit
        BY <4>3, MaxAttemptsAssumption DEF Counted, CountHolds
      <4>5. Counted => n < Limit
        BY <1>1, <3>2, <4>2, <4>4, AttemptsAfter
      <4>6. Counted => n < Limit'
        BY <4>3, <4>5
      <4>7. QED
        BY <4>1, <4>2, <4>3, <4>6 DEF CountHolds, Claimable, RetriesLeft, Counted
    <3>3. QED
      BY <1>1, <2>1, <2>2, <3>1, <3>2
  <2>4. QED
    BY <2>1, <2>3, CountsKept DEF BeforeClaim
<1>7. CASE RecordFailure
  <2>1. PICK w \in Videos : w = Head(mailbox).video
    BY <1>1, <1>7, RecordFacts
  <2>2. /\ sweep = {} /\ sweep' = {} /\ task' = task /\ verdict \in Verdict
        /\ row' = row \/ row' = [row EXCEPT ![w] = MarkVideoFailed(row[w], verdict)]
    BY <1>1, <1>7, <2>1, RecordFacts DEF RecordFailure
  <2>3. ASSUME NEW v \in Videos
        PROVE  CountHolds(v)' /\ (Claimable(v) => Claimable(v)')
    <3>1. CASE row'[v] = row[v]
      BY <3>1, SameCounts DEF Next
    <3>2. CASE row'[v] = MarkVideoFailed(row[v], verdict) /\ v = w
      <4>1. row'[v].attempts = row[v].attempts
        BY <1>1, <3>2, AttemptsAfter
      <4>2. row'[v].status \in {"failed", "permanently_failed"}
        BY <1>1, <3>2, StatusAfter
      <4>3. /\ (Waiting(v)' => Waiting(v)) => CountHolds(v)'
            /\ row'[v].status # "completed" /\ Claimable(v) => Claimable(v)'
        <5>1. row'[v].attempts \in Nat /\ row'[v].attempts <= row[v].attempts
          BY <1>1, <4>1
        <5>2. QED
          BY <5>1, CountKept DEF Next
      <4>4. CASE verdict = "permanent"
        <5>1. row'[v].status = "permanently_failed"
          BY <1>1, <3>2, <4>4 DEF MarkVideoFailed, Row
        <5>2. QED
          BY <4>3, <5>1 DEF Waiting
      <4>5. CASE verdict = "retry"
        <5>1. VerdictFor(v)
          BY <2>1, <3>2, <4>5 DEF AttemptInv, VerdictHolds
        <5>2. /\ Limit \in Nat /\ Limit' \in Nat /\ Limit <= Limit' /\ MaxAttempts <= Limit
              /\ Faulty => Limit' = MaxAttempts + 1
          BY LimitGrows DEF Next
        <5>3. Counted => row[v].attempts < Limit'
          BY <1>1, <5>1, <5>2, MaxAttemptsAssumption DEF VerdictFor
        <5>4. Counted => row'[v].attempts < Limit' /\ row'[v].attempts <= Limit'
          BY <1>1, <4>1, <5>2, <5>3
        <5>5. QED
          BY <4>2, <5>4 DEF CountHolds, Claimable, RetriesLeft, Counted
      <4>6. QED
        BY <2>2, <4>4, <4>5 DEF Verdict
    <3>3. QED
      BY <1>1, <2>2, <3>1, <3>2
  <2>4. QED
    BY <2>2, <2>3, CountsKept DEF BeforeClaim
<1>8. CASE ProcessPendingDownloads
  <2>1. row' = row /\ task' = task /\ sweep = {}
    BY <1>2, <1>8 DEF ProcessPendingDownloads
  <2>2. \A s \in sweep' : s.video \in Videos /\ ReadyForDownload(row[s.video])
    BY <1>8, <2>1 DEF ProcessPendingDownloads
  <2>3. \A s \in sweep' : Claimable(s.video)
    BY <1>1, <2>2 DEF ReadyForDownload, RowsCount, CountHolds, Claimable, Waiting
  <2>4. ListedCount'
    BY <1>4, <2>1, <2>2, <2>3 DEF ListedCount
  <2>5. DispatchesCount'
    BY <1>1, <1>4, <2>1 DEF DispatchesCount, BeforeClaim
  <2>6. QED
    BY <1>4, <2>1, <2>4, <2>5 DEF Counts, RowsCount
<1>9. CASE SweepVideo
  <2>1. PICK s \in sweep : SweepVideo!(s)
    BY <1>9 DEF SweepVideo
  <2>2. row' = row /\ sweep' \subseteq sweep
    BY <2>1
  <2>3. \/ task' = task /\ dispatching' = dispatching
        \/ DispatchDownload(s.video, s.snapshot)
    BY <2>1
  <2>4. dispatching \subseteq dispatching'
    BY <2>3 DEF DispatchDownload
  <2>5. ASSUME NEW t \in Tasks, BeforeClaim(t)'
        PROVE  task'[t].video \in Videos /\ Claimable(task'[t].video)
    <3>1. CASE task'[t] = task[t]
      BY <1>1, <2>5, <3>1 DEF DispatchesCount, BeforeClaim
    <3>2. CASE task'[t] # task[t]
      <4>1. /\ s.video \notin dispatching
            /\ \E u \in Tasks :
                 task' = [task EXCEPT ![u] = [UnusedTask EXCEPT !.pc = "parked",
                                                !.video = s.video, !.semaphore = incarnation]]
        BY <2>3, <3>2 DEF DispatchDownload, Reservable
      <4>2. task'[t].video = s.video
        BY <1>1, <3>2, <4>1 DEF UnusedTask
      <4>3. QED
        BY <1>1, <2>1, <4>1, <4>2 DEF ListedCount
    <3>3. QED
      BY <3>1, <3>2
  <2>6. ListedCount'
    BY <1>1, <1>4, <2>2, <2>4 DEF ListedCount
  <2>7. DispatchesCount'
    BY <1>4, <2>2, <2>5 DEF DispatchesCount
  <2>8. QED
    BY <1>4, <2>2, <2>6, <2>7 DEF Counts, RowsCount
<1>10. QED
  BY <1>3, <1>5, <1>6, <1>7, <1>8, <1>9 DEF SupervisorStep

\* A claim counts, for a video with nobody else before its claim.
LEMMA CountsTask ==
  ASSUME Unattended, AttemptInv, NEW t \in Tasks, Acquire(t) \/ TaskStep(t)
  PROVE  Counts'
<1> USE DEF configVars, supervisorVars
<1>1. /\ row \in [Videos -> Row] /\ task \in [Tasks -> Task]
      /\ RowsCount /\ DispatchesCount /\ ListedCount /\ UniqueDispatch /\ LiveIsReserved
      /\ \A u \in Tasks : task[u].pc # "unused" => task[u].video \in Videos
      /\ \A v \in Videos : row[v] \in Row /\ row[v].attempts \in Nat
  BY AttemptFacts
<1>2. sweep' = sweep /\ dispatching' = dispatching
  BY DEF Acquire, TaskStep, TellRegisterWorker, AskStartDownload, ClaimVideo, EndDownload,
         ReleasePermit, TellDownloadCompleted, TellReportOutcome
<1>3. \A u \in Tasks \ {t} : task'[u] = task[u]
  BY <1>1
  DEF Acquire, TaskStep, TellRegisterWorker, AskStartDownload, ClaimVideo, EndDownload,
      ReleasePermit, TellDownloadCompleted, TellReportOutcome, Move, Finish
<1>4. CASE row' = row
  <2>1. BeforeClaim(t)' => BeforeClaim(t) /\ task'[t].video = task[t].video
    BY <1>1
    DEF Acquire, TaskStep, TellRegisterWorker, AskStartDownload, ClaimVideo, EndDownload,
        ReleasePermit, TellDownloadCompleted, TellReportOutcome, Move, Finish, BeforeClaim,
        UnusedTask, Task
  <2>2. \A u \in Tasks : BeforeClaim(u)' => BeforeClaim(u) /\ task'[u].video = task[u].video
    BY <1>3, <2>1 DEF BeforeClaim
  <2>3. \A v \in Videos : CountHolds(v)' /\ (Claimable(v) => Claimable(v)')
    BY <1>4, SameCounts DEF Next
  <2>4. QED
    BY <1>2, <2>2, <2>3, CountsKept
<1>5. CASE row' # row
  <2>0. task[t].pc # "unused"
    BY <1>5
    DEF Acquire, TaskStep, TellRegisterWorker, AskStartDownload, ClaimVideo, EndDownload,
        ReleasePermit, TellDownloadCompleted, TellReportOutcome
  <2> PICK w \in Videos : w = task[t].video
    BY <1>1, <2>0
  <2>1. /\ w \in Videos /\ row[w] \in Row /\ Live(t) /\ w \in dispatching
        /\ row[w].attempts \in Nat
        /\ \/ /\ row' = [row EXCEPT ![w] = MarkVideoDownloading(row[w])]
              /\ BeforeClaim(t) /\ task'[t].pc = "downloading"
           \/ /\ row' = [row EXCEPT ![w] = MarkVideoCompleted(row[w])]
              /\ task'[t].pc = "finished"
    <3>1. ClaimVideo(t) \/ EndDownload(t)
      BY <1>5
      DEF Acquire, TaskStep, TellRegisterWorker, AskStartDownload, ReleasePermit,
          TellDownloadCompleted, TellReportOutcome
    <3>2. CASE ClaimVideo(t)
      <4>1. /\ row' = [row EXCEPT ![w] = MarkVideoDownloading(row[w])]
            /\ task[t].pc = "queued" /\ task'[t].pc = "downloading"
        BY <1>1, <1>5, <3>2 DEF ClaimVideo, Task
      <4>2. QED
        BY <1>1, <4>1 DEF BeforeClaim, Live, LiveIsReserved, Row
    <3>3. CASE EndDownload(t)
      <4>1. /\ row' = [row EXCEPT ![w] = MarkVideoCompleted(row[w])]
            /\ task[t].pc = "downloading" /\ task'[t].pc = "finished"
        BY <1>1, <1>5, <3>3 DEF EndDownload, Finish, Task
      <4>2. QED
        BY <1>1, <4>1 DEF Live, LiveIsReserved, Row
    <3>4. QED
      BY <3>1, <3>2, <3>3
  <2>2. \A v \in Videos \ {w} : CountHolds(v)' /\ (Claimable(v) => Claimable(v)')
    <3>1. \A v \in Videos \ {w} : row'[v] = row[v]
      BY <1>1, <2>1
    <3>2. QED
      BY <3>1, SameCounts DEF Next
  <2>3. CountHolds(w)'
    <3>1. CountHolds(w) /\ (BeforeClaim(t) => Claimable(w))
      BY <1>1, <2>1 DEF RowsCount, DispatchesCount
    <3>2. CASE row'[w] = MarkVideoDownloading(row[w]) /\ BeforeClaim(t)
      <4>1. row'[w].status = "downloading"
        BY <2>1, <3>2, StatusAfter
      <4>2. row'[w].attempts = row[w].attempts + 1
        BY <2>1, <3>2, AttemptsAfter
      <4>3. Limit \in Nat /\ Limit' \in Nat /\ Limit <= Limit'
        BY LimitGrows DEF Next
      <4>4. Counted => row'[w].attempts <= Limit'
        BY <2>1, <3>1, <3>2, <4>2, <4>3 DEF Claimable, RetriesLeft
      <4>5. QED
        BY <4>1, <4>4 DEF CountHolds, Waiting, Counted
    <3>3. CASE row'[w] = MarkVideoCompleted(row[w])
      <4>1. row'[w].attempts = row[w].attempts
        BY <2>1, <3>3, AttemptsAfter
      <4>2. row'[w].status = "completed"
        BY <2>1, <3>3, StatusAfter
      <4>3. row'[w].attempts \in Nat /\ row'[w].attempts <= row[w].attempts
        BY <2>1, <4>1
      <4>4. QED
        BY <4>2, <4>3, CountKept DEF Waiting, Next
    <3>4. QED
      BY <1>1, <2>1, <3>2, <3>3
  <2>4. \A u \in Tasks : BeforeClaim(u)' => u # t /\ BeforeClaim(u) /\ task[u].video # w
                                            /\ task'[u].video = task[u].video
    <3>1. ~BeforeClaim(t)'
      BY <2>1 DEF BeforeClaim
    <3>2. \A u \in Tasks \ {t} : Live(u) => task[u].video # w
      BY <1>1, <2>1 DEF UniqueDispatch
    <3>3. QED
      BY <1>3, <3>1, <3>2 DEF BeforeClaim, Live
  <2>5. RowsCount'
    BY <2>2, <2>3 DEF RowsCount
  <2>6. DispatchesCount'
    <3>1. ASSUME NEW u \in Tasks, BeforeClaim(u)' PROVE Claimable(task[u].video)'
      <4>1. BeforeClaim(u) /\ task[u].video \in Videos \ {w} /\ Claimable(task[u].video)
        BY <1>1, <2>4, <3>1 DEF BeforeClaim, DispatchesCount
      <4>2. u # t /\ task'[u] = task[u]
        BY <1>3, <2>4, <3>1
      <4>3. QED
        BY <2>2, <4>1, <4>2
    <3>2. QED
      BY <3>1 DEF DispatchesCount
  <2>7. ListedCount'
    <3>1. ASSUME NEW s \in sweep PROVE s.video \in dispatching \/ Claimable(s.video)'
      <4>1. s.video \in Videos
        BY AttemptFacts
      <4>2. QED
        BY <1>1, <2>1, <2>2, <4>1 DEF ListedCount
    <3>2. QED
      BY <1>2, <3>1 DEF ListedCount
  <2>8. QED
    BY <2>5, <2>6, <2>7 DEF Counts
<1>6. QED
  BY <1>4, <1>5

LEMMA CountsClient ==
  ASSUME Unattended, AttemptInv, NEW c \in Clients, ClientStep(c)
  PROVE  Counts'
<1>1. /\ UNCHANGED <<task, sweep, dispatching>>
      /\ \A v \in Videos : \/ row'[v] = row[v]
                           \/ row'[v] = Absent
                           \/ row'[v] = UpdateVideoStatus(row[v], "cleaned")
  BY UnattendedClient
<1>2. ASSUME NEW v \in Videos
      PROVE  CountHolds(v)' /\ (Claimable(v) => Claimable(v)')
  <2>1. row[v] \in Row /\ row[v].attempts \in Nat
    BY AttemptFacts
  <2>2. CASE row'[v] = row[v]
    BY <2>2, SameCounts DEF Next
  <2>3. CASE row'[v] = Absent \/ row'[v] = UpdateVideoStatus(row[v], "cleaned")
    <3>1. /\ row'[v].status \in {"absent", "cleaned"}
          /\ row'[v].attempts \in Nat /\ row'[v].attempts <= row[v].attempts
      <4>1. CASE row'[v] = Absent
        BY <2>1, <4>1 DEF Absent
      <4>2. CASE row'[v] = UpdateVideoStatus(row[v], "cleaned")
        <5>1. /\ UpdateVideoStatus(row[v], "cleaned").status = "cleaned"
              /\ UpdateVideoStatus(row[v], "cleaned").attempts = row[v].attempts
          BY <2>1 DEF UpdateVideoStatus, Row
        <5>2. QED
          BY <2>1, <4>2, <5>1
      <4>3. QED
        BY <2>3, <4>1, <4>2
    <3>2. QED
      BY <3>1, CountKept DEF Waiting, Next
  <2>4. QED
    BY <1>1, <2>2, <2>3
<1>3. QED
  BY <1>1, <1>2, CountsKept DEF BeforeClaim

LEMMA CountsEnvironment ==
  ASSUME Unattended, AttemptInv, Environment
  PROVE  Counts'
<1> USE DEF configVars, supervisorVars
<1>1. /\ row \in [Videos -> Row] /\ ~RestartSupervisor /\ (~CrashAndBoot \/ ~Counted)
      /\ \A v \in Videos : row[v] \in Row
  BY UnattendedFacts, AttemptFacts DEF Next
<1>2. CASE CrashAndBoot
  <2>1. sweep' = {} /\ (\A t \in Tasks : ~BeforeClaim(t)') /\ ~Counted
    BY <1>1, <1>2 DEF CrashAndBoot, BeforeClaim, UnusedTask
  <2>2. QED
    BY <2>1
    DEF Counts, RowsCount, DispatchesCount, ListedCount, CountHolds, RetriesLeft, Counted
<1>3. CASE ~CrashAndBoot
  <2>1. task' = task /\ sweep' = sweep /\ dispatching' = dispatching
    BY <1>1, <1>3
    DEF Environment, SchedulerTick, DbBackoffElapses, SetTarget, WatchTarget, TogglePause,
        BeginDrain, ProbeQuiescence, RetryBecomesDue
  <2>2. \A v \in Videos : row'[v].status = row[v].status /\ row'[v].attempts = row[v].attempts
    <3>1. CASE \E w \in Videos : RetryBecomesDue(w)
      BY <1>1, <3>1, StatusAfter, AttemptsAfter DEF RetryBecomesDue
    <3>2. CASE ~\E w \in Videos : RetryBecomesDue(w)
      BY <1>1, <1>3, <3>2
      DEF Environment, SchedulerTick, DbBackoffElapses, SetTarget, WatchTarget, TogglePause,
          BeginDrain, ProbeQuiescence
    <3>3. QED
      BY <3>1, <3>2
  <2>3. \A v \in Videos : CountHolds(v)' /\ (Claimable(v) => Claimable(v)')
    BY <2>2, SameCounts DEF Next
  <2>4. QED
    BY <2>1, <2>3, CountsKept DEF BeforeClaim
<1>4. QED
  BY <1>2, <1>3

\* No attempt is counted and nobody new is dispatched.
LEMMA VerdictKept ==
  ASSUME NEW v \in Videos, VerdictFor(v), Faulty => Faulty',
         row[v].attempts \in Nat, row'[v].attempts \in Nat,
         row'[v].attempts <= row[v].attempts,
         \A t \in Tasks : BeforeClaim(t)' /\ task'[t].video = v =>
                              BeforeClaim(t) /\ task[t].video = v
  PROVE  VerdictFor(v)'
<1>1. row'[v].attempts < MaxAttempts \/ ~(row[v].attempts < MaxAttempts)
  BY MaxAttemptsAssumption
<1>2. row[v].attempts <= MaxAttempts => row'[v].attempts <= MaxAttempts
  BY MaxAttemptsAssumption
<1>3. QED
  BY <1>1, <1>2 DEF VerdictFor, Counted

\* The one claim that may fall between the decision and its writing.
LEMMA VerdictClaim ==
  ASSUME Unattended, AttemptInv, Next, verdict = "retry", NEW v \in Videos,
         v = Head(mailbox).video, NEW t \in Tasks, ClaimVideo(t), task[t].video = v,
         Found(v), row[v].attempts < MaxInteger, row'[v] = MarkVideoDownloading(row[v]),
         task'[t].pc = "downloading"
  PROVE  VerdictFor(v)'
<1>1. /\ row[v] \in Row /\ row[v].attempts \in Nat /\ TypeInv /\ UniqueDispatch
      /\ task \in [Tasks -> Task] /\ mailbox \in Seq(Message)
  BY AttemptFacts
<1>2. BeforeClaim(t) /\ Live(t)
  BY DEF ClaimVideo, BeforeClaim, Live
<1>3. SUFFICES ASSUME Counted PROVE VerdictFor(v)'
  BY DEF VerdictFor, Counted
<1>4. row[v].attempts < MaxAttempts
  BY <1>2, <1>3 DEF AttemptInv, VerdictHolds, VerdictFor
<1>5. Faulty
  <2>1. SUFFICES ASSUME ~Faulty PROVE FALSE
    OBVIOUS
  <2>2. GateHolds(v) /\ ~row[v].skip_quality_gate
    BY <2>1 DEF AttemptInv, GateInv, Ordered, GatesHold, NoneReleased
  <2>3. ~Stuck(v)
    BY <1>1, <1>4, ConstantsAssumption, MaxAttemptsAssumption DEF Stuck
  <2>4. Orderly(v)
    BY <2>2, <2>3 DEF GateHolds
  <2>5. 1 \in DOMAIN mailbox /\ Reported(1, v)
    <3>1. /\ mailbox # <<>> /\ Head(mailbox).kind = "ReportOutcome"
          /\ Head(mailbox).outcome = "failed"
      BY <1>1, ConstantsAssumption DEF TypeInv, HalfDone, Verdict
    <3>2. Head(mailbox) = mailbox[1] /\ 1 \in DOMAIN mailbox
      BY <1>1, <3>1, HeadTailProperties, LenProperties, EmptySeq
    <3>3. QED
      BY <3>1, <3>2 DEF Reported
  <2>6. Outstanding(v)
    BY <2>5 DEF Outstanding, OwnedByReport
  <2>7. QED
    BY <1>2, <2>4, <2>6 DEF Orderly
<1>6. Faulty'
  BY <1>5, UnattendedFacts
<1>7. row'[v].attempts <= MaxAttempts
  <2>1. row'[v].attempts = row[v].attempts + 1
    BY <1>1, AttemptsAfter
  <2>2. QED
    BY <1>1, <1>4, <2>1, MaxAttemptsAssumption
<1>8. ASSUME NEW u \in Tasks, BeforeClaim(u)' PROVE task'[u].video # v
  <2>1. u # t
    BY <1>8 DEF BeforeClaim
  <2>2. task'[u] = task[u]
    BY <1>1, <2>1 DEF ClaimVideo, Finish
  <2>3. Live(u)
    BY <1>8, <2>2 DEF BeforeClaim, Live
  <2>4. QED
    BY <1>1, <1>2, <2>1, <2>2, <2>3 DEF UniqueDispatch
<1>9. QED
  BY <1>6, <1>7, <1>8 DEF VerdictFor

\* Nothing is dispatched while a failure is judged.
LEMMA NoDispatchMeanwhile ==
  ASSUME Unattended, AttemptInv, Next, verdict # None, verdict' # None, NEW t \in Tasks,
         BeforeClaim(t)'
  PROVE  BeforeClaim(t) /\ task'[t].video = task[t].video
<1> USE DEF configVars, supervisorVars, clientUnchanged
<1>1. task \in [Tasks -> Task] /\ TypeInv /\ sweep = {} /\ ~RestartSupervisor
  BY AttemptFacts, UnattendedFacts DEF TypeInv, HalfDone
<1>2. ~SupervisorStep
  BY <1>1
  DEF SupervisorStep, EnqueueDownload, RegisterWorker, DownloadCompleted, ReportOutcome,
      JudgeFailure, RecordFailure, ProcessPendingDownloads, SweepVideo, ApplySemaphoreTarget,
      CancelDownload, GetSupervisorStatus, Receive, Idle
<1>3. ASSUME NEW u \in Tasks, Acquire(u) \/ TaskStep(u)
      PROVE  BeforeClaim(t) /\ task'[t].video = task[t].video
  BY <1>1, <1>3
  DEF Acquire, TaskStep, TellRegisterWorker, AskStartDownload, ClaimVideo, EndDownload,
      ReleasePermit, TellDownloadCompleted, TellReportOutcome, Move, Finish, BeforeClaim,
      UnusedTask, Task
<1>4. ASSUME NEW c \in Clients, ClientStep(c) PROVE task' = task
  BY <1>4, UnattendedClient
<1>5. CASE Environment
  <2>1. ~CrashAndBoot
    BY DEF CrashAndBoot
  <2>2. task' = task
    BY <1>1, <1>5, <2>1
    DEF Environment, SchedulerTick, DbBackoffElapses, SetTarget, WatchTarget, TogglePause,
        BeginDrain, ProbeQuiescence, RetryBecomesDue
  <2>3. QED
    BY <2>2 DEF BeforeClaim
<1>6. QED
  BY <1>2, <1>3, <1>4, <1>5 DEF Next, BeforeClaim

LEMMA VerdictNext ==
  ASSUME Unattended, AttemptInv, Next
  PROVE  VerdictHolds'
<1>1. /\ TypeInv /\ mailbox \in Seq(Message)
      /\ \A v \in Videos : row[v] \in Row /\ row[v].attempts \in Nat
  BY AttemptFacts
<1>2. CASE JudgeFailure
  <2>1. mailbox' = mailbox /\ row' = row
        /\ verdict' = Judge(row[Head(mailbox).video].attempts)
    BY <1>2 DEF JudgeFailure
  <2>2. Head(mailbox).video \in Videos
    <3>1. mailbox # <<>> /\ Head(mailbox).kind = "ReportOutcome"
      BY <1>2 DEF JudgeFailure
    <3>2. Head(mailbox) \in Message
      BY <1>1, <3>1, HeadTailProperties
    <3>3. QED
      BY <3>1, <3>2, MessageFields
  <2>3. verdict' = "retry" => row[Head(mailbox).video].attempts < MaxAttempts
    BY <1>1, <2>1, <2>2, MaxAttemptsAssumption DEF Judge
  <2>4. QED
    BY <2>1, <2>3 DEF VerdictHolds, VerdictFor
<1>3. CASE verdict' = None
  BY <1>3, ConstantsAssumption DEF VerdictHolds, Verdict
<1>4. CASE /\ UNCHANGED <<sweep, verdict>> /\ verdict = "retry"
           /\ mailbox' = mailbox \/ \E m : mailbox' = Append(mailbox, m)
  <2>1. verdict # None /\ verdict' # None
    BY <1>4, ConstantsAssumption DEF Verdict
  <2>2. mailbox # <<>> /\ Head(mailbox).kind = "ReportOutcome"
    BY <1>1, <2>1 DEF TypeInv, HalfDone
  <2>3. Head(mailbox') = Head(mailbox)
    BY <1>1, <1>4, <2>2, TellKeepsHead
  <2>4. Head(mailbox).video \in Videos
    BY <1>1, <2>2, HeadTailProperties, MessageFields
  <2>5. PICK v \in Videos : v = Head(mailbox).video
    BY <2>4
  <2>6. VerdictFor(v)
    BY <1>4, <2>5 DEF AttemptInv, VerdictHolds
  <2>7. \A t \in Tasks : BeforeClaim(t)' => BeforeClaim(t) /\ task'[t].video = task[t].video
    BY <2>1, NoDispatchMeanwhile
  <2>8. CASE row'[v].attempts \in Nat /\ row'[v].attempts <= row[v].attempts
    <3>1. Faulty => Faulty'
      BY UnattendedFacts
    <3>2. VerdictFor(v)'
      BY <1>1, <2>6, <2>7, <2>8, <3>1, VerdictKept
    <3>3. QED
      BY <2>3, <2>5, <3>2 DEF VerdictHolds
  <2>9. CASE \E t \in Tasks : /\ ClaimVideo(t) /\ task[t].video = v
                              /\ Found(v) /\ row[v].attempts < MaxInteger
                              /\ row'[v] = MarkVideoDownloading(row[v])
                              /\ task'[t].pc = "downloading" /\ task'[t].video = v
    <3>1. VerdictFor(v)'
      BY <1>4, <2>5, <2>9, VerdictClaim
    <3>2. QED
      BY <2>3, <2>5, <3>1 DEF VerdictHolds
  <2>10. ~CrashAndBoot
    BY <2>1 DEF CrashAndBoot
  <2>11. /\ DeferVideoForQuality(row[v]).attempts \in Nat
         /\ DeferVideoForQuality(row[v]).attempts <= row[v].attempts
         /\ MarkVideoFailed(row[v], verdict).attempts = row[v].attempts
         /\ MarkVideoCompleted(row[v]).attempts = row[v].attempts
         /\ [row[v] EXCEPT !.next_retry = "due"].attempts = row[v].attempts
    <3>1. DeferVideoForQuality(row[v]).attempts \in Nat
      BY <1>1, RowStatements DEF Row
    <3>2. QED
      BY <1>1, <3>1, AttemptsAfter
  <2>12. Absent.attempts = 0 /\ UpdateVideoStatus(row[v], "cleaned").attempts = row[v].attempts
    BY <1>1, SkipAfter DEF Absent
  <2>13. \/ row'[v] \in {row[v], DeferVideoForQuality(row[v]),
                           MarkVideoFailed(row[v], verdict), MarkVideoCompleted(row[v]),
                           Absent, UpdateVideoStatus(row[v], "cleaned"),
                           [row[v] EXCEPT !.next_retry = "due"]}
         \/ \E t \in Tasks : /\ ClaimVideo(t) /\ task[t].video = v
                             /\ Found(v) /\ row[v].attempts < MaxInteger
                             /\ row'[v] = MarkVideoDownloading(row[v])
                             /\ task'[t].pc = "downloading" /\ task'[t].video = v
    BY <2>10, RowsAfter
  <2>14. CASE row'[v] \in {row[v], DeferVideoForQuality(row[v]),
                           MarkVideoFailed(row[v], verdict), MarkVideoCompleted(row[v]),
                           Absent, UpdateVideoStatus(row[v], "cleaned"),
                           [row[v] EXCEPT !.next_retry = "due"]}
    <3>1. row[v].attempts \in Nat
      BY <1>1
    <3>2. row'[v].attempts \in Nat /\ row'[v].attempts <= row[v].attempts
      <4>1. CASE row'[v] = [row[v] EXCEPT !.next_retry = "due"]
        BY <2>11, <3>1, <4>1
      <4>2. CASE row'[v] \in {row[v], Absent, UpdateVideoStatus(row[v], "cleaned")}
        BY <2>12, <3>1, <4>2
      <4>3. CASE row'[v] \in {DeferVideoForQuality(row[v]), MarkVideoFailed(row[v], verdict),
                              MarkVideoCompleted(row[v])}
        BY <2>11, <3>1, <4>3
      <4>4. QED
        BY <2>14, <4>1, <4>2, <4>3
    <3>3. QED
      BY <2>8, <3>2
  <2>15. QED
    BY <2>9, <2>13, <2>14
<1>5. verdict' = "retry" /\ verdict' = verdict => verdict = "retry"
  OBVIOUS
<1>6. QED
  BY <1>1, <1>2, <1>3, <1>4, <1>5, VerdictSteps DEF VerdictHolds

\* A step that adds no work, no report and does not complete the video.
LEMMA SettledKept ==
  ASSUME NEW v \in Videos, Settled(v),
         \A t \in Tasks : (Owns(t, v)' => Owns(t, v)) /\ (Working(t, v)' => Working(t, v)),
         OwnedByReport(v)' => OwnedByReport(v),
         row'[v].status = "completed" => row[v].status = "completed"
  PROVE  Settled(v)'
BY DEF Settled, Outstanding, OwnedByTask

\* The steps of the others: no task starts to work and no outcome is reported.
LEMMA SettledElsewhere ==
  ASSUME Unattended, AttemptInv, Next, ~\E t \in Tasks : Acquire(t) \/ TaskStep(t),
         NEW v \in Videos, Settled(v)
  PROVE  Settled(v)'
<1> USE DEF configVars, supervisorVars
<1>1. /\ task \in [Tasks -> Task] /\ mailbox \in Seq(Message) /\ row[v] \in Row /\ TypeInv
      /\ NobodyCancels /\ ~RestartSupervisor
  BY AttemptFacts, UnattendedFacts
<1>2. row'[v].status = "completed" => row[v].status = "completed"
  <2>1. /\ DeferVideoForQuality(row[v]).status # "completed"
        /\ MarkVideoFailed(row[v], verdict).status # "completed"
        /\ [row[v] EXCEPT !.next_retry = "due"].status = row[v].status
    BY <1>1, StatusAfter
  <2>2. UpdateVideoStatus(row[v], "cleaned").status = "cleaned" /\ Absent.status = "absent"
    BY <1>1, StatusAfter DEF Absent, VideoStatus
  <2>3. ResetStuckDownload(row[v]).status = "completed" => row[v].status = "completed"
    BY <1>1 DEF ResetStuckDownload, Row
  <2>4. QED
    BY <2>1, <2>2, <2>3, RowsAfter DEF TaskStep
<1>3. CASE SupervisorStep
  <2>1. ~CancelDownload /\ ~EnqueueDownload
    <3>1. ASSUME NEW kind, Receive(kind)
          PROVE  1 \in DOMAIN mailbox /\ mailbox[1].kind = kind
      BY <1>1, <3>1, ReceiveFacts
    <3>2. NobodyAsks
      BY AttemptFacts
    <3>3. QED
      BY <1>1, <3>1, <3>2 DEF NobodyCancels, NobodyAsks, CancelDownload, EnqueueDownload
  <2>2. \A t \in Tasks : task'[t] = task[t] \/ task'[t].pc = "parked"
    <3>1. CASE SweepVideo
      <4>1. PICK s \in sweep : task' = task \/ DispatchDownload(s.video, s.snapshot)
        BY <3>1 DEF SweepVideo
      <4>2. QED
        BY <1>1, <4>1 DEF DispatchDownload, UnusedTask
    <3>2. CASE ~SweepVideo
      BY <1>3, <2>1, <3>2
      DEF SupervisorStep, RegisterWorker, DownloadCompleted, ReportOutcome, JudgeFailure,
          RecordFailure, ProcessPendingDownloads, ApplySemaphoreTarget, GetSupervisorStatus
    <3>3. QED
      BY <3>1, <3>2
  <2>3. \A t \in Tasks : (Owns(t, v)' => Owns(t, v)) /\ (Working(t, v)' => Working(t, v))
    BY <2>2 DEF Owns, Working
  <2>4. mailbox' = mailbox \/ Shifted
    BY <1>1, <1>3, SupervisorMail
  <2>5. OwnedByReport(v)' => OwnedByReport(v)
    BY <1>1, <2>4, ReportsAfter
  <2>6. QED
    BY <1>2, <2>3, <2>5, SettledKept
<1>4. ASSUME NEW c \in Clients, ClientStep(c) PROVE Settled(v)'
  <2>1. task' = task /\ mailbox' = mailbox
    BY <1>4, UnattendedClient
  <2>2. QED
    BY <1>2, <2>1, SettledKept DEF Owns, Working, OwnedByReport, Reported
<1>5. CASE CrashAndBoot
  <2>1. /\ DOMAIN mailbox' = {1} /\ mailbox'[1].kind = "ProcessPendingDownloads"
        /\ \A t \in Tasks : task'[t] = UnusedTask
    BY <1>5 DEF CrashAndBoot
  <2>2. ~OwnedByReport(v)' /\ \A t \in Tasks : ~Owns(t, v)' /\ ~Working(t, v)'
    BY <2>1 DEF OwnedByReport, Reported, Owns, Working, UnusedTask
  <2>3. QED
    BY <1>2, <2>2, SettledKept
<1>6. CASE Environment /\ ~CrashAndBoot
  <2>1. task' = task
    BY <1>1, <1>6
    DEF Environment, SchedulerTick, DbBackoffElapses, SetTarget, WatchTarget, TogglePause,
        BeginDrain, ProbeQuiescence, RetryBecomesDue
  <2>2. mailbox' = mailbox \/ \E m \in Message : Tell(m) /\ m.kind # "ReportOutcome"
    <3>1. /\ [kind |-> "ApplySemaphoreTarget", target |-> target] \in Message
          /\ [kind |-> "ProcessPendingDownloads"] \in Message
          /\ [kind |-> "GetSupervisorStatus"] \in Message
      BY <1>1 DEF TypeInv, TypeOK, Message
    <3>2. QED
      BY <1>1, <1>6, <3>1
      DEF Environment, SchedulerTick, DbBackoffElapses, SetTarget, WatchTarget, TogglePause,
          BeginDrain, ProbeQuiescence, RetryBecomesDue
  <2>3. OwnedByReport(v)' => OwnedByReport(v)
    BY <1>1, <2>2, ReportsAfter DEF Report
  <2>4. QED
    BY <1>2, <2>1, <2>3, SettledKept DEF Owns, Working
<1>7. QED
  BY <1>3, <1>4, <1>5, <1>6 DEF Next

\* A task that claims a video is the only one that answers for it, and when it
\* completes the video nobody else does.
LEMMA SettledTask ==
  ASSUME Unattended, AttemptInv, ~Faulty, NEW t \in Tasks, Acquire(t) \/ TaskStep(t),
         NEW v \in Videos
  PROVE  Settled(v)'
<1> USE DEF configVars, supervisorVars
<1>1. /\ task \in [Tasks -> Task] /\ mailbox \in Seq(Message) /\ row \in [Videos -> Row]
      /\ row[v] \in Row /\ TypeInv /\ UniqueDispatch /\ DispatchesCount
      /\ task[t].pc # "unused" => task[t].video \in Videos
      /\ task[t].pc = "reporting" => task[t].outcome \in Outcome
  BY AttemptFacts DEF TypeInv, TaskInUse
<1>2. Settled(v) /\ GateHolds(v) /\ ~row[v].skip_quality_gate /\ NoOutcomeYet
  BY DEF AttemptInv, AllSettled, GateInv, Ordered, GatesHold, NoneReleased
<1>3. \A u \in Tasks \ {t} : task'[u] = task[u]
  BY <1>1
  DEF Acquire, TaskStep, TellRegisterWorker, AskStartDownload, ClaimVideo, EndDownload,
      ReleasePermit, TellDownloadCompleted, TellReportOutcome, Move, Finish
<1>4. ASSUME Owns(t, v)' => Owns(t, v), Working(t, v)' => Working(t, v)
      PROVE  \A u \in Tasks : (Owns(u, v)' => Owns(u, v)) /\ (Working(u, v)' => Working(u, v))
  BY <1>3, <1>4 DEF Owns, Working
<1>5. CASE ClaimVideo(t)
  <2>1. /\ mailbox' = mailbox /\ BeforeClaim(t) /\ Live(t) /\ task[t].outcome = None
        /\ task[t].video \in Videos /\ task'[t].video = task[t].video
    BY <1>1, <1>2, <1>5 DEF ClaimVideo, Finish, Task, BeforeClaim, Live, NoOutcomeYet
  <2>2. OwnedByReport(v)' => OwnedByReport(v)
    BY <2>1 DEF OwnedByReport, Reported
  <2>3. CASE task[t].video # v
    <3>1. row'[v] = row[v]
      BY <1>1, <1>5, <2>3 DEF ClaimVideo
    <3>2. ~Owns(t, v)' /\ ~Working(t, v)'
      BY <2>1, <2>3 DEF Owns, Working
    <3>3. QED
      BY <1>2, <1>4, <2>2, <3>1, <3>2, SettledKept
  <2>4. CASE task[t].video = v /\ Found(v) /\ row[v].attempts < MaxInteger
                                /\ row'[v] = MarkVideoDownloading(row[v])
    <3>1. ~Stuck(v)
      BY <1>1, <2>4, ConstantsAssumption DEF Stuck, Row
    <3>2. ~Outstanding(v)
      BY <1>2, <2>1, <2>4, <3>1 DEF GateHolds, Orderly
    <3>3. \A u \in Tasks : Owns(u, v)' => u = t
      BY <1>3, <3>2 DEF Outstanding, OwnedByTask, Owns
    <3>4. ~OwnedByReport(v)'
      BY <2>2, <3>2 DEF Outstanding
    <3>5. \A u \in Tasks : Working(u, v)' => Owns(u, v)'
      BY DEF Working, Owns
    <3>6. row'[v].status = "downloading"
      BY <1>1, <2>4, StatusAfter
    <3>7. QED
      BY <3>3, <3>4, <3>5, <3>6 DEF Settled
  <2>5. CASE task[t].video = v /\ row'[v] = row[v] /\ ~Working(t, v)'
    <3>1. \A u \in Tasks : ~Working(u, v)'
      BY <1>1, <1>3, <2>1, <2>5 DEF UniqueDispatch, Live, Working
    <3>2. row'[v].status # "completed"
      BY <1>1, <2>1, <2>5 DEF DispatchesCount, Claimable
    <3>3. QED
      BY <3>1, <3>2 DEF Settled
  <2>6. QED
    <3>1. task[t].video = v =>
            \/ Found(v) /\ row[v].attempts < MaxInteger /\ row'[v] = MarkVideoDownloading(row[v])
            \/ row' = row /\ Finish(t, "failed")
      BY <1>1, <1>5 DEF ClaimVideo
    <3>2. Finish(t, "failed") => ~Working(t, v)'
      BY <1>1 DEF Finish, Working, Task
    <3>3. QED
      BY <2>3, <2>4, <2>5, <3>1, <3>2
<1>6. CASE EndDownload(t)
  <2>1. /\ mailbox' = mailbox /\ task[t].pc = "downloading" /\ task[t].video \in Videos
        /\ task'[t].video = task[t].video /\ ~Working(t, v)'
    BY <1>1, <1>6 DEF EndDownload, Finish, Task, Working
  <2>2. OwnedByReport(v)' => OwnedByReport(v)
    BY <2>1 DEF OwnedByReport, Reported
  <2>3. Owns(t, v)' => Owns(t, v)
    BY <2>1 DEF Owns
  <2>4. CASE row'[v] = row[v]
    BY <1>2, <1>4, <2>1, <2>2, <2>3, <2>4, SettledKept
  <2>5. CASE row'[v] # row[v]
    <3>1. task[t].video = v /\ task'[t].pc = "finished" /\ task'[t].outcome = "success"
      BY <1>1, <1>6, <2>5 DEF EndDownload, Finish, Task
    <3>2. ~Owns(t, v)'
      BY <3>1 DEF Owns
    <3>3. ~OwnedByReport(v) /\ \A u \in Tasks : Owns(u, v) => u = t
      BY <1>2, <2>1, <3>1 DEF Settled, Working
    <3>4. \A u \in Tasks : ~Owns(u, v)'
      BY <1>3, <3>2, <3>3 DEF Owns
    <3>5. \A u \in Tasks : ~Working(u, v)'
      BY <3>4 DEF Working, Owns
    <3>6. QED
      BY <2>2, <3>3, <3>4, <3>5 DEF Settled, Outstanding, OwnedByTask
  <2>6. QED
    BY <2>4, <2>5
<1>7. CASE TellReportOutcome(t)
  <2> DEFINE sent == [kind |-> "ReportOutcome", video |-> task[t].video,
                      outcome |-> task[t].outcome]
  <2>1. PICK m \in Message : /\ m.kind = "ReportOutcome" /\ m.video = task[t].video
                             /\ m.outcome = task[t].outcome /\ Tell(m)
    <3>1. sent \in Message /\ Tell(sent)
      BY <1>1, <1>7 DEF TellReportOutcome, Message
    <3>2. QED
      BY <3>1
  <2>2. row' = row /\ task[t].pc = "reporting" /\ ~Owns(t, v)' /\ ~Working(t, v)'
    BY <1>1, <1>7 DEF TellReportOutcome, Owns, Working, UnusedTask
  <2>3. OwnedByReport(v)' => OwnedByReport(v) \/ Owns(t, v)
    <3>1. OwnedByReport(v)' => OwnedByReport(v) \/ Report(m, v)
      BY <1>1, <2>1, ReportSent
    <3>2. Report(m, v) => Owns(t, v)
      BY <1>1, <2>1, <2>2 DEF Report, Owns, Outcome
    <3>3. QED
      BY <3>1, <3>2
  <2>4. CASE ~Owns(t, v)
    BY <1>2, <1>4, <2>2, <2>3, <2>4, SettledKept
  <2>5. CASE Owns(t, v)
    <3>1. \A u \in Tasks : ~Working(u, v)'
      BY <1>2, <1>3, <2>2, <2>5 DEF Settled, Working
    <3>2. row'[v].status # "completed"
      BY <1>2, <2>2, <2>5 DEF Settled, Outstanding, OwnedByTask
    <3>3. QED
      BY <3>1, <3>2 DEF Settled
  <2>6. QED
    BY <2>4, <2>5
<1>8. CASE Acquire(t) \/ TellRegisterWorker(t) \/ AskStartDownload(t) \/ ReleasePermit(t)
           \/ TellDownloadCompleted(t)
  <2>1. row' = row
    BY <1>8 DEF Acquire, TellRegisterWorker, AskStartDownload, ReleasePermit,
                TellDownloadCompleted
  <2>2. Owns(t, v)' => Owns(t, v)
    BY <1>1, <1>2, <1>8, ConstantsAssumption
    DEF Acquire, TellRegisterWorker, AskStartDownload, ReleasePermit, TellDownloadCompleted,
        Move, Owns, Task, UnusedTask, NoOutcomeYet, BeforeClaim, Outcome
  <2>3. ~Working(t, v)'
    BY <1>1, <1>8
    DEF Acquire, TellRegisterWorker, AskStartDownload, ReleasePermit, TellDownloadCompleted,
        Move, Working, Task, UnusedTask
  <2>4. mailbox' = mailbox \/ \E m \in Message : Tell(m) /\ m.kind # "ReportOutcome"
    <3>1. TellRegisterWorker(t) =>
            [kind |-> "RegisterWorker", video |-> task[t].video, worker |-> t] \in Message
      BY <1>1 DEF TellRegisterWorker, Message
    <3>2. TellDownloadCompleted(t) =>
            [kind |-> "DownloadCompleted", video |-> task[t].video] \in Message
      BY <1>1 DEF TellDownloadCompleted, Message
    <3>3. QED
      BY <1>8, <3>1, <3>2
      DEF Acquire, TellRegisterWorker, AskStartDownload, ReleasePermit, TellDownloadCompleted
  <2>5. OwnedByReport(v)' => OwnedByReport(v)
    BY <1>1, <2>4, ReportsAfter DEF Report
  <2>6. QED
    BY <1>2, <1>4, <2>1, <2>2, <2>3, <2>5, SettledKept
<1>9. QED
  BY <1>5, <1>6, <1>7, <1>8 DEF TaskStep

LEMMA AllSettledNext ==
  ASSUME Unattended, AttemptInv, Next
  PROVE  AllSettled'
<1>1. SUFFICES ASSUME ~Faulty', NEW v \in Videos PROVE Settled(v)'
  BY DEF AllSettled
<1>2. ~Faulty
  BY <1>1, UnattendedFacts
<1>3. Settled(v)
  BY <1>2 DEF AttemptInv, AllSettled
<1>4. QED
  BY <1>2, <1>3, SettledTask, SettledElsewhere

LEMMA AttemptInvInit == Init => AttemptInv
<1> SUFFICES ASSUME Init PROVE AttemptInv
  OBVIOUS
<1>1. NobodyAsks /\ ListedCount /\ DispatchesCount /\ CrashesCount
  BY DEF Init, NobodyAsks, ListedCount, DispatchesCount, CrashesCount, BeforeClaim, IdleClient,
         UnusedTask, Counted
<1>2. \A v \in Videos : row[v].attempts = 0 /\ ~row[v].skip_quality_gate
  BY DEF Init, Absent, NewVideo
<1>3. Limit \in Nat /\ Limit >= MaxAttempts
  BY MaxAttemptsAssumption DEF Limit
<1>4. RowsCount
  BY <1>2, <1>3, MaxAttemptsAssumption DEF RowsCount, CountHolds, RetriesLeft, Counted
<1>5. VerdictHolds /\ NoneReleased
  BY <1>2, ConstantsAssumption DEF Init, VerdictHolds, NoneReleased, Verdict
<1>6. AllSettled
  BY DEF Init, AllSettled, Settled, Working, Outstanding, OwnedByTask, OwnedByReport, Owns,
         Reported, UnusedTask
<1>7. QED
  BY <1>1, <1>4, <1>5, <1>6, GateInvInit DEF AttemptInv, Counts

LEMMA AttemptInvNext == Unattended /\ AttemptInv /\ [Next]_vars => AttemptInv'
<1> SUFFICES ASSUME Unattended, AttemptInv, [Next]_vars PROVE AttemptInv'
  OBVIOUS
<1>1. GateInv' /\ CrashesCount'
  BY UnattendedFacts
<1>2. CASE UNCHANGED vars
  <2>1. NobodyAsks' /\ Counts'
    BY <1>2
    DEF vars, configVars, supervisorVars, AttemptInv, NobodyAsks, Counts, RowsCount,
        DispatchesCount, ListedCount, CountHolds, BeforeClaim, Claimable, RetriesLeft, Limit,
        Faulty, Counted, Waiting
  <2>2. VerdictHolds' /\ NoneReleased' /\ AllSettled'
    BY <1>2
    DEF vars, configVars, supervisorVars, AttemptInv, VerdictHolds, VerdictFor, NoneReleased,
        AllSettled, Settled, Working, Outstanding, OwnedByTask, OwnedByReport, Owns, Reported,
        BeforeClaim, Faulty, Counted
  <2>3. QED
    BY <1>1, <2>1, <2>2 DEF AttemptInv
<1>3. CASE Next
  <2>1. NobodyAsks'
    BY <1>3, NobodyAsksNext
  <2>2. Counts'
    BY <1>3, CountsSupervisor, CountsTask, CountsClient, CountsEnvironment DEF Next
  <2>3. VerdictHolds' /\ NoneReleased' /\ AllSettled'
    BY <1>3, VerdictNext, NoneReleasedNext, AllSettledNext
  <2>4. QED
    BY <1>1, <2>1, <2>2, <2>3 DEF AttemptInv
<1>4. QED
  BY <1>2, <1>3

\* While nobody asks for downloads, and without crashes, the pipeline claims a
\* video at most max_attempts times, deferrals not counted, and once more after a
\* statement has failed, however its claims, the two halves of its reports, its
\* sweeps and removals interleave.
THEOREM AttemptsStayBounded ==
  Unattended /\ Counted => (Spec => []AttemptsBounded)
<1> SUFFICES ASSUME Unattended, Counted PROVE Spec => []AttemptsBounded
  OBVIOUS
<1>1. AttemptInv /\ [Next]_vars => AttemptInv'
  BY AttemptInvNext
<1>2. AttemptInv => AttemptsBounded
  BY DEF AttemptInv, Counts, RowsCount, CountHolds, Limit, AttemptsBounded
<1>3. QED
  BY AttemptInvInit, <1>1, <1>2, PTL DEF Spec

\* While nobody asks for downloads and no statement fails, only a removal takes a
\* video out of `completed`: no task claims it again, and no failure or deferral
\* is left that could be written over it.
THEOREM CompletedStaysDownloaded == Unattended => (Spec => CompletedStaysCompleted)
<1> SUFFICES ASSUME Unattended PROVE Spec => CompletedStaysCompleted
  OBVIOUS
<1>1. AttemptInv /\ [Next]_vars => AttemptInv'
  BY AttemptInvNext
<1>2. ASSUME AttemptInv, [Next]_vars
      PROVE  [\A v \in Videos : row[v].status = "completed" /\ ~Faulty'
                => row'[v].status \in {"completed", "cleaned", "absent"}]_vars
  <2> SUFFICES ASSUME Next, NEW v \in Videos, row[v].status = "completed", ~Faulty'
               PROVE  row'[v].status \in {"completed", "cleaned", "absent"}
    BY <1>2
  <2>1. row[v] \in Row /\ DispatchesCount /\ ~Faulty
    BY <1>2, AttemptFacts, UnattendedFacts
  <2>2. ~(Reported(1, v) /\ 1 \in DOMAIN mailbox)
    BY <1>2, <2>1 DEF AttemptInv, AllSettled, Settled, Outstanding, OwnedByReport
  <2>3. \A t \in Tasks : ~(ClaimVideo(t) /\ task[t].video = v)
    BY <2>1 DEF DispatchesCount, Claimable, ClaimVideo, BeforeClaim
  <2>4. /\ MarkVideoCompleted(row[v]).status = "completed"
        /\ [row[v] EXCEPT !.next_retry = "due"].status = "completed"
    BY <2>1, StatusAfter
  <2>5. UpdateVideoStatus(row[v], "cleaned").status = "cleaned" /\ Absent.status = "absent"
    BY <2>1, StatusAfter DEF VideoStatus, Absent
  <2>6. ResetStuckDownload(row[v]).status = "completed"
    BY DEF ResetStuckDownload
  <2>7. QED
    BY <1>2, <2>2, <2>3, <2>4, <2>5, <2>6, RowsAfter
<1>3. QED
  BY AttemptInvInit, <1>1, <1>2, PTL DEF Spec, CompletedStaysCompleted
=============================================================================
