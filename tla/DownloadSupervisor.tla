------------------------- MODULE DownloadSupervisor -------------------------
(***************************************************************************)
(* The download pipeline of hof-core: the DownloadSupervisor actor, the    *)
(* detached tasks it spawns, the DownloadWorker each task drives, the rows *)
(* they write, and the clients (indexer, HTTP handlers, cleanup) that race *)
(* with them.                                                              *)
(*                                                                         *)
(* The supervisor handles one message of its bounded FIFO mailbox at a     *)
(* time.  A handler is one atomic action, with two exceptions that await   *)
(* the database between a read and what they do with it: the sweep, which  *)
(* is a step that lists the backlog and one step per listed video, and     *)
(* the report of a failure, which reads the attempts in one step and       *)
(* writes the row in another.  A dispatch spawns a task that runs          *)
(* concurrently with everything else and talks to the supervisor only      *)
(* through the mailbox.                                                    *)
(*                                                                         *)
(* Pacing (last_download_start, the rate-limit multiplier, the sleep of a  *)
(* dispatched task) decides only how long a task stays "parked"; a parked  *)
(* task may stay so for any time, so none of it is state of this module.   *)
(***************************************************************************)
EXTENDS VideoRow, Sequences, FiniteSets

CONSTANTS
  Videos,      \* ids of the `videos` table
  Linked,      \* the videos that have a linked source
  Tasks,       \* slots for detached dispatch tasks (bound: live at once)
  Clients,     \* concurrent indexer, HTTP and cleanup flows
  None,        \* "no value"
  Targets,     \* values `max_concurrent_downloads` may take
  MailboxCap,  \* capacity of the supervisor's mailbox
  MaxInteger,  \* largest value of an INTEGER column (bound on attempts)
  Operations,  \* the client operations a model exercises
  Budget       \* how often each environment event may occur

BudgetKeys == {"requests", "faults", "changes", "pauses", "restarts", "crashes"}

ClientOps == {"discover", "retry", "download_now", "cancel", "delete", "clean"}

\* How a download ended.
Outcome == {"success", "failed", "deferred"}

ASSUME ConstantsAssumption ==
  /\ Linked \subseteq Videos
  /\ IsFiniteSet(Tasks) /\ IsFiniteSet(Videos)
  /\ None \notin Videos \cup Tasks \cup Outcome \cup Verdict
  /\ Targets \subseteq Nat /\ Targets # {}
  /\ MailboxCap \in Nat \ {0}
  /\ MaxInteger \in Nat /\ MaxInteger > MaxAttempts
  /\ Operations \subseteq ClientOps
  /\ Budget \in [BudgetKeys -> Nat]

VARIABLES
  row,             \* the videos table
  mailbox,         \* messages the supervisor has not handled yet
  sweep,           \* what the running ProcessPendingDownloads has yet to visit
  verdict,         \* what the running ReportOutcome decided and has yet to write
  active,          \* active_downloads: the task whose worker is registered
  dispatching,     \* videos with an in-flight dispatch reservation
  incarnation,     \* which instance of the supervisor runs; owns semaphore k
  free,            \* available permits of each semaphore
  permits_total,   \* permits each semaphore is sized to, held ones included
  target,          \* max_concurrent_downloads in the runtime configuration
  unseen,          \* the resize watcher has yet to observe a change of target
  paused,          \* downloads_paused
  draining,        \* the DrainToken has been begun
  drained,         \* the drain watcher saw quiescence (its deadline is left out)
  db_retry_after,  \* database backoff of the sweep, relative to now
  task,            \* the detached tasks and the workers they drive
  client,          \* the flows that act on videos from outside
  budget           \* what is left of Budget

supervisorVars == <<sweep, verdict, active, dispatching, incarnation, free, permits_total,
                    db_retry_after>>
configVars == <<target, unseen, paused, draining, drained>>
vars == <<row, mailbox, supervisorVars, configVars, task, client, budget>>

-----------------------------------------------------------------------------
(* Types *)

PC == {"unused", "parked", "spawned", "registered", "queued", "downloading",
       "finished", "released", "reporting"}

Incarnation == 1 .. Budget["restarts"] + 1

Task == [pc : PC, video : Videos \cup {None}, semaphore : Incarnation,
         outcome : Outcome \cup {None}, stopped : BOOLEAN, gated : BOOLEAN]

UnusedTask == [pc |-> "unused", video |-> None, semaphore |-> 1,
               outcome |-> None, stopped |-> FALSE, gated |-> FALSE]

Message ==
       [kind : {"EnqueueDownload"}, video : Videos, snapshot : Snapshot]
  \cup [kind : {"RegisterWorker"}, video : Videos, worker : Tasks]
  \cup [kind : {"DownloadCompleted", "CancelDownload"}, video : Videos]
  \cup [kind : {"ReportOutcome"}, video : Videos, outcome : Outcome]
  \cup [kind : {"ApplySemaphoreTarget"}, target : Targets]
  \cup [kind : {"ProcessPendingDownloads", "GetSupervisorStatus"}]

ClientPC == {"idle", "reset", "reread", "release", "enqueue", "cancel", "delete", "clean"}

Client == [pc : ClientPC, op : ClientOps \cup {None}, video : Videos \cup {None},
           snapshot : Snapshot \cup {None}]

IdleClient == [pc |-> "idle", op |-> None, video |-> None, snapshot |-> None]

\* Every variable keeps its type; in particular the subtractions of
\* resize_semaphore and of drop(permit) never leave the natural numbers.
TypeOK ==
  /\ row \in [Videos -> Row]
  /\ mailbox \in Seq(Message)
  /\ sweep \subseteq [video : Videos, snapshot : Snapshot]
  /\ verdict \in Verdict \cup {None}
  /\ active \in [Videos -> Tasks \cup {None}]
  /\ dispatching \subseteq Videos
  /\ incarnation \in Incarnation
  /\ free \in [Incarnation -> Nat]
  /\ permits_total \in [Incarnation -> Nat]
  /\ target \in Targets
  /\ unseen \in BOOLEAN /\ paused \in BOOLEAN
  /\ draining \in BOOLEAN /\ drained \in BOOLEAN
  /\ db_retry_after \in RetryTime
  /\ task \in [Tasks -> Task]
  /\ client \in [Clients -> Client]
  /\ budget \in [BudgetKeys -> Nat]

-----------------------------------------------------------------------------
(* Helpers *)

Spend(key) == budget[key] > 0 /\ budget' = [budget EXCEPT ![key] = @ - 1]

\* A message takes up room until its handler runs.  A ReportOutcome that is
\* being handled stays the head of `mailbox` until it is done.
Full == Len(mailbox) - (IF verdict = None THEN 0 ELSE 1) >= MailboxCap

\* tell() and ask() wait for room in the bounded mailbox.
Tell(m) == ~Full /\ mailbox' = Append(mailbox, m)

\* No handler is running.
Idle == sweep = {} /\ verdict = None

\* The next message, once no handler is running.
Receive(kind) ==
  /\ Idle
  /\ mailbox # <<>>
  /\ Head(mailbox).kind = kind
  /\ mailbox' = Tail(mailbox)

Found(v) == row[v].status # "absent"

Refusing == paused \/ draining

\* Tasks that own a dispatch: from the spawn to the DownloadCompleted they send.
Live(t) == task[t].pc \notin {"unused", "reporting"}

HoldsPermit(t) == task[t].pc \in {"spawned", "registered", "queued", "downloading", "finished"}

Holders(k) == {t \in Tasks : HoldsPermit(t) /\ task[t].semaphore = k}

Queued(kind, v) ==
  \E i \in DOMAIN mailbox : mailbox[i].kind = kind /\ mailbox[i].video = v

\* The bound on Tasks: a sweep or an enqueue is offered to the supervisor only
\* while the free slots cover every dispatch that is already on its way.
SlotsFor(n) ==
  LET onTheirWay == {i \in DOMAIN mailbox : mailbox[i].kind = "EnqueueDownload"}
      sweeps     == {i \in DOMAIN mailbox : mailbox[i].kind = "ProcessPendingDownloads"}
      unused     == {t \in Tasks : task[t].pc = "unused"}
  IN  Cardinality(unused) >= n + Cardinality(sweep) + Cardinality(onTheirWay)
                               + Cardinality(sweeps) * Cardinality(Videos)

Move(t, pc) == task' = [task EXCEPT ![t].pc = pc]

\* stop_gracefully on a worker: the stop waits behind a StartDownload the
\* worker has already been sent, so it only prevents one still to be sent.
StopWorkers(workers) ==
  task' = [t \in Tasks |->
             IF t \in workers /\ task[t].pc = "registered"
             THEN [task[t] EXCEPT !.stopped = TRUE] ELSE task[t]]

\* Mutant: the shrink forgets more permits than are free.
ResizeSemaphoreUnchecked(n) ==
  LET k == incarnation
  IN  /\ free' = [free EXCEPT ![k] = @ + (n - permits_total[k])]
      /\ permits_total' = [permits_total EXCEPT ![k] = n]

\* Mutant: the size is set to the target although permits are still held.
ResizeSemaphoreAssumed(n) ==
  LET k == incarnation
      excess == permits_total[k] - n
  IN  /\ free' = [free EXCEPT ![k] = IF excess < @ THEN @ - excess ELSE 0]
      /\ permits_total' = [permits_total EXCEPT ![k] = n]

\* resize_semaphore: growth is immediate, a shrink takes only free permits.
ResizeSemaphore(n) ==
  LET k == incarnation
      excess  == permits_total[k] - n
      removed == IF excess < free[k] THEN excess ELSE free[k]
  IN  IF n >= permits_total[k]
      THEN /\ free' = [free EXCEPT ![k] = @ + (n - permits_total[k])]
           /\ permits_total' = [permits_total EXCEPT ![k] = n]
      ELSE /\ free' = [free EXCEPT ![k] = @ - removed]
           /\ permits_total' = [permits_total EXCEPT ![k] = @ - removed]

\* Mutant: only a registered worker is in the way of a dispatch.
ReservableUnlessActive(v) == active[v] = None

\* reserve_dispatch refuses a video that is active or already reserved.
Reservable(v) == active[v] = None /\ v \notin dispatching

\* Mutants: only one of the two records of a dispatch is dropped.
ForgetWorker(v) == active' = [active EXCEPT ![v] = None] /\ UNCHANGED dispatching
ForgetReservation(v) == dispatching' = dispatching \ {v} /\ UNCHANGED active

\* The two removals that end a dispatch in the supervisor's books.
ForgetDispatch(v) ==
  /\ active' = [active EXCEPT ![v] = None]
  /\ dispatching' = dispatching \ {v}

\* dispatch_download: refuse, or reserve the video and spawn its task, which
\* first waits for a permit of the semaphore of this incarnation.
DispatchDownload(v, snapshot) ==
  \/ /\ \/ Refusing
        \/ \E elapsed \in BOOLEAN : ~Eligible(snapshot, elapsed)
        \/ ~Reservable(v)
     /\ UNCHANGED <<task, dispatching>>
  \/ /\ ~Refusing
     /\ \E elapsed \in BOOLEAN : Eligible(snapshot, elapsed)
     /\ Reservable(v)
     /\ dispatching' = dispatching \cup {v}
     /\ \E t \in Tasks :
          /\ task[t].pc = "unused"
          /\ task' = [task EXCEPT ![t] = [UnusedTask EXCEPT !.pc = "parked",
                                            !.video = v, !.semaphore = incarnation]]

-----------------------------------------------------------------------------
(* Message handlers of the supervisor *)

EnqueueDownload ==
  /\ Receive("EnqueueDownload")
  /\ DispatchDownload(Head(mailbox).video, Head(mailbox).snapshot)
  /\ UNCHANGED <<row, sweep, verdict, active, incarnation, free, permits_total, db_retry_after,
                 configVars, client, budget>>

RegisterWorker ==
  /\ Receive("RegisterWorker")
  /\ active' = [active EXCEPT ![Head(mailbox).video] = Head(mailbox).worker]
  /\ UNCHANGED <<row, sweep, verdict, dispatching, incarnation, free, permits_total, db_retry_after,
                 configVars, task, client, budget>>

\* Unregister by video id, drop the reservation, re-apply the current target.
DownloadCompleted ==
  /\ Receive("DownloadCompleted")
  /\ ForgetDispatch(Head(mailbox).video)
  /\ ResizeSemaphore(target)
  /\ UNCHANGED <<row, sweep, verdict, incarnation, db_retry_after, configVars, task, client,
                 budget>>

\* The reports that end in one step: a success, a deferral (one statement),
\* and whatever finds no row or meets a failed query, which is only logged.
ReportOutcome ==
  /\ Receive("ReportOutcome")
  /\ LET v == Head(mailbox).video
         o == Head(mailbox).outcome
     IN  \/ /\ o = "success"
            /\ UNCHANGED <<row, budget>>
         \/ /\ o = "deferred" /\ Found(v)
            /\ row' = [row EXCEPT ![v] = DeferVideoForQuality(@)]
            /\ UNCHANGED budget
         \/ /\ o # "success" /\ ~Found(v)
            /\ UNCHANGED <<row, budget>>
         \/ /\ o # "success"
            /\ Spend("faults")
            /\ UNCHANGED row
  /\ UNCHANGED <<supervisorVars, configVars, task, client>>

\* handle_failure reads the row and decides on the attempts it read ...
JudgeFailure ==
  /\ Idle /\ mailbox # <<>>
  /\ Head(mailbox).kind = "ReportOutcome" /\ Head(mailbox).outcome = "failed"
  /\ Found(Head(mailbox).video)
  /\ verdict' = Judge(row[Head(mailbox).video].attempts)
  /\ UNCHANGED <<row, mailbox, sweep, active, dispatching, incarnation, free, permits_total,
                 db_retry_after, configVars, task, client, budget>>

\* ... and writes the decision when a connection has been awaited again.  A
\* task may have claimed the row in between; a failed write is only logged.
RecordFailure ==
  /\ verdict # None
  /\ mailbox' = Tail(mailbox)
  /\ verdict' = None
  /\ LET v == Head(mailbox).video
     IN  \/ /\ Found(v)
            /\ row' = [row EXCEPT ![v] = MarkVideoFailed(@, verdict)]
            /\ UNCHANGED budget
         \/ /\ ~Found(v)
            /\ UNCHANGED <<row, budget>>
         \/ /\ Spend("faults")
            /\ UNCHANGED row
  /\ UNCHANGED <<sweep, active, dispatching, incarnation, free, permits_total, db_retry_after,
                 configVars, task, client>>

\* Mutant: a backoff window that never ends.
BackingOffForGood == db_retry_after # "none"

BackingOff == db_retry_after = "future"

\* note_db_failure arms the backoff window, note_db_recovered clears it.
ProcessPendingDownloads ==
  /\ Receive("ProcessPendingDownloads")
  /\ \/ /\ Refusing \/ BackingOff
        /\ UNCHANGED <<sweep, db_retry_after, budget>>
     \/ /\ ~Refusing /\ ~BackingOff
        /\ sweep' = {[video |-> v, snapshot |-> SnapshotOf(row[v])] :
                        v \in {w \in Videos : ReadyForDownload(row[w])}}
        /\ db_retry_after' = "none"
        /\ UNCHANGED budget
     \/ /\ ~Refusing /\ ~BackingOff
        /\ Spend("faults")
        /\ db_retry_after' = "future"
        /\ UNCHANGED sweep
  /\ UNCHANGED <<row, verdict, active, dispatching, incarnation, free, permits_total, configVars,
                 task, client>>

\* One iteration of the sweep's loop.  The list is ordered by created_at,
\* which the model leaves open.
SweepVideo ==
  \E s \in sweep :
     /\ \/ /\ s.video \in Linked
           /\ sweep' = sweep \ {s}
           /\ DispatchDownload(s.video, s.snapshot)
           /\ UNCHANGED <<db_retry_after, budget>>
        \/ /\ s.video \notin Linked
           /\ sweep' = sweep \ {s}
           /\ UNCHANGED <<task, dispatching, db_retry_after, budget>>
        \/ /\ Spend("faults")
           /\ sweep' = {}
           /\ db_retry_after' = "future"
           /\ UNCHANGED <<task, dispatching>>
     /\ UNCHANGED <<row, mailbox, verdict, active, incarnation, free, permits_total, configVars,
                    client>>

ApplySemaphoreTarget ==
  /\ Receive("ApplySemaphoreTarget")
  /\ ResizeSemaphore(Head(mailbox).target)
  /\ UNCHANGED <<row, sweep, verdict, active, dispatching, incarnation, db_retry_after, configVars,
                 task, client, budget>>

\* The registration and the reservation are dropped even when the status
\* write then fails and the caller is told so.
CancelDownload ==
  /\ Receive("CancelDownload")
  /\ LET v == Head(mailbox).video
     IN  /\ StopWorkers({active[v]} \ {None})
         /\ ForgetDispatch(v)
         /\ \/ /\ Found(v)
               /\ row' = [row EXCEPT ![v] = UpdateVideoStatus(@, "failed")]
               /\ UNCHANGED budget
            \/ /\ ~Found(v)
               /\ UNCHANGED <<row, budget>>
            \/ /\ Spend("faults")
               /\ UNCHANGED row
  /\ UNCHANGED <<sweep, verdict, incarnation, free, permits_total, db_retry_after, configVars,
                 client>>

\* Mutant: reservations are not counted.
QuiescentButReserved == \A v \in Videos : active[v] = None

Quiescent == dispatching = {} /\ \A v \in Videos : active[v] = None

\* The drain watcher's probe: live_quiescence_counts and poll_until_quiescent.
GetSupervisorStatus ==
  /\ Receive("GetSupervisorStatus")
  /\ drained' = (drained \/ Quiescent)
  /\ UNCHANGED <<row, supervisorVars, target, unseen, paused, draining, task, client, budget>>

-----------------------------------------------------------------------------
(* The detached task and the worker it drives *)

Acquire(t) ==
  /\ task[t].pc = "parked"
  /\ free[task[t].semaphore] > 0
  /\ free' = [free EXCEPT ![task[t].semaphore] = @ - 1]
  /\ Move(t, "spawned")
  /\ UNCHANGED <<row, mailbox, sweep, verdict, active, dispatching, incarnation, permits_total,
                 db_retry_after, configVars, client, budget>>

TellRegisterWorker(t) ==
  /\ task[t].pc = "spawned"
  /\ Tell([kind |-> "RegisterWorker", video |-> task[t].video, worker |-> t])
  /\ Move(t, "registered")
  /\ UNCHANGED <<row, supervisorVars, configVars, client, budget>>

\* ask(StartDownload): fails at once when the worker has been stopped.
AskStartDownload(t) ==
  /\ task[t].pc = "registered"
  /\ Move(t, IF task[t].stopped THEN "finished" ELSE "queued")
  /\ UNCHANGED <<row, mailbox, supervisorVars, configVars, client, budget>>

Finish(t, outcome) ==
  task' = [task EXCEPT ![t].pc = "finished", ![t].outcome = outcome, ![t].gated = FALSE]

\* Mutant: the flag of "Download now" is not read.
QualityGateUnskipped(v, gated) == UNCHANGED budget

\* quality_gate: off when the profile has none or the video was released; the
\* gate stays on for a released video whose flag cannot be read.
QualityGate(v, gated) ==
  IF row[v].skip_quality_gate /\ gated THEN Spend("faults") ELSE UNCHANGED budget

\* execute_download, first half: claim the row and resolve the quality gate.
\* The claim fails when the row is gone, its attempt counter is out of range, or by a fault.
ClaimVideo(t) ==
  LET v == task[t].video
      claimable == Found(v) /\ row[v].attempts < MaxInteger
  IN  /\ task[t].pc = "queued"
      /\ \/ /\ claimable
            /\ row' = [row EXCEPT ![v] = MarkVideoDownloading(@)]
            /\ \E gated \in BOOLEAN :
                 /\ task' = [task EXCEPT ![t].pc = "downloading", ![t].gated = gated]
                 /\ QualityGate(v, gated)
         \/ /\ ~claimable
            /\ Finish(t, "failed")
            /\ UNCHANGED <<row, budget>>
         \/ /\ Spend("faults")
            /\ Finish(t, "failed")
            /\ UNCHANGED row
      /\ UNCHANGED <<mailbox, supervisorVars, configVars, client>>

\* execute_download, second half.  A completed download is reported as a
\* success even when the row could not be marked completed.
EndDownload(t) ==
  LET v == task[t].video
  IN  /\ task[t].pc = "downloading"
      /\ \/ /\ Found(v)
            /\ row' = [row EXCEPT ![v] = MarkVideoCompleted(@)]
            /\ Finish(t, "success")
            /\ UNCHANGED budget
         \/ /\ ~Found(v)
            /\ Finish(t, "success")
            /\ UNCHANGED <<row, budget>>
         \/ /\ Spend("faults")
            /\ Finish(t, "success")
            /\ UNCHANGED row
         \/ /\ Finish(t, "failed")
            /\ UNCHANGED <<row, budget>>
         \/ /\ task[t].gated
            /\ Finish(t, "deferred")
            /\ UNCHANGED <<row, budget>>
      /\ UNCHANGED <<mailbox, supervisorVars, configVars, client>>

\* Mutant: the permit goes to the semaphore of the running incarnation.
ReleaseToCurrent(t) ==
  /\ task[t].pc = "finished"
  /\ free' = [free EXCEPT ![incarnation] = @ + 1]
  /\ Move(t, "released")
  /\ UNCHANGED <<row, mailbox, sweep, verdict, active, dispatching, incarnation, permits_total,
                 db_retry_after, configVars, client, budget>>

\* drop(permit), strictly before DownloadCompleted is sent.
ReleasePermit(t) ==
  /\ task[t].pc = "finished"
  /\ free' = [free EXCEPT ![task[t].semaphore] = @ + 1]
  /\ Move(t, "released")
  /\ UNCHANGED <<row, mailbox, sweep, verdict, active, dispatching, incarnation, permits_total,
                 db_retry_after, configVars, client, budget>>

TellDownloadCompleted(t) ==
  /\ task[t].pc = "released"
  /\ Tell([kind |-> "DownloadCompleted", video |-> task[t].video])
  /\ task' = [task EXCEPT ![t] = IF @.outcome = None THEN UnusedTask
                                 ELSE [@ EXCEPT !.pc = "reporting"]]
  /\ UNCHANGED <<row, supervisorVars, configVars, client, budget>>

TellReportOutcome(t) ==
  /\ task[t].pc = "reporting"
  /\ Tell([kind |-> "ReportOutcome", video |-> task[t].video, outcome |-> task[t].outcome])
  /\ task' = [task EXCEPT ![t] = UnusedTask]
  /\ UNCHANGED <<row, supervisorVars, configVars, client, budget>>

TaskStep(t) ==
  \/ TellRegisterWorker(t) \/ AskStartDownload(t) \/ ClaimVideo(t) \/ EndDownload(t)
  \/ ReleasePermit(t) \/ TellDownloadCompleted(t) \/ TellReportOutcome(t)

-----------------------------------------------------------------------------
(* Clients: the indexer, the HTTP handlers and the cleanup actor.  Each     *)
(* reads the row, decides, and acts later on what it read.                  *)

\* The statuses each operation accepts when it first reads the row.
Accepts(op) ==
  CASE op = "discover"     -> {"absent"}
    [] op = "retry"        -> {"failed", "permanently_failed", "cleaned"}
    [] op = "download_now" -> {"awaiting_quality"}
    [] op = "cancel"       -> {"pending", "awaiting_quality", "downloading"}
    [] op = "delete"       -> VideoStatus \ {"downloading"}
    [] op = "clean"        -> {"completed"}

\* Where each operation continues after that read.
Second(op) ==
  CASE op = "discover"     -> "reread"
    [] op = "retry"        -> "reset"
    [] op = "download_now" -> "release"
    [] op = "cancel"       -> "cancel"
    [] op = "delete"       -> "delete"
    [] op = "clean"        -> "clean"

clientUnchanged == <<supervisorVars, configVars, task>>

Proceed(c, pc) == client' = [client EXCEPT ![c].pc = pc]

Leave(c) == client' = [client EXCEPT ![c] = IdleClient]

\* The read, and for a video the table does not hold the indexer's insert.
BeginOperation(c) ==
  /\ client[c].pc = "idle"
  /\ \E op \in Operations, v \in Videos :
       /\ row[v].status \in Accepts(op)
       /\ client' = [client EXCEPT ![c] = [IdleClient EXCEPT !.pc = Second(op), !.op = op,
                                                             !.video = v]]
       /\ row' = [row EXCEPT ![v] = IF op = "discover" THEN UpsertVideo(@) ELSE @]
  /\ Spend("requests")
  /\ UNCHANGED <<clientUnchanged, mailbox>>

\* update_video_status(Pending), whatever the status has become meanwhile.
ResetToPending(c) ==
  LET v == client[c].video
  IN  /\ client[c].pc = "reset"
      /\ Found(v)
      /\ row' = [row EXCEPT ![v] = UpdateVideoStatus(@, "pending")]
      /\ Proceed(c, "reread")
      /\ UNCHANGED <<clientUnchanged, mailbox, budget>>

\* The snapshot EnqueueDownload will carry.  Only the indexer checks it.
RereadVideo(c) ==
  LET v == client[c].video
  IN  /\ client[c].pc = "reread"
      /\ Found(v) /\ v \in Linked
      /\ client[c].op = "discover" => row[v].status = "pending"
      /\ client' = [client EXCEPT ![c].pc = "enqueue", ![c].snapshot = SnapshotOf(row[v])]
      /\ UNCHANGED <<clientUnchanged, row, mailbox, budget>>

\* release_from_quality_gate ... RETURNING, guarded by its WHERE clause.
ReleaseVideo(c) ==
  LET v == client[c].video
  IN  /\ client[c].pc = "release"
      /\ row[v].status = "awaiting_quality" /\ v \in Linked
      /\ row' = [row EXCEPT ![v] = ReleaseFromQualityGate(@)]
      /\ client' = [client EXCEPT ![c].pc = "enqueue", ![c].snapshot = SnapshotOf(row'[v])]
      /\ UNCHANGED <<clientUnchanged, mailbox, budget>>

TellEnqueueDownload(c) ==
  /\ client[c].pc = "enqueue"
  /\ SlotsFor(1)
  /\ Tell([kind |-> "EnqueueDownload", video |-> client[c].video,
           snapshot |-> client[c].snapshot])
  /\ Leave(c)
  /\ UNCHANGED <<clientUnchanged, row, budget>>

AskCancelDownload(c) ==
  /\ client[c].pc = "cancel"
  /\ Tell([kind |-> "CancelDownload", video |-> client[c].video])
  /\ Leave(c)
  /\ UNCHANGED <<clientUnchanged, row, budget>>

\* delete_video removes the row; clean_video and delete_one mark it cleaned.
RemoveVideo(c) ==
  LET v == client[c].video
  IN  /\ client[c].pc \in {"delete", "clean"} /\ Found(v)
      /\ \/ client[c].pc = "delete" /\ row' = [row EXCEPT ![v] = Absent]
         \/ client[c].pc = "clean" /\ row' = [row EXCEPT ![v] = UpdateVideoStatus(@, "cleaned")]
      /\ Leave(c)
      /\ UNCHANGED <<clientUnchanged, mailbox, budget>>

\* Any failed query, missing row or dropped request ends a flow where it is.
AbandonOperation(c) ==
  /\ client[c].pc # "idle"
  /\ Leave(c)
  /\ UNCHANGED <<clientUnchanged, row, mailbox, budget>>

ClientStep(c) ==
  \/ BeginOperation(c) \/ ResetToPending(c) \/ RereadVideo(c) \/ ReleaseVideo(c)
  \/ TellEnqueueDownload(c) \/ AskCancelDownload(c) \/ RemoveVideo(c) \/ AbandonOperation(c)

-----------------------------------------------------------------------------
(* Timers, configuration, drain, restart, crash *)

\* The scheduler's tick.  A second sweep queued behind one that has not run
\* yet would list nothing new, so at most one is queued.
SchedulerTick ==
  /\ SlotsFor(Cardinality(Videos))
  /\ \A i \in DOMAIN mailbox : mailbox[i].kind # "ProcessPendingDownloads"
  /\ Tell([kind |-> "ProcessPendingDownloads"])
  /\ UNCHANGED <<row, supervisorVars, configVars, task, client, budget>>

RetryBecomesDue(v) ==
  /\ row[v].next_retry = "future"
  /\ row' = [row EXCEPT ![v].next_retry = "due"]
  /\ UNCHANGED <<mailbox, supervisorVars, configVars, task, client, budget>>

DbBackoffElapses ==
  /\ db_retry_after = "future"
  /\ db_retry_after' = "due"
  /\ UNCHANGED <<row, mailbox, sweep, verdict, active, dispatching, incarnation, free,
                 permits_total, configVars, task, client, budget>>

SetTarget ==
  /\ Spend("changes")
  /\ \E n \in Targets \ {target} : target' = n
  /\ unseen' = TRUE
  /\ UNCHANGED <<row, mailbox, supervisorVars, paused, draining, drained, task, client>>

\* The watcher of on_start: deliver the new target, or drop it when the
\* mailbox stays full for RESIZE_SEND_TIMEOUT.
WatchTarget ==
  /\ unseen
  /\ unseen' = FALSE
  /\ \/ Tell([kind |-> "ApplySemaphoreTarget", target |-> target])
     \/ Full /\ UNCHANGED mailbox
  /\ UNCHANGED <<row, supervisorVars, target, paused, draining, drained, task, client, budget>>

TogglePause ==
  /\ Spend("pauses")
  /\ paused' = ~paused
  /\ UNCHANGED <<row, mailbox, supervisorVars, target, unseen, draining, drained, task, client>>

BeginDrain ==
  /\ Spend("pauses")
  /\ ~draining
  /\ draining' = TRUE
  /\ UNCHANGED <<row, mailbox, supervisorVars, target, unseen, paused, drained, task, client>>

\* The drain watcher asks again until it is answered with quiescence.
ProbeQuiescence ==
  /\ draining /\ ~drained
  /\ \A i \in DOMAIN mailbox : mailbox[i].kind # "GetSupervisorStatus"
  /\ Tell([kind |-> "GetSupervisorStatus"])
  /\ UNCHANGED <<row, supervisorVars, configVars, task, client, budget>>

\* A panic or a kill: on_stop stops the registered workers, the mailbox and
\* the detached tasks survive, a new instance starts with a new semaphore.
\* A handler killed at an await loses the message it was handling.  (The
\* backlog kick that follows an operator's restart is a SchedulerTick.)
RestartSupervisor ==
  /\ Spend("restarts")
  /\ incarnation' = incarnation + 1
  /\ sweep' = {} /\ verdict' = None
  /\ StopWorkers({active[v] : v \in Videos} \ {None})
  /\ active' = [v \in Videos |-> None]
  /\ dispatching' = {}
  /\ free' = [free EXCEPT ![incarnation + 1] = target]
  /\ permits_total' = [permits_total EXCEPT ![incarnation + 1] = target]
  /\ db_retry_after' = "none"
  /\ \/ verdict = None /\ UNCHANGED mailbox
     \/ mailbox # <<>> /\ sweep = {} /\ mailbox' = Tail(mailbox)
  /\ UNCHANGED <<row, configVars, client>>

\* In a new process the current semaphore is the only one.
FreshSemaphore(current, n) == [k \in Incarnation |-> IF k = current THEN n ELSE 0]

\* The process dies and boots again: only the tables survive.
CrashAndBoot ==
  /\ Spend("crashes")
  /\ row' = [v \in Videos |-> ResetStuckDownload(row[v])]
  /\ mailbox' = <<[kind |-> "ProcessPendingDownloads"]>>
  /\ sweep' = {} /\ verdict' = None
  /\ active' = [v \in Videos |-> None]
  /\ dispatching' = {}
  /\ free' = FreshSemaphore(incarnation, target)
  /\ permits_total' = FreshSemaphore(incarnation, target)
  /\ db_retry_after' = "none"
  /\ unseen' = FALSE /\ draining' = FALSE /\ drained' = FALSE
  /\ task' = [t \in Tasks |-> UnusedTask]
  /\ client' = [c \in Clients |-> IdleClient]
  /\ UNCHANGED <<incarnation, target, paused>>

-----------------------------------------------------------------------------

Init ==
  /\ row \in [Videos -> {Absent, NewVideo}]
  /\ mailbox = <<[kind |-> "ProcessPendingDownloads"]>>
  /\ sweep = {} /\ verdict = None
  /\ active = [v \in Videos |-> None]
  /\ dispatching = {}
  /\ incarnation = 1
  /\ target \in Targets
  /\ free = FreshSemaphore(1, target)
  /\ permits_total = FreshSemaphore(1, target)
  /\ unseen = FALSE /\ paused = FALSE /\ draining = FALSE /\ drained = FALSE
  /\ db_retry_after = "none"
  /\ task = [t \in Tasks |-> UnusedTask]
  /\ client = [c \in Clients |-> IdleClient]
  /\ budget = Budget

SupervisorStep ==
  \/ EnqueueDownload \/ RegisterWorker \/ DownloadCompleted
  \/ ReportOutcome \/ JudgeFailure \/ RecordFailure
  \/ ProcessPendingDownloads \/ SweepVideo \/ ApplySemaphoreTarget \/ CancelDownload
  \/ GetSupervisorStatus

Environment ==
  \/ SchedulerTick \/ DbBackoffElapses \/ SetTarget \/ WatchTarget \/ TogglePause
  \/ BeginDrain \/ ProbeQuiescence \/ RestartSupervisor \/ CrashAndBoot
  \/ \E v \in Videos : RetryBecomesDue(v)

Next ==
  \/ SupervisorStep
  \/ \E t \in Tasks : Acquire(t) \/ TaskStep(t)
  \/ \E c \in Clients : ClientStep(c)
  \/ Environment

Spec == Init /\ [][Next]_vars

\* Tokio runs every runnable task, wakes those that wait for a permit or for
\* room in the mailbox in FIFO order (hence strong fairness), the scheduler
\* keeps ticking and time passes.  Nothing is assumed of the clients.
Fairness ==
  /\ WF_vars(SupervisorStep) /\ WF_vars(WatchTarget) /\ WF_vars(DbBackoffElapses)
  /\ SF_vars(SchedulerTick) /\ SF_vars(ProbeQuiescence)
  /\ \A t \in Tasks : SF_vars(Acquire(t)) /\ SF_vars(TaskStep(t))
  /\ \A v \in Videos : WF_vars(RetryBecomesDue(v))

FairSpec == Spec /\ Fairness

-----------------------------------------------------------------------------
(* Properties that hold whatever the clients and the environment do *)

\* Permit accounting: for every semaphore ever created, free permits and held
\* permits add up to its size, through resizes, cancels, restarts and crashes
\* (permits_total is "including those currently held").
PermitAccounting ==
  \A k \in Incarnation : free[k] + Cardinality(Holders(k)) = permits_total[k]

\* No reservation leaks: a video in `dispatching` has a live task or a
\* DownloadCompleted on its way, so it is never left wedged as "in flight".
NoLeakedReservation ==
  \A v \in dispatching :
     (\E t \in Tasks : Live(t) /\ task[t].video = v) \/ Queued("DownloadCompleted", v)

\* No registration leaks: a worker in `active_downloads` is driven by a live
\* task of that video, or a DownloadCompleted will unregister it.
NoLeakedRegistration ==
  \A v \in Videos : active[v] # None =>
     (\E t \in Tasks : Live(t) /\ task[t].video = v) \/ Queued("DownloadCompleted", v)

\* Every reservation is eventually released: nothing in the protocol between
\* tasks and supervisor can leave a video undispatchable for ever.
ReservationsReleased ==
  \A v \in Videos : v \in dispatching ~> v \notin dispatching

\* The semaphores, the current one and those of earlier incarnations whose
\* tasks still run, implement the pools of permits.
Permits == INSTANCE PermitPools WITH
  Pools <- Incarnation, Users <- Tasks,
  size <- permits_total, held <- [k \in Incarnation |-> Holders(k)]

SemaphoresArePools == Permits!Spec

-----------------------------------------------------------------------------
(* Properties of a supervisor that is neither cancelled nor restarted *)

\* The dedup guard: the same video is never dispatched more than once
\* concurrently (reserve_dispatch).
UniqueDispatch ==
  \A t, u \in Tasks : Live(t) /\ Live(u) /\ task[t].video = task[u].video => t = u

\* Quiescence is real: when the drain watcher has seen zero active downloads
\* and zero reservations, no dispatched task is left that could still run.
QuiescenceSound == drained => \A t \in Tasks : ~Live(t)

\* The supervisor has not been restarted in the process.
FirstInstance == incarnation = 1

\* A row is `downloading` only while a task works on it or its outcome is on
\* its way to the supervisor, as long as no restart drops an outcome at hand.
DownloadingIsOwned ==
  \A v \in Videos : FirstInstance /\ row[v].status = "downloading" =>
     \/ \E t \in Tasks : task[t].video = v /\ task[t].pc \notin {"unused", "parked"}
     \/ Queued("ReportOutcome", v)

\* Some statement has failed: a task whose claim fails reports a failure the
\* row never counted, and may do so after the next dispatch of its video.
Faulty == budget["faults"] < Budget["faults"]

\* Automatic retries stop: without an operator's retry a video is claimed at
\* most max_attempts times, deferrals by the quality gate not counted.  Once
\* a statement has failed, handle_failure may decide on attempts that the
\* next dispatch has advanced by the time it writes, which allows one more.
AttemptsBounded ==
  \A v \in Videos : row[v].attempts <= MaxAttempts + (IF Faulty THEN 1 ELSE 0)

\* An archived video stays archived: only the cleanup takes a row out of
\* `completed`, neither a claim nor the report of another dispatch, as long
\* as no statement fails.  (After a failed claim the late report does write
\* `failed` over it, and the video is downloaded again.)
CompletedStaysCompleted ==
  [][\A v \in Videos : row[v].status = "completed" /\ ~Faulty'
        => row'[v].status \in {"completed", "cleaned", "absent"}]_vars

\* A video released by "Download now" is not held by the quality gate again,
\* as long as no restart dispatches it a second time.
ReleasedIsNotDeferred ==
  [][\A v \in Videos :
       FirstInstance /\ row[v].skip_quality_gate /\ row[v].status # "awaiting_quality"
         => row'[v].status # "awaiting_quality"]_vars

\* A backlog drains: an eligible pending video with a source is claimed,
\* unless an operator pauses or drains.
PendingIsDispatched ==
  \A v \in Linked : row[v].status = "pending" ~> (row[v].status # "pending" \/ Refusing)

\* A drain ends: the in-flight work finishes and the watcher sees it.
DrainCompletes == draining ~> drained
=============================================================================
