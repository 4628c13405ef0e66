----------------------------- MODULE Supervision -----------------------------
(***************************************************************************)
(* How the process recovers an actor that died, and how it ends             *)
(* (crates/hof-core/src/actors/root_supervisor.rs, watchdog.rs, liveness.rs,*)
(* the DrainToken of runtime_config.rs, the drain watcher and the shutdown  *)
(* of startup.rs, the select of crates/hof-web/src/main.rs).                *)
(*                                                                          *)
(* The root supervisor handles one signal of its mailbox at a time and      *)
(* never awaits, so each of its handlers is one step.  kameo restarts a     *)
(* child on its link death while the restart budget lasts.  An operator's   *)
(* restart is a detached task that kills the child, polls it and reports to *)
(* the root.  The watchdog polls the root and ends the process when a child *)
(* is beyond recovery; the container then starts the process again, and of  *)
(* its state only the activity log survives.                                *)
(*                                                                          *)
(* Left out: what the children do, and restart_count, last_restart_at and   *)
(* last_failure of the health report, which nothing reads back.             *)
(***************************************************************************)
EXTENDS Integers, Sequences, FiniteSets

CONSTANTS
  Children,      \* the supervised actors
  Kicked,        \* those told to process the backlog after a restart: the DownloadSupervisor
  Restarts,      \* slots for restart tasks (bound: live at once)
  None,          \* "no value"
  RestartLimit,  \* RESTART_LIMIT, per RESTART_WINDOW
  MaxSelfExits,  \* MAX_SELF_EXITS_PER_HOUR
  Budget         \* how often each environment event may occur

BudgetKeys == {"requests", "panics", "faults"}

ASSUME SupervisionAssumption ==
  /\ IsFiniteSet(Children) /\ Kicked \subseteq Children
  /\ None \notin Children
  /\ RestartLimit \in Nat
  /\ MaxSelfExits \in Nat
  /\ Budget \in [BudgetKeys -> Nat]

VARIABLES
  process,        \* "running", "stopping" once `main` shuts the actors down, "exited"
  aged,           \* MIN_UPTIME_BEFORE_EXIT has passed
  child,          \* the four actors
  spent,          \* restarts of each child in the current RESTART_WINDOW
  unrecoverable,  \* the children whose health says so
  mailbox,        \* signals the root supervisor has not handled yet
  restart,        \* the detached restart tasks
  watchdog,       \* where the watchdog task is
  seen_dead,      \* the health report it acts on has an unrecoverable child
  alive,          \* the LivenessFlag
  drain,          \* the DrainToken and the clock against its deadline
  to_stop,        \* children the shutdown has yet to stop
  self_exits,     \* self exits of the trailing hour, oldest first: was the event written?
  asked,          \* history: children an operator asked this process to restart
  budget          \* what is left of Budget

rootVars == <<child, spent, unrecoverable>>
watchdogVars == <<watchdog, seen_dead, alive>>
processVars == <<process, aged, to_stop>>
vars == <<rootVars, mailbox, restart, watchdogVars, drain, processVars, self_exits, asked, budget>>

-----------------------------------------------------------------------------
(* Types *)

Health == {"up", "dying", "gone", "stopped"}

Signal ==
       [kind : {"LinkDied"}, child : Children, normal : BOOLEAN]
  \cup [kind : {"RestartActor"}, child : Children]
  \cup [kind : {"RecordRestartOutcome"}, child : Children, ok : BOOLEAN]
  \cup [kind : {"GetActorHealth"}]

Restart == [pc : {"unused", "killing", "polling", "kicking", "recording"},
            child : Children \cup {None}, ok : BOOLEAN]

UnusedRestart == [pc |-> "unused", child |-> None, ok |-> FALSE]

TypeOK ==
  /\ process \in {"running", "stopping", "exited"} /\ aged \in BOOLEAN
  /\ child \in [Children -> Health]
  /\ spent \in [Children -> 0 .. RestartLimit]
  /\ unrecoverable \subseteq Children
  /\ mailbox \in Seq(Signal)
  /\ restart \in [Restarts -> Restart]
  /\ watchdog \in {"sleeping", "asking", "deciding", "logging", "beginning", "draining"}
  /\ seen_dead \in BOOLEAN /\ alive \in BOOLEAN
  /\ drain \in {"none", "draining", "overdue", "complete"}
  /\ to_stop \in SUBSET Children
  /\ self_exits \in Seq(BOOLEAN)
  /\ asked \subseteq Children
  /\ budget \in [BudgetKeys -> Nat]

-----------------------------------------------------------------------------
(* Helpers *)

Spend(key) == budget[key] > 0 /\ budget' = [budget EXCEPT ![key] = @ - 1]

Send(signal) == mailbox' = Append(mailbox, signal)

Receive(kind) ==
  /\ process # "exited"
  /\ mailbox # <<>>
  /\ Head(mailbox).kind = kind
  /\ mailbox' = Tail(mailbox)

LinkDied(c, normal) == [kind |-> "LinkDied", child |-> c, normal |-> normal]

\* A panic or kill().  The mailbox receiver of the child travels with the signal.
Dies(c) ==
  /\ child' = [child EXCEPT ![c] = "dying"]
  /\ Send(LinkDied(c, FALSE))

\* What a process starts with, and what is left of it when it ends.
Fresh ==
  /\ aged' = FALSE /\ to_stop' = {}
  /\ child' = [c \in Children |-> "up"]
  /\ spent' = [c \in Children |-> 0]
  /\ unrecoverable' = {}
  /\ mailbox' = <<>>
  /\ restart' = [t \in Restarts |-> UnusedRestart]
  /\ watchdog' = "sleeping" /\ seen_dead' = FALSE /\ alive' = TRUE
  /\ drain' = "none"
  /\ asked' = {}

\* Mutant: the count of self exits lives in the process.
ExitForgetting ==
  process' = "exited" /\ Fresh /\ self_exits' = [n \in DOMAIN self_exits |-> FALSE]

\* The process ends.  Only the activity log outlives it.
Exit == process' = "exited" /\ Fresh /\ UNCHANGED self_exits

-----------------------------------------------------------------------------
(* The root supervisor *)

\* should_restart of kameo under RestartPolicy::Transient and the restart limit.
ShouldRestart(c, normal) == ~normal /\ spent[c] < RestartLimit

\* Mutant: every link death kameo declines to restart counts as a failure.
NotedWhateverTheReason(c, normal) == unrecoverable' = unrecoverable \cup {c}

\* on_link_died.
NoteLinkDeath(c, normal) ==
  unrecoverable' = IF normal THEN unrecoverable ELSE unrecoverable \cup {c}

\* kameo's handle_link_died, which calls on_link_died only when it declines.
HandleLinkDied ==
  /\ Receive("LinkDied")
  /\ LET c == Head(mailbox).child
         normal == Head(mailbox).normal
     IN  \/ /\ ShouldRestart(c, normal)
            /\ child' = [child EXCEPT ![c] = "up"]
            /\ spent' = [spent EXCEPT ![c] = @ + 1]
            /\ UNCHANGED unrecoverable
         \/ /\ ~ShouldRestart(c, normal)
            /\ child' = IF normal THEN child ELSE [child EXCEPT ![c] = "gone"]
            /\ NoteLinkDeath(c, normal)
            /\ UNCHANGED spent
  /\ UNCHANGED <<restart, watchdogVars, drain, processVars, self_exits, asked, budget>>

\* RestartActor: the work is done by a detached task (ctx.spawn).
RestartActor ==
  /\ Receive("RestartActor")
  /\ \E t \in Restarts :
       /\ restart[t].pc = "unused"
       /\ restart' = [restart EXCEPT ![t] = [pc |-> "killing", child |-> Head(mailbox).child,
                                             ok |-> FALSE]]
  /\ UNCHANGED <<rootVars, watchdogVars, drain, processVars, self_exits, asked, budget>>

RecordRestartOutcome ==
  /\ Receive("RecordRestartOutcome")
  /\ unrecoverable' = IF Head(mailbox).ok THEN unrecoverable \ {Head(mailbox).child}
                      ELSE unrecoverable
  /\ UNCHANGED <<child, spent, restart, watchdogVars, drain, processVars, self_exits, asked,
                 budget>>

\* Mutant: only a process without a single working actor is given up.
AllUnrecoverable == unrecoverable = Children

AnyUnrecoverable == unrecoverable # {}

GetActorHealth ==
  /\ Receive("GetActorHealth")
  /\ watchdog' = "deciding"
  /\ seen_dead' = AnyUnrecoverable
  /\ UNCHANGED <<rootVars, restart, alive, drain, processVars, self_exits, asked, budget>>

RootStep == HandleLinkDied \/ RestartActor \/ RecordRestartOutcome \/ GetActorHealth

-----------------------------------------------------------------------------
(* restart_and_wait and the tail of the restart task *)

\* kill() does nothing to an actor that is dying or dead.
KillChild(t) ==
  /\ restart[t].pc = "killing"
  /\ restart' = [restart EXCEPT ![t].pc = "polling"]
  /\ \/ child[restart[t].child] = "up" /\ Dies(restart[t].child)
     \/ child[restart[t].child] # "up" /\ UNCHANGED <<child, mailbox>>
  /\ UNCHANGED <<spent, unrecoverable, watchdogVars, drain, processVars, self_exits, asked, budget>>

\* is_alive() of a dying child may still read true; RESTART_POLL_BOUND passes
\* while it reads false.
PollAlive(t) ==
  LET c == restart[t].child
  IN  /\ restart[t].pc = "polling"
      /\ \/ /\ child[c] \in {"up", "dying"}
            /\ restart' = [restart EXCEPT ![t].ok = TRUE,
                             ![t].pc = IF c \in Kicked THEN "kicking" ELSE "recording"]
         \/ /\ child[c] # "up"
            /\ restart' = [restart EXCEPT ![t].pc = "recording"]
      /\ UNCHANGED <<rootVars, mailbox, watchdogVars, drain, processVars, self_exits, asked, budget>>

\* tell(ProcessPendingDownloads), which waits for room at a living child and
\* fails at a dead one.
KickPendingDownloads(t) ==
  /\ restart[t].pc = "kicking"
  /\ child[restart[t].child] # "dying"
  /\ restart' = [restart EXCEPT ![t].pc = "recording"]
  /\ UNCHANGED <<rootVars, mailbox, watchdogVars, drain, processVars, self_exits, asked, budget>>

TellOutcome(t) ==
  /\ restart[t].pc = "recording"
  /\ Send([kind |-> "RecordRestartOutcome", child |-> restart[t].child, ok |-> restart[t].ok])
  /\ restart' = [restart EXCEPT ![t] = UnusedRestart]
  /\ UNCHANGED <<rootVars, watchdogVars, drain, processVars, self_exits, asked, budget>>

RestartStep(t) ==
  /\ process # "exited"
  /\ KillChild(t) \/ PollAlive(t) \/ KickPendingDownloads(t) \/ TellOutcome(t)

-----------------------------------------------------------------------------
(* The watchdog *)

AskActorHealth ==
  /\ watchdog = "sleeping"
  /\ watchdog' = "asking"
  /\ Send([kind |-> "GetActorHealth"])
  /\ UNCHANGED <<rootVars, restart, seen_dead, alive, drain, processVars, self_exits, asked, budget>>

Written == {n \in DOMAIN self_exits : self_exits[n]}

WithinExitBudget == Cardinality(Written) < MaxSelfExits

\* evaluate, on the report and on the budget, which may be unreadable.
Evaluate ==
  /\ watchdog = "deciding"
  /\ alive' = ~seen_dead
  /\ seen_dead' = FALSE
  /\ \/ seen_dead /\ aged /\ WithinExitBudget /\ watchdog' = "logging" /\ UNCHANGED budget
     \/ ~(seen_dead /\ aged /\ WithinExitBudget) /\ watchdog' = "sleeping" /\ UNCHANGED budget
     \/ seen_dead /\ Spend("faults") /\ watchdog' = "sleeping"
  /\ UNCHANGED <<rootVars, mailbox, restart, drain, processVars, self_exits, asked>>

\* log_activity swallows its own error.
LogSelfRestart ==
  /\ watchdog = "logging"
  /\ watchdog' = "beginning"
  /\ \/ self_exits' = Append(self_exits, TRUE) /\ UNCHANGED budget
     \/ self_exits' = Append(self_exits, FALSE) /\ Spend("faults")
  /\ UNCHANGED <<rootVars, mailbox, restart, seen_dead, alive, drain, processVars, asked>>

\* DrainToken::begin: the first call wins.
Begin == drain' = IF drain = "none" THEN "draining" ELSE drain

BeginSelfExitDrain ==
  /\ watchdog = "beginning"
  /\ watchdog' = "draining"
  /\ Begin
  /\ UNCHANGED <<rootVars, mailbox, restart, seen_dead, alive, processVars, self_exits, asked,
                 budget>>

SelfExit ==
  /\ watchdog = "draining"
  /\ drain = "complete"
  /\ Exit
  /\ UNCHANGED budget

WatchdogStep ==
  /\ process # "exited"
  /\ AskActorHealth \/ Evaluate \/ LogSelfRestart \/ BeginSelfExitDrain \/ SelfExit

-----------------------------------------------------------------------------
(* The drain watcher and the shutdown *)

\* Mutant: the drain waits for quiescence, however late.
NeverForced == FALSE

\* Past the deadline the watcher stops waiting for work in flight.
Forced == drain = "overdue"

\* A probe asks living actors and takes dead ones for quiescent; whether they
\* are is the subject of the module DownloadSupervisor.
DrainProbe ==
  /\ process # "exited"
  /\ drain \in {"draining", "overdue"}
  /\ \A c \in Children : child[c] # "dying"
  /\ \/ drain' = "complete"
     \/ ~Forced /\ drain' = drain
  /\ UNCHANGED <<rootVars, mailbox, restart, watchdogVars, processVars, self_exits, asked, budget>>

\* `main` leaves its select, and with it the HTTP server.
StartShutdown ==
  /\ process = "running"
  /\ drain = "complete"
  /\ process' = "stopping"
  /\ to_stop' = Children
  /\ UNCHANGED <<rootVars, mailbox, restart, watchdogVars, drain, aged, self_exits, asked, budget>>

\* stop_gracefully and wait_for_shutdown.  The stop signal waits in the
\* mailbox of the child, whichever instance takes it.
StopChild ==
  /\ process = "stopping"
  /\ \E c \in to_stop :
       /\ to_stop' = to_stop \ {c}
       /\ \/ /\ child[c] = "up"
             /\ child' = [child EXCEPT ![c] = "stopped"]
             /\ Send(LinkDied(c, TRUE))
          \/ child[c] = "gone" /\ UNCHANGED <<child, mailbox>>
  /\ UNCHANGED <<spent, unrecoverable, restart, watchdogVars, drain, process, aged, self_exits,
                 asked, budget>>

\* The root supervisor is stopped last.
FinishShutdown ==
  /\ process = "stopping"
  /\ to_stop = {}
  /\ Exit
  /\ UNCHANGED budget

MainStep == StartShutdown \/ StopChild \/ FinishShutdown

-----------------------------------------------------------------------------
(* Clocks, operators, crashes, the container *)

UptimeGrows ==
  /\ process # "exited" /\ ~aged
  /\ aged' = TRUE
  /\ UNCHANGED <<rootVars, mailbox, restart, watchdogVars, drain, process, to_stop, self_exits,
                 asked, budget>>

\* The next restart of the child is outside RESTART_WINDOW.
RestartWindowElapses(c) ==
  /\ process # "exited" /\ spent[c] > 0
  /\ spent' = [spent EXCEPT ![c] = 0]
  /\ UNCHANGED <<child, unrecoverable, mailbox, restart, watchdogVars, drain, processVars,
                 self_exits, asked, budget>>

DrainDeadlinePasses ==
  /\ process # "exited" /\ drain = "draining"
  /\ drain' = "overdue"
  /\ UNCHANGED <<rootVars, mailbox, restart, watchdogVars, processVars, self_exits, asked, budget>>

\* The oldest self exit leaves the trailing hour.
HourElapses ==
  /\ self_exits # <<>>
  /\ self_exits' = Tail(self_exits)
  /\ UNCHANGED <<rootVars, mailbox, restart, watchdogVars, drain, processVars, asked, budget>>

Panic(c) ==
  /\ process # "exited"
  /\ child[c] = "up"
  /\ Spend("panics")
  /\ Dies(c)
  /\ UNCHANGED <<spent, unrecoverable, restart, watchdogVars, drain, processVars, self_exits, asked>>

AskRestartActor(c) ==
  /\ process = "running"
  /\ Spend("requests")
  /\ Send([kind |-> "RestartActor", child |-> c])
  /\ asked' = asked \cup {c}
  /\ UNCHANGED <<rootVars, restart, watchdogVars, drain, processVars, self_exits>>

AskShutdown ==
  /\ process = "running"
  /\ Spend("requests")
  /\ Begin
  /\ UNCHANGED <<rootVars, mailbox, restart, watchdogVars, processVars, self_exits, asked>>

\* `restart: unless-stopped` brings the container back, whatever the exit code.
ContainerRestarts ==
  /\ process = "exited"
  /\ process' = "running"
  /\ UNCHANGED <<rootVars, mailbox, restart, watchdogVars, drain, aged, to_stop, self_exits, asked,
                 budget>>

-----------------------------------------------------------------------------

Init ==
  /\ process = "running" /\ aged = FALSE /\ to_stop = {}
  /\ child = [c \in Children |-> "up"]
  /\ spent = [c \in Children |-> 0]
  /\ unrecoverable = {}
  /\ mailbox = <<>>
  /\ restart = [t \in Restarts |-> UnusedRestart]
  /\ watchdog = "sleeping" /\ seen_dead = FALSE /\ alive = TRUE
  /\ drain = "none"
  /\ self_exits = <<>>
  /\ asked = {}
  /\ budget = Budget

Clocks ==
  \/ UptimeGrows \/ DrainDeadlinePasses \/ HourElapses
  \/ \E c \in Children : RestartWindowElapses(c)

Environment ==
  \/ AskShutdown \/ ContainerRestarts
  \/ \E c \in Children : Panic(c) \/ AskRestartActor(c)

Next ==
  \/ RootStep \/ WatchdogStep \/ DrainProbe \/ MainStep \/ Clocks \/ Environment
  \/ \E t \in Restarts : RestartStep(t)

Spec == Init /\ [][Next]_vars

\* Tokio runs every runnable task, time passes, compose restarts what exited.
\* Neither the end of the work in flight nor RestartWindowElapses is assumed:
\* a download may take longer than a drain, a crash loop may be faster.
Fairness ==
  /\ WF_vars(RootStep) /\ WF_vars(WatchdogStep) /\ WF_vars(MainStep)
  /\ WF_vars(Forced /\ DrainProbe) /\ WF_vars(ContainerRestarts)
  /\ WF_vars(UptimeGrows) /\ WF_vars(DrainDeadlinePasses) /\ WF_vars(HourElapses)
  /\ \A t \in Restarts : WF_vars(RestartStep(t))

FairSpec == Spec /\ Fairness

-----------------------------------------------------------------------------
(* Properties *)

\* The `unrecoverable` of a health report, on which alone the watchdog ends
\* the process, is true: no child is given up that runs, is being restarted
\* or was stopped by a shutdown, and none that kameo gave up is missing,
\* unless an operator asked for its restart.
HealthIsTrue ==
  /\ \A c \in unrecoverable : child[c] = "gone"
  /\ \A c \in Children \ asked : child[c] = "gone" => c \in unrecoverable

\* The crash-loop guard: self exits within an hour, over all the processes
\* that hour has seen, exceed MAX_SELF_EXITS_PER_HOUR by no more than the
\* events the database lost.
ExitBudget == Len(self_exits) <= MaxSelfExits + (Budget["faults"] - budget["faults"])

\* A child beyond in-process recovery is up again some day, whatever the
\* crash-loop guard delays, unless an operator asked for its restart.
SelfHeals ==
  \A c \in Children : (child[c] = "gone" /\ c \notin asked) ~> (child[c] # "gone" \/ c \in asked)

\* A drain, an operator's or the watchdog's, ends the process: work in flight
\* holds it up to the deadline at most, and dying children no longer than
\* their restart takes.
DrainEndsProcess == drain # "none" ~> process = "exited"
==============================================================================
