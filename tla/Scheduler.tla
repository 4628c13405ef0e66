------------------------------ MODULE Scheduler ------------------------------
(***************************************************************************)
(* The SchedulerActor of hof-core, the SourceIndexerActors it spawns and    *)
(* the rows of the `sources` table both of them work on                     *)
(* (crates/hof-core/src/actors/scheduler.rs, actors/source_indexer.rs,      *)
(* db/source.rs).                                                           *)
(*                                                                          *)
(* The scheduler handles one message of its bounded FIFO mailbox at a time. *)
(* A tick (CheckSources) awaits the database between two spawns and the     *)
(* mailbox of the DownloadSupervisor at its end, so it is a step that lists *)
(* the due sources, a step per listed source, and the final tell.  A        *)
(* detached waiter turns the end of an indexer, normal or not, into an      *)
(* IndexingCompleted message.                                               *)
(*                                                                          *)
(* AddSource, RemoveSource, StopScheduler and IndexNow are never sent by    *)
(* the program and are left out, as is what an indexer finds.               *)
(***************************************************************************)
EXTENDS Integers, Sequences, FiniteSets

CONSTANTS
  Sources,           \* ids of the `sources` table
  Indexers,          \* slots for indexers and their waiters (bound: live at once)
  None,              \* "no value"
  MaxIndexRetries,   \* MAX_INDEX_RETRIES
  MaxIndexersPerTick,\* max_indexers_per_tick of the runtime configuration
  MailboxCap,        \* capacity of the scheduler's mailbox
  SweepCap,          \* room for ProcessPendingDownloads at the DownloadSupervisor
  Results,           \* how the runs of an indexer may end in a model
  Budget             \* how often each environment event may occur

BudgetKeys == {"requests", "faults", "edits", "pauses", "restarts"}

Result == {"indexed", "failed", "rate_limited", "panicked"}

ASSUME SchedulerAssumption ==
  /\ IsFiniteSet(Sources) /\ IsFiniteSet(Indexers)
  /\ None \notin Sources \cup Indexers
  /\ MaxIndexRetries \in Nat \ {0}
  /\ MaxIndexersPerTick \in Nat \ {0}
  /\ MailboxCap \in Nat \ {0} /\ SweepCap \in Nat \ {0}
  /\ Results \subseteq Result
  /\ Budget \in [BudgetKeys -> Nat]

VARIABLES
  enabled,            \* the sources that are enabled
  due,                \* last_indexed_at is NULL or older than index_frequency_secs
  older,              \* ORDER BY last_indexed_at NULLS FIRST: <<r, s>> if r precedes s
  index_error_count,  \* the column of that name
  mailbox,            \* messages the scheduler has not handled yet
  tick,               \* phase of the CheckSources handler that is running
  listed,             \* due sources the tick has yet to visit
  listed_order,       \* what `older` said of them when they were listed
  spawned_this_tick,
  up,                 \* the actor runs: its last on_start did not fail
  running,            \* the scheduler's loop has been started
  active_indexers,    \* the indexer registered for each source
  last_indexed,       \* the scheduler's own floor: "never", "recent" or "past"
  tickers,            \* ticker loops that send CheckSources
  sweeps,             \* ProcessPendingDownloads the DownloadSupervisor has yet to take
  refusing,           \* indexing is paused or the process drains
  indexer,            \* the spawned indexers and their waiters
  streak,             \* history: runs of a source that ended in an error, in a row
  rested,             \* history: MIN_INDEX_INTERVAL_SECS passed since a run's end
  budget              \* what is left of Budget

rowVars == <<enabled, due, older, index_error_count>>
tickVars == <<tick, listed, listed_order, spawned_this_tick>>
schedulerVars == <<up, running, active_indexers, last_indexed>>
historyVars == <<streak, rested>>
vars == <<rowVars, mailbox, tickVars, schedulerVars, tickers, sweeps, refusing, indexer,
          historyVars, budget>>

-----------------------------------------------------------------------------
(* Types *)

Phase == {"idle", "spawning", "telling"}

PC == {"unused", "starting", "indexing", "closing", "ended"}

Indexer == [pc : PC, source : Sources \cup {None}]

UnusedIndexer == [pc |-> "unused", source |-> None]

Message ==
       [kind : {"StartScheduler", "CheckSources"}]
  \cup [kind : {"IndexSource", "IndexingCompleted"}, source : Sources]

TypeOK ==
  /\ enabled \subseteq Sources /\ due \subseteq Sources
  /\ older \subseteq Sources \X Sources
  /\ index_error_count \in [Sources -> Nat]
  /\ mailbox \in Seq(Message)
  /\ tick \in Phase /\ spawned_this_tick \in Nat
  /\ listed \subseteq Sources /\ listed_order \subseteq Sources \X Sources
  /\ up \in BOOLEAN /\ running \in BOOLEAN
  /\ active_indexers \in [Sources -> Indexers \cup {None}]
  /\ last_indexed \in [Sources -> {"never", "recent", "past"}]
  /\ tickers \in Nat /\ sweeps \in 0 .. SweepCap
  /\ refusing \in BOOLEAN
  /\ indexer \in [Indexers -> Indexer]
  /\ streak \in [Sources -> Nat] /\ rested \subseteq Sources
  /\ budget \in [BudgetKeys -> Nat]

-----------------------------------------------------------------------------
(* Helpers *)

Spend(key) == budget[key] > 0 /\ budget' = [budget EXCEPT ![key] = @ - 1]

Tell(m) == Len(mailbox) < MailboxCap /\ mailbox' = Append(mailbox, m)

Receive(kind) ==
  /\ up /\ tick = "idle"
  /\ mailbox # <<>>
  /\ Head(mailbox).kind = kind
  /\ mailbox' = Tail(mailbox)

Running(i, s) == indexer[i].source = s /\ indexer[i].pc \in {"starting", "indexing", "closing"}

Move(i, pc) == indexer' = [indexer EXCEPT ![i].pc = pc]

\* Mutant: sources at the retry limit are still listed.
DueForIndexingInclusive(s) == s \in enabled \cap due /\ index_error_count[s] <= MaxIndexRetries

\* list_sources_due_for_indexing: the WHERE clause.
DueForIndexing(s) == s \in enabled \cap due /\ index_error_count[s] < MaxIndexRetries

\* spawn_indexer: register the new indexer under its source.
SpawnIndexer(s) ==
  \E i \in Indexers :
     /\ indexer[i].pc = "unused"
     /\ indexer' = [indexer EXCEPT ![i] = [pc |-> "starting", source |-> s]]
     /\ active_indexers' = [active_indexers EXCEPT ![s] = i]

-----------------------------------------------------------------------------
(* Message handlers of the scheduler *)

StartScheduler ==
  /\ Receive("StartScheduler")
  /\ running' = TRUE
  /\ tickers' = IF running THEN tickers ELSE tickers + 1
  /\ UNCHANGED <<rowVars, tickVars, up, active_indexers, last_indexed, sweeps, refusing, indexer,
                 historyVars, budget>>

\* Mutant: a refused or failed listing ends the whole tick.
NothingToIndex == tick' = "idle" /\ UNCHANGED <<listed, listed_order>>

\* A refused or failed listing still ends in the sweep of the downloads.
SkipToSweep == tick' = "telling" /\ UNCHANGED <<listed, listed_order>>

\* CheckSources and the list of spawn_due_indexers.
CheckSources ==
  /\ Receive("CheckSources")
  /\ spawned_this_tick' = 0
  /\ \/ ~running /\ UNCHANGED <<tick, listed, listed_order, budget>>
     \/ running /\ refusing /\ SkipToSweep /\ UNCHANGED budget
     \/ running /\ ~refusing /\ SkipToSweep /\ Spend("faults")
     \/ /\ running /\ ~refusing
        /\ tick' = "spawning"
        /\ listed' = {s \in Sources : DueForIndexing(s)}
        /\ listed_order' = older \cap (listed' \X listed')
        /\ UNCHANGED budget
  /\ UNCHANGED <<rowVars, schedulerVars, tickers, sweeps, refusing, indexer, historyVars>>

\* Mutant: a source that is still being indexed is not skipped.
SkippedUnlessRecent(s) == last_indexed[s] = "recent"

\* Mutant: the floor is not applied.
SkippedIfActive(s) == active_indexers[s] # None

\* What the loop passes over without counting it.
Skipped(s) == active_indexers[s] # None \/ last_indexed[s] = "recent"

\* What is left of the list.
Left(sources) == listed' = sources /\ listed_order' = listed_order \cap (sources \X sources)

\* One iteration of the loop, for the first source of the list.  A spawn that
\* fails counts as well.
VisitSource(s) ==
  /\ tick = "spawning"
  /\ s \in listed /\ \A r \in listed : <<r, s>> \notin listed_order
  /\ \/ /\ spawned_this_tick >= MaxIndexersPerTick
        /\ Left({})
        /\ UNCHANGED <<spawned_this_tick, active_indexers, indexer, budget>>
     \/ /\ spawned_this_tick < MaxIndexersPerTick /\ Skipped(s)
        /\ Left(listed \ {s})
        /\ UNCHANGED <<spawned_this_tick, active_indexers, indexer, budget>>
     \/ /\ spawned_this_tick < MaxIndexersPerTick /\ ~Skipped(s)
        /\ Left(listed \ {s})
        /\ spawned_this_tick' = spawned_this_tick + 1
        /\ \/ SpawnIndexer(s) /\ UNCHANGED budget
           \/ Spend("faults") /\ UNCHANGED <<active_indexers, indexer>>
  /\ UNCHANGED <<rowVars, mailbox, tick, up, running, last_indexed, tickers, sweeps, refusing,
                 historyVars>>

EndOfList ==
  /\ tick = "spawning" /\ listed = {}
  /\ tick' = "telling"
  /\ UNCHANGED <<rowVars, mailbox, listed, listed_order, spawned_this_tick, schedulerVars, tickers,
                 sweeps, refusing, indexer, historyVars, budget>>

\* Mutant: the sweep is sent without waiting for room.
AlwaysRoom == TRUE

RoomForSweep == sweeps < SweepCap

\* tell(ProcessPendingDownloads) waits for room at the supervisor.
TellProcessPendingDownloads ==
  /\ tick = "telling"
  /\ RoomForSweep
  /\ sweeps' = sweeps + 1
  /\ tick' = "idle"
  /\ UNCHANGED <<rowVars, mailbox, listed, listed_order, spawned_this_tick, schedulerVars, tickers,
                 refusing, indexer, historyVars, budget>>

\* A manual trigger: refused while the source is indexed, paused or drained;
\* otherwise the error count is reset and an indexer spawned, of which either
\* statement may fail.
IndexSource ==
  /\ Receive("IndexSource")
  /\ LET s == Head(mailbox).source
     IN  \/ /\ active_indexers[s] # None \/ refusing
            /\ UNCHANGED <<index_error_count, streak, active_indexers, indexer, budget>>
         \/ /\ active_indexers[s] = None /\ ~refusing
            /\ Spend("faults")
            /\ UNCHANGED <<index_error_count, streak, active_indexers, indexer>>
         \/ /\ active_indexers[s] = None /\ ~refusing
            /\ index_error_count' = [index_error_count EXCEPT ![s] = 0]
            /\ streak' = [streak EXCEPT ![s] = 0]
            /\ \/ SpawnIndexer(s) /\ UNCHANGED budget
               \/ Spend("faults") /\ UNCHANGED <<active_indexers, indexer>>
  /\ UNCHANGED <<enabled, due, older, tickVars, up, running, last_indexed, tickers, sweeps,
                 refusing, rested>>

\* Mutant: the source stays registered.
ForgetNothing(s) == UNCHANGED active_indexers

ForgetIndexer(s) == active_indexers' = [active_indexers EXCEPT ![s] = None]

IndexingCompleted ==
  /\ Receive("IndexingCompleted")
  /\ ForgetIndexer(Head(mailbox).source)
  /\ last_indexed' = [last_indexed EXCEPT ![Head(mailbox).source] = "recent"]
  /\ UNCHANGED <<rowVars, tickVars, up, running, tickers, sweeps, refusing, indexer, historyVars,
                 budget>>

-----------------------------------------------------------------------------
(* The indexers and their waiters *)

StartIndexing(i) ==
  /\ indexer[i].pc = "starting"
  /\ Move(i, "indexing")
  /\ UNCHANGED <<rowVars, mailbox, tickVars, schedulerVars, tickers, sweeps, refusing,
                 historyVars, budget>>

\* The history stops counting once it is past the limit (bound on streak).
OneMore(n) == IF n > MaxIndexRetries THEN n ELSE n + 1

RecordIndexingError(s) == index_error_count' = [index_error_count EXCEPT ![s] = @ + 1]

\* execute_indexing up to its last statement: the playlist cannot be fetched
\* (the error is recorded and the run over), an entry is rate limited (the
\* error is recorded and the loop left), every entry was processed, or a panic.
ExecuteIndexing(i) ==
  LET s == indexer[i].source
  IN  /\ indexer[i].pc = "indexing"
      /\ \/ /\ "failed" \in Results
            /\ \/ RecordIndexingError(s) /\ UNCHANGED budget
               \/ Spend("faults") /\ UNCHANGED index_error_count
            /\ streak' = [streak EXCEPT ![s] = OneMore(@)]
            /\ rested' = rested \ {s}
            /\ Move(i, "ended")
         \/ /\ "rate_limited" \in Results
            /\ \/ RecordIndexingError(s) /\ UNCHANGED budget
               \/ Spend("faults") /\ UNCHANGED index_error_count
            /\ streak' = [streak EXCEPT ![s] = OneMore(@)]
            /\ Move(i, "closing")
            /\ UNCHANGED rested
         \/ /\ "indexed" \in Results
            /\ streak' = [streak EXCEPT ![s] = 0]
            /\ Move(i, "closing")
            /\ UNCHANGED <<index_error_count, rested, budget>>
         \/ /\ "panicked" \in Results
            /\ Spend("faults")
            /\ rested' = rested \ {s}
            /\ Move(i, "ended")
            /\ UNCHANGED <<index_error_count, streak>>
      /\ UNCHANGED <<enabled, due, older, mailbox, tickVars, schedulerVars, tickers, sweeps,
                     refusing>>

\* Mutant: the error state is kept.
ErrorCountKept(s) == UNCHANGED index_error_count

ClearErrorState(s) == index_error_count' = [index_error_count EXCEPT ![s] = 0]

\* Mutant: the due sources are listed in an order of their own.
OrderKept(s) == UNCHANGED older

MoveToEnd(s) ==
  LET others == Sources \ {s}
  IN  older' = (older \cap (others \X others)) \cup (others \X {s})

\* update_source_last_indexed, which clears the error state of the source.
UpdateLastIndexed(i) ==
  LET s == indexer[i].source
  IN  /\ indexer[i].pc = "closing"
      /\ \/ /\ due' = due \ {s}
            /\ MoveToEnd(s)
            /\ ClearErrorState(s)
            /\ UNCHANGED budget
         \/ Spend("faults") /\ UNCHANGED <<due, older, index_error_count>>
      /\ rested' = rested \ {s}
      /\ Move(i, "ended")
      /\ UNCHANGED <<enabled, mailbox, tickVars, schedulerVars, tickers, sweeps, refusing, streak>>

\* The waiter of spawn_indexer, when the result channel yields or closes.
TellIndexingCompleted(i) ==
  /\ indexer[i].pc = "ended"
  /\ Tell([kind |-> "IndexingCompleted", source |-> indexer[i].source])
  /\ indexer' = [indexer EXCEPT ![i] = UnusedIndexer]
  /\ UNCHANGED <<rowVars, tickVars, schedulerVars, tickers, sweeps, refusing, historyVars, budget>>

IndexerStep(i) ==
  StartIndexing(i) \/ ExecuteIndexing(i) \/ UpdateLastIndexed(i) \/ TellIndexingCompleted(i)

-----------------------------------------------------------------------------
(* Timers, operators, restarts *)

\* A ticker loop.  A mailbox that stays full only costs the tick.
TickerFires ==
  /\ tickers > 0
  /\ Tell([kind |-> "CheckSources"])
  /\ UNCHANGED <<rowVars, tickVars, schedulerVars, tickers, sweeps, refusing, indexer,
                 historyVars, budget>>

SupervisorTakesSweep ==
  /\ sweeps > 0
  /\ sweeps' = sweeps - 1
  /\ UNCHANGED <<rowVars, mailbox, tickVars, schedulerVars, tickers, refusing, indexer,
                 historyVars, budget>>

\* index_frequency_secs pass since the source was last indexed.
FrequencyElapses(s) ==
  /\ s \notin due
  /\ due' = due \cup {s}
  /\ UNCHANGED <<enabled, older, index_error_count, mailbox, tickVars, schedulerVars,
                 tickers, sweeps, refusing, indexer, historyVars, budget>>

\* MIN_INDEX_INTERVAL_SECS pass since the scheduler learnt of a run's end.
FloorElapses(s) ==
  /\ last_indexed[s] = "recent"
  /\ last_indexed' = [last_indexed EXCEPT ![s] = "past"]
  /\ rested' = rested \cup {s}
  /\ UNCHANGED <<rowVars, mailbox, tickVars, up, running, active_indexers, tickers, sweeps,
                 refusing, indexer, streak, budget>>

AskIndexSource ==
  /\ Spend("requests")
  /\ \E s \in Sources : Tell([kind |-> "IndexSource", source |-> s])
  /\ UNCHANGED <<rowVars, tickVars, schedulerVars, tickers, sweeps, refusing, indexer, historyVars>>

SetSourceEnabled ==
  /\ Spend("edits")
  /\ \E s \in Sources : enabled' = IF s \in enabled THEN enabled \ {s} ELSE enabled \cup {s}
  /\ UNCHANGED <<due, older, index_error_count, mailbox, tickVars, schedulerVars, tickers,
                 sweeps, refusing, indexer, historyVars>>

TogglePause ==
  /\ Spend("pauses")
  /\ refusing' = ~refusing
  /\ UNCHANGED <<rowVars, mailbox, tickVars, schedulerVars, tickers, sweeps, indexer, historyVars>>

Start == [kind |-> "StartScheduler"]

\* Mutant: a StartScheduler that finds no room is lost without an error.
TellStartUnchecked ==
  /\ up' = TRUE
  /\ Tell(Start) \/ (Len(mailbox) >= MailboxCap /\ UNCHANGED mailbox)

\* on_start's try_send, which fails the start when the mailbox is full.
TellStart ==
  \/ Tell(Start) /\ up' = TRUE
  \/ Len(mailbox) >= MailboxCap /\ up' = FALSE /\ UNCHANGED mailbox

\* A panic, a kill, or a start that failed.  on_stop asks the registered
\* indexers to stop, which only reaches one that has not begun to run; ticker
\* loops, waiters and the mailbox outlive the instance, and the new one tells
\* itself to start.
RestartScheduler ==
  /\ Spend("restarts")
  /\ TellStart
  /\ tick' = "idle" /\ Left({}) /\ spawned_this_tick' = 0
  /\ running' = FALSE
  /\ active_indexers' = [s \in Sources |-> None]
  /\ last_indexed' = [s \in Sources |-> "never"]
  /\ \E stopped \in SUBSET {i \in Indexers : /\ indexer[i].pc = "starting"
                                             /\ active_indexers[indexer[i].source] = i} :
       indexer' = [i \in Indexers |-> IF i \in stopped THEN [indexer[i] EXCEPT !.pc = "ended"]
                                      ELSE indexer[i]]
  /\ UNCHANGED <<rowVars, tickers, sweeps, refusing, historyVars>>

\* The failed starts have used up the restarts: the watchdog ends the process
\* and the container starts it again (module Supervision).  A pause persists,
\* a drain does not.
Boot ==
  /\ ~up /\ up' = TRUE
  /\ mailbox' = <<Start>>
  /\ tick' = "idle" /\ Left({}) /\ spawned_this_tick' = 0
  /\ running' = FALSE
  /\ active_indexers' = [s \in Sources |-> None]
  /\ last_indexed' = [s \in Sources |-> "never"]
  /\ tickers' = 0 /\ sweeps' = 0 /\ refusing' \in {FALSE, refusing}
  /\ indexer' = [i \in Indexers |-> UnusedIndexer]
  /\ UNCHANGED <<rowVars, historyVars, budget>>

-----------------------------------------------------------------------------

TotalOrder(R) ==
  /\ \A r, s \in Sources : <<r, s>> \in R <=> (r # s /\ <<s, r>> \notin R)
  /\ \A r, s, t \in Sources : <<r, s>> \in R /\ <<s, t>> \in R => <<r, t>> \in R

Init ==
  /\ enabled \in SUBSET Sources /\ due \in SUBSET Sources
  /\ older \in {R \in SUBSET (Sources \X Sources) : TotalOrder(R)}
  /\ index_error_count = [s \in Sources |-> 0]
  /\ mailbox = <<Start>>
  /\ tick = "idle" /\ listed = {} /\ listed_order = {} /\ spawned_this_tick = 0
  /\ up = TRUE /\ running = FALSE
  /\ active_indexers = [s \in Sources |-> None]
  /\ last_indexed = [s \in Sources |-> "never"]
  /\ tickers = 0 /\ sweeps = 0 /\ refusing = FALSE
  /\ indexer = [i \in Indexers |-> UnusedIndexer]
  /\ streak = [s \in Sources |-> 0]
  /\ rested = Sources
  /\ budget = Budget

Handler ==
  \/ StartScheduler \/ CheckSources \/ EndOfList \/ TellProcessPendingDownloads
  \/ \E s \in Sources : VisitSource(s)
  \/ IndexSource \/ IndexingCompleted

Environment ==
  \/ TickerFires \/ SupervisorTakesSweep \/ AskIndexSource \/ SetSourceEnabled \/ TogglePause
  \/ RestartScheduler \/ Boot
  \/ \E s \in Sources : FrequencyElapses(s) \/ FloorElapses(s)

Next == Handler \/ (\E i \in Indexers : IndexerStep(i)) \/ Environment

Spec == Init /\ [][Next]_vars

\* The runtime runs every runnable task, timers fire, the supervisor drains
\* its mailbox, yt-dlp calls end; those that wait for room in the mailbox are
\* served in FIFO order (hence strong fairness).
Fairness ==
  /\ WF_vars(Handler) /\ WF_vars(SupervisorTakesSweep) /\ SF_vars(TickerFires)
  /\ \A i \in Indexers : SF_vars(IndexerStep(i))
  /\ \A s \in Sources : WF_vars(FrequencyElapses(s)) /\ WF_vars(FloorElapses(s))

FairSpec == Spec /\ Fairness

-----------------------------------------------------------------------------
(* Properties *)

\* No registration leaks: a source in `active_indexers`, which neither a tick
\* nor an operator may index, has an indexer whose end is still to be told.
NoOrphanedRegistration ==
  \A s \in Sources : active_indexers[s] # None =>
     \/ \E i \in Indexers : indexer[i].pc # "unused" /\ indexer[i].source = s
     \/ \E n \in DOMAIN mailbox : mailbox[n] = [kind |-> "IndexingCompleted", source |-> s]

StartIsTold == \E n \in DOMAIN mailbox : mailbox[n].kind = "StartScheduler"

\* The loop goes on: a scheduler that runs its loop has a ticker, one that
\* does not has a StartScheduler on its way, whatever restarts and full
\* mailboxes have done.  A start that failed leaves the actor down, and every
\* further attempt in this process finds the mailbox as full as it was.
LoopIsDriven ==
  /\ up /\ running => tickers > 0
  /\ up /\ ~running => StartIsTold /\ tick = "idle"
  /\ ~up => Len(mailbox) >= MailboxCap

\* A source is never indexed by two indexers at the same time, whoever asked
\* for it (the `active_indexers` guard of the tick and of IndexSource).
OneIndexerPerSource ==
  \A i, j \in Indexers, s \in Sources : Running(i, s) /\ Running(j, s) => i = j

\* After MAX_INDEX_RETRIES runs in a row that ended in an error the source is
\* left alone until an operator asks for it.
ErrorStreakBounded == \A s \in Sources : streak[s] <= MaxIndexRetries

\* While no indexer works on a source its row counts the errors since its
\* last run without one.
ErrorsAreCounted ==
  \A s \in Sources : (\A i \in Indexers : indexer[i].source # s)
                        => index_error_count[s] = streak[s]

\* The floor: a tick spawns no indexer for a source whose last run ended less
\* than MIN_INDEX_INTERVAL_SECS ago.
IndexFloor ==
  [][\A i \in Indexers :
        (tick = "spawning" /\ indexer[i].pc = "unused" /\ indexer'[i].pc = "starting")
           => indexer'[i].source \in rested]_vars

Indexing(s) == \E i \in Indexers : Running(i, s)

\* No starvation: with more due sources than a tick may spawn, every one of
\* them gets its turn.
DueIsIndexed ==
  \A s \in Sources : (DueForIndexing(s) /\ ~refusing) ~>
                        (Indexing(s) \/ ~DueForIndexing(s) \/ refusing)

\* A source does not stay registered for ever.
RegistrationsEnd ==
  \A s \in Sources : active_indexers[s] # None ~> active_indexers[s] = None

\* The downloads are swept again and again, whatever becomes of the indexing
\* half of a tick.
SweepsContinue == []<>(sweeps > 0)
==============================================================================
