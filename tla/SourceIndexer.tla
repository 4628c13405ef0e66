---------------------------- MODULE SourceIndexer ----------------------------
(***************************************************************************)
(* One source and the index runs over its playlist: detection of the order  *)
(* of the entries, the scan with its early termination, and the videos it   *)
(* creates (crates/hof-core/src/actors/source_indexer.rs).                  *)
(*                                                                          *)
(* Runs of one source follow each other (module Scheduler); the playlist    *)
(* and the operator's cutoff may change between and during them. Every      *)
(* video has a publication date, and the profile excludes none of them.     *)
(***************************************************************************)
EXTENDS Integers, Sequences, FiniteSets, SequencesExt

CONSTANTS
  Videos,                    \* the videos the platform may list
  Date,                      \* the day each of them was published
  Unavailable,               \* those whose metadata is permanently refused
  Cutoffs,                   \* values of cutoff_date
  Playlists,                 \* what the platform may list at first
  MaxConsecutiveBeforeCutoff,\* MAX_CONSECUTIVE_BEFORE_CUTOFF
  Budget                     \* how often each environment event may occur

BudgetKeys == {"faults", "edits", "redetections"}

ASSUME SourceIndexerAssumption ==
  /\ IsFiniteSet(Videos) /\ Unavailable \subseteq Videos
  /\ Date \in [Videos -> Nat]
  /\ Cutoffs \subseteq Nat /\ Cutoffs # {}
  /\ Playlists \subseteq Seq(Videos)
  /\ MaxConsecutiveBeforeCutoff \in Nat \ {0}
  /\ Budget \in [BudgetKeys -> Nat]

VARIABLES
  playlist,     \* what the platform lists now
  cutoff_date,  \* the column of that name
  entry_order,  \* the stored verdict
  detected_at,  \* entry_order_detected_at: "none", "fresh" or older than REDETECTION_DAYS
  stored,       \* the videos that are in the table
  known,        \* those that are linked to the source
  run,          \* phase of the index run
  source,       \* the run's copy of the row: cutoff_date, entry_order, detected_at
  entries,      \* the entries it fetched
  queue,        \* those it has yet to process, in the order of the plan
  early_termination,
  consecutive_before_cutoff,
  excused,      \* history: entries this run passed over for their own error
  aborted,      \* history: this run was rate limited
  budget        \* what is left of Budget

runVars == <<run, source, entries, queue, early_termination, consecutive_before_cutoff,
             excused, aborted>>
rowVars == <<cutoff_date, entry_order, detected_at>>
vars == <<playlist, rowVars, stored, known, runVars, budget>>

-----------------------------------------------------------------------------
(* Types *)

EntryOrder == {"unknown", "ascending", "descending", "unordered"}

DetectedAt == {"none", "fresh", "stale"}

RunPhase == {"idle", "started", "fetched", "scanning", "done"}

SourceCopy == [cutoff_date : Cutoffs, entry_order : EntryOrder, detected_at : DetectedAt]

TypeOK ==
  /\ playlist \in Seq(Videos) /\ entries \in Seq(Videos) /\ queue \in Seq(Videos)
  /\ cutoff_date \in Cutoffs /\ entry_order \in EntryOrder /\ detected_at \in DetectedAt
  /\ stored \subseteq Videos /\ known \subseteq stored /\ excused \subseteq Videos
  /\ run \in RunPhase /\ source \in SourceCopy
  /\ early_termination \in BOOLEAN /\ aborted \in BOOLEAN
  /\ consecutive_before_cutoff \in 0 .. MaxConsecutiveBeforeCutoff - 1
  /\ budget \in [BudgetKeys -> Nat]

-----------------------------------------------------------------------------
(* Helpers *)

Spend(key) == budget[key] > 0 /\ budget' = [budget EXCEPT ![key] = @ - 1]

BeforeCutoff(v) == Date[v] < source.cutoff_date

\* Mutant: what the dates of two entries cannot tell is taken for disorder.
OrderFromDatesOrUnordered(first, last) ==
  IF Date[first] < Date[last] THEN "ascending"
  ELSE IF Date[first] > Date[last] THEN "descending" ELSE "unordered"

\* determine_order_from_dates; "unknown" stands for no conclusion.
OrderFromDates(first, last) ==
  IF Date[first] < Date[last] THEN "ascending"
  ELSE IF Date[first] > Date[last] THEN "descending" ELSE "unknown"

NeedsDetection ==
  \/ source.entry_order = "unknown"
  \/ source.detected_at # "fresh"

\* Mutant: a scan of unknown order stops early too.
StopsAlways(order) == TRUE

\* EntryOrderPlan: only a known direction lets a run stop early.
StopsEarly(order) == order \in {"ascending", "descending"}

\* Mutant: an ascending playlist is scanned as it comes.
ScanAsListed(order) == entries

\* The newest entries come first.
ScanOrder(order) == IF order = "ascending" THEN Reverse(entries) ELSE entries

-----------------------------------------------------------------------------
(* An index run *)

\* The scheduler spawns the indexer with a copy of the row.
StartRun ==
  /\ run = "idle"
  /\ run' = "started"
  /\ source' = [cutoff_date |-> cutoff_date, entry_order |-> entry_order,
                detected_at |-> detected_at]
  /\ excused' = {} /\ aborted' = FALSE
  /\ UNCHANGED <<playlist, rowVars, stored, known, entries, queue, early_termination,
                 consecutive_before_cutoff, budget>>

\* index_source; a fetch that fails ends the run.
FetchPlaylist ==
  /\ run = "started"
  /\ \/ run' = "fetched" /\ entries' = playlist /\ UNCHANGED budget
     \/ run' = "idle" /\ Spend("faults") /\ UNCHANGED entries
  /\ UNCHANGED <<playlist, rowVars, stored, known, source, queue, early_termination,
                 consecutive_before_cutoff, excused, aborted>>

\* Plan(order): how the entries are scanned.
Plan(order) ==
  /\ queue' = ScanOrder(order)
  /\ early_termination' = StopsEarly(order)
  /\ consecutive_before_cutoff' = 0
  /\ run' = "scanning"

\* update_source_entry_order stamps the verdict; a failed write is logged.
Persist(order) ==
  \/ entry_order' = order /\ detected_at' = "fresh" /\ UNCHANGED budget
  \/ Spend("faults") /\ UNCHANGED <<entry_order, detected_at>>

\* Detection looks at the two ends; a failed look is inconclusive.
DetectEntryOrder ==
  /\ run = "fetched"
  /\ \/ /\ ~NeedsDetection
        /\ Plan(source.entry_order)
        /\ UNCHANGED <<entry_order, detected_at, budget>>
     \/ /\ NeedsDetection /\ Len(entries) < 2
        /\ Plan("unknown")
        /\ UNCHANGED <<entry_order, detected_at, budget>>
     \/ /\ NeedsDetection /\ Len(entries) >= 2
        /\ {entries[1], Last(entries)} \cap Unavailable # {}
        /\ Plan("unknown")
        /\ UNCHANGED <<entry_order, detected_at, budget>>
     \/ /\ NeedsDetection /\ Len(entries) >= 2
        /\ Plan("unknown")
        /\ Spend("faults")
        /\ UNCHANGED <<entry_order, detected_at>>
     \/ /\ NeedsDetection /\ Len(entries) >= 2
        /\ {entries[1], Last(entries)} \cap Unavailable = {}
        /\ LET order == OrderFromDates(entries[1], Last(entries))
           IN  /\ Plan(order)
               /\ IF order = "unknown" THEN UNCHANGED <<entry_order, detected_at, budget>>
                  ELSE Persist(order)
  /\ UNCHANGED <<playlist, cutoff_date, stored, known, source, entries, excused, aborted>>

\* Every outcome but BeforeCutoff resets the counter.
Pass == queue' = Tail(queue) /\ consecutive_before_cutoff' = 0 /\ UNCHANGED run

\* Mutant: the counter is tested before the entry is counted.
EnoughOneLate == consecutive_before_cutoff >= MaxConsecutiveBeforeCutoff

Enough == consecutive_before_cutoff + 1 >= MaxConsecutiveBeforeCutoff

\* EntryOutcome::BeforeCutoff. The counter only matters, and is only kept
\* here, for a run that may stop early.
CountBeforeCutoff ==
  \/ /\ early_termination /\ Enough
     /\ run' = "done" /\ queue' = <<>>
     /\ UNCHANGED consecutive_before_cutoff
  \/ /\ early_termination /\ ~Enough
     /\ queue' = Tail(queue)
     /\ consecutive_before_cutoff' = consecutive_before_cutoff + 1
     /\ UNCHANGED run
  \/ /\ ~early_termination
     /\ queue' = Tail(queue)
     /\ UNCHANGED <<run, consecutive_before_cutoff>>

\* process_entry and what the loop makes of its outcome: Existing (which
\* links the video), unavailable or age restricted, before the cutoff, New.
ProcessEntry ==
  /\ run = "scanning" /\ queue # <<>>
  /\ LET v == Head(queue)
     IN  \/ /\ v \in stored
            /\ known' = known \cup {v}
            /\ Pass /\ UNCHANGED stored
         \/ /\ v \in Unavailable \ stored
            /\ Pass /\ UNCHANGED <<stored, known>>
         \/ /\ v \notin stored \cup Unavailable /\ BeforeCutoff(v)
            /\ CountBeforeCutoff /\ UNCHANGED <<stored, known>>
         \/ /\ v \notin stored \cup Unavailable /\ ~BeforeCutoff(v)
            /\ stored' = stored \cup {v} /\ known' = known \cup {v}
            /\ Pass
  /\ UNCHANGED <<playlist, rowVars, source, entries, early_termination, excused, aborted, budget>>

\* A look-up, a fetch or a write fails: the loop goes on with the next entry.
\* A new video whose link fails is in the table already.
EntryFails ==
  /\ run = "scanning" /\ queue # <<>>
  /\ LET v == Head(queue)
     IN  /\ excused' = excused \cup {v}
         /\ \/ UNCHANGED stored
            \/ /\ v \notin stored \cup Unavailable /\ ~BeforeCutoff(v)
               /\ stored' = stored \cup {v}
  /\ Pass
  /\ Spend("faults")
  /\ UNCHANGED <<playlist, rowVars, known, source, entries, early_termination, aborted>>

\* A rate-limited metadata fetch ends the run.
EntryRateLimited ==
  /\ run = "scanning" /\ queue # <<>> /\ Head(queue) \notin stored
  /\ aborted' = TRUE
  /\ run' = "done" /\ queue' = <<>>
  /\ Spend("faults")
  /\ UNCHANGED <<playlist, rowVars, stored, known, source, entries, early_termination,
                 consecutive_before_cutoff, excused>>

EndOfEntries ==
  /\ run = "scanning" /\ queue = <<>>
  /\ run' = "done"
  /\ UNCHANGED <<playlist, rowVars, stored, known, source, entries, queue, early_termination,
                 consecutive_before_cutoff, excused, aborted, budget>>

\* The result is sent and the indexer stops; the scheduler starts the next.
EndRun ==
  /\ run = "done"
  /\ run' = "idle"
  /\ consecutive_before_cutoff' = 0
  /\ UNCHANGED <<playlist, rowVars, stored, known, source, entries, queue, early_termination, excused,
                 aborted, budget>>

-----------------------------------------------------------------------------
(* The platform, the operator and the clock *)

Ascending(list) == \A i, j \in DOMAIN list : i < j => Date[list[i]] <= Date[list[j]]

Descending(list) == \A i, j \in DOMAIN list : i < j => Date[list[i]] >= Date[list[j]]

\* A new video is published: it is no older than what is listed, and appears
\* at the end the platform uses for new videos.
Publish ==
  /\ \E v \in Videos \ ToSet(playlist) :
       /\ \A w \in ToSet(playlist) : Date[w] <= Date[v]
       /\ \/ Ascending(playlist) /\ playlist' = Append(playlist, v)
          \/ Descending(playlist) /\ playlist' = <<v>> \o playlist
       /\ Ascending(playlist') => Ascending(playlist)
       /\ Descending(playlist') => Descending(playlist)
  /\ Spend("edits")
  /\ UNCHANGED <<rowVars, stored, known, runVars>>

\* update_source: cutoff_date.
SetCutoff ==
  /\ Spend("edits")
  /\ \E d \in Cutoffs \ {cutoff_date} : cutoff_date' = d
  /\ UNCHANGED <<playlist, entry_order, detected_at, stored, known, runVars>>

\* REDETECTION_DAYS pass.
VerdictAges ==
  /\ Spend("redetections")
  /\ detected_at = "fresh"
  /\ detected_at' = "stale"
  /\ UNCHANGED <<playlist, cutoff_date, entry_order, stored, known, runVars>>

-----------------------------------------------------------------------------

Init ==
  /\ playlist \in Playlists
  /\ cutoff_date \in Cutoffs
  /\ entry_order = "unknown" /\ detected_at = "none"
  /\ stored = {} /\ known = {}
  /\ run = "idle"
  /\ source = [cutoff_date |-> cutoff_date, entry_order |-> "unknown", detected_at |-> "none"]
  /\ entries = <<>> /\ queue = <<>>
  /\ early_termination = FALSE
  /\ consecutive_before_cutoff = 0
  /\ excused = {} /\ aborted = FALSE
  /\ budget = Budget

RunStep ==
  \/ StartRun \/ FetchPlaylist \/ DetectEntryOrder
  \/ ProcessEntry \/ EntryFails \/ EntryRateLimited \/ EndOfEntries
  \/ EndRun

Next == RunStep \/ Publish \/ SetCutoff \/ VerdictAges

Spec == Init /\ [][Next]_vars

\* The scheduler indexes a due source again and again (DueIsIndexed of module
\* Scheduler), and a run takes its steps.
FairSpec == Spec /\ WF_vars(RunStep)

-----------------------------------------------------------------------------
(* Properties *)

\* Early termination is sound: a run that was not rate limited has every
\* entry on or after its cutoff, but for those whose own processing failed.
NothingMissed ==
  run = "done" /\ ~aborted =>
    \A v \in ToSet(entries) \ (Unavailable \cup excused) : ~BeforeCutoff(v) => v \in known

\* The verdict that is stored is the direction of the playlist: failed looks
\* and undecidable dates never leave another one behind.
VerdictIsTrue ==
  \/ entry_order = "unknown"
  \/ entry_order = "ascending" /\ Ascending(playlist)
  \/ entry_order = "descending" /\ Descending(playlist)

\* Every listed video on or after the cutoff ends up in the table, whatever
\* failed in the runs before.
WantedIsFound ==
  \A v \in Videos \ Unavailable :
    (v \in ToSet(playlist) /\ Date[v] >= cutoff_date) ~> (v \in known \/ Date[v] < cutoff_date)
==============================================================================
