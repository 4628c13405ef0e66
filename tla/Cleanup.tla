------------------------------- MODULE Cleanup -------------------------------
(***************************************************************************)
(* The cleanup actor: retention and storage quotas                          *)
(* (crates/hof-core/src/actors/cleanup.rs, db/video.rs), together with what *)
(* changes the rows and files it works on while it runs: operators deleting *)
(* and retrying videos, downloads that complete, sources excluded from      *)
(* cleanup or removed.                                                      *)
(*                                                                          *)
(* A run reads lists and works through them; only the file system call and  *)
(* the UPDATE behind it look at the world again.  The downloads are reduced *)
(* to claim, move and mark.  Temporary files are left out.                  *)
(***************************************************************************)
EXTENDS Integers, Sequences, FiniteSets, FiniteSetsExt, SequencesExt

CONSTANTS
  Videos, Sources, Profiles,
  Links,             \* source_videos: pairs of a source and a video
  ProfileOf,         \* profile of a source
  SourceRetention,   \* retention_days of a source, None for NULL
  ProfileRetention,  \* retention_days of a profile
  GlobalRetention,   \* RETENTION_DAYS
  Size,              \* file_size_bytes of a video
  Quota,             \* storage_quota_bytes of a profile
  MaxTime,           \* bound on the clock, in days
  MailboxCap,        \* capacity of the actor's mailbox
  None,
  Budget             \* how often each environment event may occur

BudgetKeys == {"requests", "failures"}

Retention == Nat \cup {None}

ASSUME CleanupAssumption ==
  /\ IsFiniteSet(Videos) /\ IsFiniteSet(Sources) /\ IsFiniteSet(Profiles)
  /\ Links \subseteq Sources \X Videos
  /\ ProfileOf \in [Sources -> Profiles]
  /\ SourceRetention \in [Sources -> Retention]
  /\ ProfileRetention \in [Profiles -> Retention]
  /\ GlobalRetention \in Retention
  /\ Size \in [Videos -> Nat \ {0}] /\ Quota \in [Profiles -> Nat]
  /\ MaxTime \in Nat \ {0} /\ MailboxCap \in Nat \ {0}
  /\ None \notin Videos \cup Nat \cup Profiles
  /\ Budget \in [BudgetKeys -> Nat]

VARIABLES
  now,        \* the clock
  status,     \* status of a row
  since,      \* downloaded_at of a row
  files,      \* the videos whose file is in the library
  sources,    \* the sources that exist
  excluded,   \* those with exclude_from_cleanup
  runs,       \* RunCleanup messages in the mailbox
  phase,      \* where the run is
  todo,       \* rest of the list it works through
  unlinked,   \* the video whose file it has handled and whose row it has not
  profiles,   \* profiles enforce_quotas has not looked at
  profile,    \* the one it works on
  owed,       \* over_quota - freed
  deleting,   \* the same as unlinked, for an operator's delete
  grounds,    \* history: videos there was a reason to clean since the run began
  shrunk,     \* history: others lowered a usage since it was calculated
  budget      \* what is left of Budget

rowVars == <<status, since, files>>
sourceVars == <<sources, excluded>>
runVars == <<phase, todo, unlinked, profiles, profile, owed>>
vars == <<now, rowVars, sourceVars, runs, runVars, deleting, grounds, shrunk, budget>>

Status == {"pending", "downloading", "completed", "cleaned"}

Phase == {"idle", "list_expired", "retention", "usage", "by_age", "quota"}

TypeOK ==
  /\ now \in 0 .. MaxTime
  /\ status \in [Videos -> Status]
  /\ since \in [Videos -> 0 .. MaxTime]
  /\ files \subseteq Videos
  /\ sources \subseteq Sources /\ excluded \subseteq Sources
  /\ runs \in 0 .. MailboxCap
  /\ phase \in Phase
  /\ todo \in Seq(Videos) /\ unlinked \in Videos \cup {None}
  /\ profiles \subseteq Profiles /\ profile \in Profiles \cup {None}
  /\ owed \in Int
  /\ deleting \in Videos \cup {None}
  /\ grounds \subseteq Videos /\ shrunk \in BOOLEAN
  /\ budget \in [BudgetKeys -> Nat]

-----------------------------------------------------------------------------
(* The statements and the lists they produce *)

Spend(key) == budget[key] > 0 /\ budget' = [budget EXCEPT ![key] = @ - 1]

SourcesOf(v) == {s \in sources : <<s, v>> \in Links}

Coalesce(a, b) == IF a # None THEN a ELSE b

\* COALESCE(s.retention_days, p.retention_days, $1)
EffectiveRetention(s) ==
  Coalesce(SourceRetention[s], Coalesce(ProfileRetention[ProfileOf[s]], GlobalRetention))

Expires(s, v) == EffectiveRetention(s) # None /\ since[v] + EffectiveRetention(s) <= now

\* A NULL retention keeps for ever; no source, no retention.
Expired(v) == \A s \in SourcesOf(v) : Expires(s, v)

Vetoed(v) == SourcesOf(v) \cap excluded # {}

\* list_videos_past_retention
PastRetention(v) == status[v] = "completed" /\ Expired(v) /\ ~Vetoed(v)

Keeping(v) == {s \in SourcesOf(v) : EffectiveRetention(s) = None}

\* Mutant: the earliest expiry is announced.
EarliestDeletion(v) ==
  IF status[v] # "completed" \/ SourcesOf(v) = {} \/ Keeping(v) # {} THEN None
  ELSE since[v] + Min({EffectiveRetention(s) : s \in SourcesOf(v)})

\* list_videos_pending_deletion: scheduled_deletion_at.
ScheduledDeletion(v) ==
  IF status[v] # "completed" \/ SourcesOf(v) = {} \/ Keeping(v) # {} THEN None
  ELSE since[v] + Max({EffectiveRetention(s) : s \in SourcesOf(v)})

VideosOf(p) == {v \in Videos : \E s \in SourcesOf(v) : ProfileOf[s] = p}

Completed(p) == {v \in VideosOf(p) : status[v] = "completed"}

Bytes(v) == {v} \X (1 .. Size[v])

\* calculate_profile_usage: a video counts once.
Usage(p) == Cardinality(UNION {Bytes(v) : v \in Completed(p)})

\* get_profile_videos_by_age: what the profile's excluded sources protect.
Protected(p) ==
  {v \in Videos : \E s \in SourcesOf(v) : ProfileOf[s] = p /\ s \in excluded}

Evictable(p) == Completed(p) \ Protected(p)

\* Oldest first; equally old videos come in any order.
OldestFirst(S) ==
  {order \in SetToSeqs(S) :
     \A i, j \in DOMAIN order : i < j => since[order[i]] <= since[order[j]]}

-----------------------------------------------------------------------------
(* The loop and the mailbox *)

\* A mailbox that stays full costs the tick and no more.
TickerFires ==
  /\ runs' = IF runs < MailboxCap THEN runs + 1 ELSE runs
  /\ UNCHANGED <<now, rowVars, sourceVars, runVars, deleting, shrunk, budget>>

\* trigger_cleanup
TriggerCleanup ==
  /\ Spend("requests")
  /\ runs < MailboxCap
  /\ runs' = runs + 1
  /\ UNCHANGED <<now, rowVars, sourceVars, runVars, deleting, shrunk>>

-----------------------------------------------------------------------------
(* RunCleanup *)

RunUnchanged == UNCHANGED <<now, sourceVars, deleting>>

RunCleanup ==
  /\ phase = "idle" /\ runs > 0
  /\ runs' = runs - 1
  /\ phase' = "list_expired"
  /\ UNCHANGED <<rowVars, todo, unlinked, profiles, profile, owed, shrunk, budget>>
  /\ RunUnchanged

\* cleanup_retention; if it fails, the quotas follow all the same.
ListExpired ==
  /\ phase = "list_expired"
  /\ \/ /\ phase' = "retention"
        /\ todo' \in OldestFirst({v \in Videos : PastRetention(v)})
        /\ UNCHANGED <<profiles, budget>>
     \/ /\ Spend("failures")
        /\ phase' = "usage" /\ profiles' = Profiles
        /\ UNCHANGED todo
  /\ UNCHANGED <<rowVars, runs, unlinked, profile, owed, shrunk>>
  /\ RunUnchanged

\* Mutant: one video more goes once the quota is met.
EnoughOneLate == owed < 0

Enough == owed <= 0

\* Mutant: a file already gone is an error.
UnlinkExisting(v) == files' = files \ {v} /\ unlinked' = IF v \in files THEN v ELSE None

\* A file already gone is no error: its row is written all the same.
Unlink(v) == files' = files \ {v} /\ unlinked' = v

\* clean_video: the file.
RemoveFile ==
  /\ phase = "retention" \/ (phase = "quota" /\ ~Enough)
  /\ unlinked = None /\ todo # <<>>
  /\ todo' = Tail(todo)
  /\ \/ Unlink(Head(todo)) /\ UNCHANGED budget
     \/ /\ Head(todo) \in files
        /\ Spend("failures")
        /\ UNCHANGED <<files, unlinked>>
  /\ UNCHANGED <<status, since, runs, phase, profiles, profile, owed, shrunk>>
  /\ RunUnchanged

\* clean_video: the row, whatever it says by now.  Bytes count as freed once
\* the row is written.
MarkCleaned ==
  /\ unlinked # None
  /\ unlinked' = None
  /\ \/ /\ status' = [status EXCEPT ![unlinked] = "cleaned"]
        /\ owed' = IF phase = "quota" THEN owed - Size[unlinked] ELSE owed
        /\ UNCHANGED budget
     \/ /\ Spend("failures")
        /\ UNCHANGED <<status, owed>>
  /\ UNCHANGED <<since, files, runs, phase, todo, profiles, profile, shrunk>>
  /\ RunUnchanged

RetentionDone ==
  /\ phase = "retention" /\ unlinked = None /\ todo = <<>>
  /\ phase' = "usage" /\ profiles' = Profiles
  /\ UNCHANGED <<rowVars, runs, todo, unlinked, profile, owed, shrunk, budget>>
  /\ RunUnchanged

\* enforce_quotas: the usage of the next profile.  A failure ends the phase
\* for all profiles that are left.
ReadUsage ==
  /\ phase = "usage"
  /\ \/ \E p \in profiles :
          /\ profiles' = profiles \ {p}
          /\ shrunk' = FALSE
          /\ IF Usage(p) <= Quota[p] THEN UNCHANGED <<phase, profile, owed>>
             ELSE phase' = "by_age" /\ profile' = p /\ owed' = Usage(p) - Quota[p]
          /\ UNCHANGED budget
     \/ /\ profiles # {}
        /\ Spend("failures")
        /\ phase' = "idle" /\ profiles' = {}
        /\ UNCHANGED <<profile, owed, shrunk>>
  /\ UNCHANGED <<rowVars, runs, todo, unlinked>>
  /\ RunUnchanged

ListByAge ==
  /\ phase = "by_age"
  /\ \/ /\ phase' = "quota"
        /\ todo' \in OldestFirst(Evictable(profile))
        /\ UNCHANGED <<profiles, profile, owed, budget>>
     \/ /\ Spend("failures")
        /\ phase' = "idle" /\ profiles' = {} /\ profile' = None /\ owed' = 0
        /\ UNCHANGED todo
  /\ UNCHANGED <<rowVars, runs, unlinked, shrunk>>
  /\ RunUnchanged

QuotaDone ==
  /\ phase = "quota" /\ unlinked = None
  /\ todo = <<>> \/ Enough
  /\ phase' = "usage" /\ todo' = <<>> /\ profile' = None /\ owed' = 0
  /\ UNCHANGED <<rowVars, runs, unlinked, profiles, shrunk, budget>>
  /\ RunUnchanged

CleanupDone ==
  /\ phase = "usage" /\ profiles = {}
  /\ phase' = "idle"
  /\ UNCHANGED <<rowVars, runs, todo, unlinked, profiles, profile, owed, shrunk, budget>>
  /\ RunUnchanged

CleanupStep ==
  \/ RunCleanup \/ ListExpired \/ RemoveFile \/ MarkCleaned \/ RetentionDone
  \/ ReadUsage \/ ListByAge \/ QuotaDone \/ CleanupDone

-----------------------------------------------------------------------------
(* Everybody else *)

OthersUnchanged == UNCHANGED <<runs, runVars>>

\* delete_one: the file, then the row.
DeleteFile(v) ==
  /\ deleting = None /\ status[v] = "completed"
  /\ Spend("requests")
  /\ files' = files \ {v} /\ deleting' = v
  /\ UNCHANGED <<now, status, since, sourceVars, shrunk>>
  /\ OthersUnchanged

DeleteRow ==
  /\ deleting # None
  /\ status' = [status EXCEPT ![deleting] = "cleaned"]
  /\ deleting' = None /\ shrunk' = TRUE
  /\ UNCHANGED <<now, since, files, sourceVars, budget>>
  /\ OthersUnchanged

\* retry_one
Retry(v) ==
  /\ status[v] = "cleaned"
  /\ Spend("requests")
  /\ status' = [status EXCEPT ![v] = "pending"]
  /\ UNCHANGED <<now, since, files, sourceVars, deleting, shrunk>>
  /\ OthersUnchanged

Claim(v) ==
  /\ status[v] = "pending"
  /\ status' = [status EXCEPT ![v] = "downloading"]
  /\ UNCHANGED <<now, since, files, sourceVars, deleting, shrunk, budget>>
  /\ OthersUnchanged

\* move_to_completed
MoveToCompleted(v) ==
  /\ status[v] = "downloading" /\ v \notin files
  /\ files' = files \cup {v}
  /\ UNCHANGED <<now, status, since, sourceVars, deleting, shrunk, budget>>
  /\ OthersUnchanged

MarkCompleted(v) ==
  /\ status[v] = "downloading" /\ v \in files
  /\ status' = [status EXCEPT ![v] = "completed"]
  /\ since' = [since EXCEPT ![v] = now]
  /\ UNCHANGED <<now, files, sourceVars, deleting, shrunk, budget>>
  /\ OthersUnchanged

\* set_source_exclude_from_cleanup
ToggleExclude(s) ==
  /\ s \in sources
  /\ Spend("requests")
  /\ excluded' = SymDiff(excluded, {s})
  /\ UNCHANGED <<now, rowVars, sources, deleting, shrunk>>
  /\ OthersUnchanged

\* delete_source: its links go with it, its videos stay.
DeleteSource(s) ==
  /\ s \in sources
  /\ Spend("requests")
  /\ sources' = sources \ {s} /\ excluded' = excluded \ {s}
  /\ shrunk' = TRUE
  /\ UNCHANGED <<now, rowVars, deleting>>
  /\ OthersUnchanged

Tick ==
  /\ now < MaxTime
  /\ now' = now + 1
  /\ UNCHANGED <<rowVars, sourceVars, deleting, shrunk, budget>>
  /\ OthersUnchanged

\* The process dies and boots: interrupted downloads are pending again, and
\* the first run is triggered at once.
Crash ==
  /\ Spend("failures")
  /\ status' = [v \in Videos |-> IF status[v] = "downloading" THEN "pending" ELSE status[v]]
  /\ runs' = 1
  /\ phase' = "idle" /\ todo' = <<>> /\ unlinked' = None
  /\ profiles' = {} /\ profile' = None /\ owed' = 0
  /\ deleting' = None
  /\ UNCHANGED <<now, since, files, sourceVars, shrunk>>

Environment ==
  \/ TriggerCleanup \/ DeleteRow \/ Tick \/ Crash
  \/ \E v \in Videos :
       DeleteFile(v) \/ Retry(v) \/ Claim(v) \/ MoveToCompleted(v) \/ MarkCompleted(v)
  \/ \E s \in Sources : ToggleExclude(s) \/ DeleteSource(s)

-----------------------------------------------------------------------------
(* Specification *)

\* There is a reason to clean a video: its retention, or a profile of it that
\* was found over its quota; and none of its sources has a veto.
Due ==
  {v \in Videos :
     /\ status[v] = "completed" /\ ~Vetoed(v)
     /\ Expired(v) \/ v \in VideosOf(profile)}

NoteGrounds == grounds' = IF phase' = "idle" THEN {} ELSE grounds \cup Due'

Init ==
  /\ now = 1
  /\ status = [v \in Videos |-> "completed"]
  /\ since \in [Videos -> {0, 1}]
  /\ files = Videos
  /\ sources = Sources /\ excluded \in SUBSET Sources
  /\ runs = 1
  /\ phase = "idle" /\ todo = <<>> /\ unlinked = None
  /\ profiles = {} /\ profile = None /\ owed = 0
  /\ deleting = None
  /\ grounds = {} /\ shrunk = FALSE
  /\ budget = Budget

Next == (TickerFires \/ CleanupStep \/ Environment) /\ NoteGrounds

Spec == Init /\ [][Next]_vars

\* The runtime runs the loop and the actor.
Fairness == WF_vars(TickerFires /\ NoteGrounds) /\ WF_vars(CleanupStep /\ NoteGrounds)

FairSpec == Spec /\ Fairness

-----------------------------------------------------------------------------
(* Properties *)

\* The actor removes the file of v.
Removes(v) == v \in files \ files' /\ unlinked' = v /\ unlinked # v

\* A file is only removed if, at some moment of the run, the video was
\* completed, past the retention of all its sources or in a profile found over
\* its quota, and linked to no source that is excluded from cleanup.  (It may
\* have become wanted since: the list is not read again.)
RemovedForCause == [][\A v \in Videos : Removes(v) => v \in grounds]_vars

\* A quota takes no video more than it has to, unless somebody else freed
\* space or removed a source meanwhile.
QuotaStopsInTime ==
  [][\A v \in Videos : Removes(v) /\ phase = "quota"
       => Usage(profile) > Quota[profile] \/ shrunk]_vars

\* What retention removes was announced with its date, and what was announced
\* goes, but for videos without a source and for vetoed ones.
DeletionIsAnnounced ==
  \A v \in Videos :
    LET announced == ScheduledDeletion(v) # None /\ ScheduledDeletion(v) <= now
    IN /\ PastRetention(v) /\ SourcesOf(v) # {} => announced
       /\ announced => PastRetention(v) \/ Vetoed(v)

\* A video past retention goes, whatever mailbox, faults and crashes do to a run.
RetentionIsEnforced == \A v \in Videos : PastRetention(v) ~> ~PastRetention(v)

\* A profile over its quota gets below it or runs out of videos to evict.
QuotaIsEnforced ==
  \A p \in Profiles : Usage(p) > Quota[p] ~> Usage(p) <= Quota[p] \/ Evictable(p) = {}
==============================================================================
