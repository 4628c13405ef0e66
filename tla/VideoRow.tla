------------------------------ MODULE VideoRow ------------------------------
(***************************************************************************)
(* One row of the `videos` table and the SQL statements that change it     *)
(* (crates/hof-core/src/db/video.rs).  The statements are pure operators:  *)
(* each maps the row before the statement to the row after it.             *)
(*                                                                         *)
(* Of the row the model keeps the columns the download pipeline decides    *)
(* on.  A wall-clock `next_retry` is abstracted to how it compares with    *)
(* NOW(): "none" (NULL), "future" or "due".  A row that is not in the      *)
(* table has status "absent".                                              *)
(***************************************************************************)
EXTENDS Integers

CONSTANT MaxAttempts   \* `max_attempts` of the download configuration

ASSUME MaxAttemptsAssumption == MaxAttempts \in Nat

VideoStatus == {"pending", "awaiting_quality", "downloading", "completed",
                "failed", "skipped", "cleaned", "permanently_failed"}

RetryTime == {"none", "future", "due"}

Row == [status : VideoStatus \cup {"absent"}, attempts : Nat, next_retry : RetryTime,
        skip_quality_gate : BOOLEAN]

Absent == [status |-> "absent", attempts |-> 0, next_retry |-> "none",
           skip_quality_gate |-> FALSE]

\* What a `Video` read from the table tells its reader about eligibility.
Snapshot == [status : VideoStatus \cup {"absent"}, next_retry : RetryTime]

SnapshotOf(r) == [status |-> r.status, next_retry |-> r.next_retry]

-----------------------------------------------------------------------------

\* upsert_video for a video the table does not hold: column defaults apply.
NewVideo == [Absent EXCEPT !.status = "pending"]

\* upsert_video: ON CONFLICT only metadata columns are updated.
UpsertVideo(r) == IF r.status = "absent" THEN NewVideo ELSE r

\* list_videos_ready_for_download: the WHERE clause of the sweep.
ReadyForDownload(r) ==
  \/ r.status = "pending"
  \/ r.status \in {"failed", "awaiting_quality"} /\ r.next_retry = "due"

\* update_video_status: only a row leaving awaiting_quality drops its recheck.
UpdateVideoStatus(r, status) ==
  [r EXCEPT !.status = status,
            !.next_retry = IF r.status = "awaiting_quality" THEN "none" ELSE @]

MarkVideoDownloading(r) ==
  [r EXCEPT !.status = "downloading", !.attempts = @ + 1, !.next_retry = "none"]

MarkVideoCompleted(r) ==
  [r EXCEPT !.status = "completed", !.next_retry = "none"]

\* defer_video_for_quality hands back the attempt the claim counted:
\* GREATEST(attempts - 1, 0).
DeferVideoForQuality(r) ==
  [r EXCEPT !.status = "awaiting_quality",
            !.attempts = IF @ > 0 THEN @ - 1 ELSE 0,
            !.next_retry = "future"]

\* release_from_quality_gate, on a row its WHERE clause matches.
ReleaseFromQualityGate(r) ==
  [r EXCEPT !.status = "pending", !.next_retry = "none", !.skip_quality_gate = TRUE]

\* How handle_failure decides, on the attempts its get_video returned (the
\* claim has already counted this one).
Verdict == {"retry", "permanent"}

\* Mutant: one attempt too many.
JudgeLate(attempts) == IF attempts > MaxAttempts THEN "permanent" ELSE "retry"

Judge(attempts) == IF attempts >= MaxAttempts THEN "permanent" ELSE "retry"

\* mark_video_failed writes what was decided, whatever the row holds by then.
MarkVideoFailed(r, verdict) ==
  IF verdict = "permanent"
  THEN [r EXCEPT !.status = "permanently_failed", !.next_retry = "none"]
  ELSE [r EXCEPT !.status = "failed", !.next_retry = "future"]

\* Mutant: nothing is recovered.
ResetNothing(r) == r

\* reset_stuck_downloads, run once while the process boots.
ResetStuckDownload(r) ==
  IF r.status = "downloading" THEN [r EXCEPT !.status = "pending"] ELSE r

-----------------------------------------------------------------------------

\* The status match of dispatch_download on the snapshot the message carries.
\* `elapsed` says whether a next_retry that lay ahead when the snapshot was
\* taken has passed by now.
Eligible(snap, elapsed) ==
  \/ snap.status \in {"pending", "cleaned"}
  \/ /\ snap.status \in {"failed", "awaiting_quality"}
     /\ snap.next_retry = "future" => elapsed
=============================================================================
