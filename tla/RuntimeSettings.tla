--------------------------- MODULE RuntimeSettings ---------------------------
(***************************************************************************)
(* The settings an operator changes while the process runs: the row of      *)
(* `runtime_settings` and its NOTIFY trigger, the requests that write it,   *)
(* and the one task that keeps the copy every actor reads                   *)
(* (crates/hof-core/src/runtime_config.rs, db/runtime_settings.rs,          *)
(* crates/hof-api/src/routes/settings.rs, hof-web/src/runtime/mod.rs).      *)
(*                                                                          *)
(* A setting is abstracted to the version of the row it was read from,      *)
(* except for the pauses, whose expiry the listener has to act on.  Layering *)
(* over environment and defaults is a function of the row and left out.     *)
(***************************************************************************)
EXTENDS Integers, FiniteSets

CONSTANTS
  Modules,    \* what can be paused: indexing, downloads
  MaxTime,    \* bound on the clock
  Never,      \* indefinite_pause()
  None,       \* NULL, not paused
  Budget      \* how often each environment event may occur

BudgetKeys == {"writes", "faults", "disconnects"}

Time == 0 .. MaxTime
Until == Time \cup {Never, None}

ASSUME SettingsAssumption ==
  /\ IsFiniteSet(Modules)
  /\ MaxTime \in Nat
  /\ Never # None /\ {Never, None} \cap Time = {}
  /\ Budget \in [BudgetKeys -> Nat]

VARIABLES
  now,        \* the clock
  row,        \* the row in the database
  link,       \* connection of the PgListener: "down", "up" or "broken" but not yet noticed
  notices,    \* notifications it has not received
  lost,       \* a notification was sent to a broken connection
  listener,   \* where the listener task is
  fetched,    \* the row its reload has read
  armed,      \* the deadline it sleeps towards
  cache,      \* what the watch channel holds
  refreshed,  \* history: when that was the last time
  missed,     \* history: a lost notification or a failed reload not made up for
  unanswered, \* the patch requests whose write is done, by the version it made
  reply,      \* the last response to a patch: the version written, the version shown
  panel,      \* an open control panel (server-sent events)
  budget      \* what is left of Budget

listenerVars == <<link, notices, lost, listener, fetched, armed>>
cacheVars == <<cache, refreshed>>
requestVars == <<unanswered, reply>>
vars == <<now, row, listenerVars, cacheVars, missed, requestVars, panel, budget>>

-----------------------------------------------------------------------------
(* Types *)

Row == [version : Nat, until : [Modules -> Until]]

Reply == [wrote : Nat, shows : Nat]

Panel == [pc : {"waiting", "rendering", "sending"}, unseen : BOOLEAN, shows : Nat]

TypeOK ==
  /\ now \in Time
  /\ row \in Row /\ fetched \in Row /\ cache \in Row
  /\ link \in {"down", "up", "broken"}
  /\ notices \in Nat /\ lost \in BOOLEAN
  /\ listener \in {"connecting", "reloading", "publishing", "waiting"}
  /\ armed \in Time \cup {None}
  /\ refreshed \in Time
  /\ missed \in BOOLEAN
  /\ unanswered \subseteq Nat /\ reply \in Reply
  /\ panel \in Panel
  /\ budget \in [BudgetKeys -> Nat]

-----------------------------------------------------------------------------
(* Helpers *)

Spend(key) == budget[key] > 0 /\ budget' = [budget EXCEPT ![key] = @ - 1]

FutureDeadlines(settings) == {settings.until[m] : m \in Modules} \cap (now + 1) .. MaxTime

\* next_pause_deadline: None also for a pause that never lapses.
NextPauseDeadline(settings) ==
  IF FutureDeadlines(settings) = {} THEN None
  ELSE CHOOSE d \in FutureDeadlines(settings) : \A e \in FutureDeadlines(settings) : d <= e

-----------------------------------------------------------------------------
(* Writers *)

\* The trigger notifies whoever listens at that moment.
Notify ==
  /\ notices' = IF link = "up" THEN notices + 1 ELSE notices
  /\ lost' = (lost \/ link = "broken")

\* patch_runtime_settings: the UPDATE sets the columns the patch touches.
UpdateRow(touched, until) ==
  /\ Spend("writes")
  /\ row' = [version |-> row.version + 1,
             until |-> [m \in Modules |-> IF m \in touched THEN until ELSE row.until[m]]]
  /\ Notify
  /\ unanswered' = unanswered \cup {row.version + 1}
  /\ UNCHANGED <<now, link, listener, fetched, armed, cacheVars, missed, reply, panel>>

\* A patch of the knobs, which validate_patch has let through.
PatchSettings == UpdateRow({}, None)

\* What a duration, or its absence, stands for.
PauseExpiries == {Never} \cup (now + 1) .. MaxTime

Pause ==
  \E touched \in (SUBSET Modules) \ {{}}, until \in PauseExpiries : UpdateRow(touched, until)

\* A genuine NULL, not an expiry in the past.
Resume == \E touched \in (SUBSET Modules) \ {{}} : UpdateRow(touched, None)

Write == PatchSettings \/ Pause \/ Resume

\* Mutant: the response is taken from the copy in memory.
CachedVersion == cache.version

ReadBackVersion == row.version

\* patch_runtime_settings: the SELECT the response is resolved from.
RespondToPatch ==
  \E v \in unanswered :
    /\ unanswered' = unanswered \ {v}
    /\ reply' = [wrote |-> v, shows |-> ReadBackVersion]
    /\ UNCHANGED <<now, row, listenerVars, cacheVars, missed, panel, budget>>

-----------------------------------------------------------------------------
(* The listener task *)

\* Mutant: after a reconnect the listener waits for the next notification.
ConnectedWaiting == listener' = "waiting"

\* A full resync follows every LISTEN.
Connected == listener' = "reloading"

\* connect_with and listen, after however many attempts.
Connect ==
  /\ listener = "connecting"
  /\ link' = "up" /\ notices' = 0 /\ lost' = FALSE
  /\ Connected
  /\ UNCHANGED <<now, row, fetched, armed, cacheVars, missed, requestVars, panel, budget>>

\* Mutant: the deadline is that of the settings before the change.
ArmFirst(settings) == armed' = NextPauseDeadline(cache)

Arm(settings) == armed' = NextPauseDeadline(settings)

\* reload: the SELECT.  A failure is logged and the loop goes on.
FetchRow ==
  /\ listener = "reloading"
  /\ \/ /\ listener' = "publishing" /\ fetched' = row
        /\ missed' = FALSE
        /\ UNCHANGED <<armed, budget>>
     \/ /\ Spend("faults")
        /\ listener' = "waiting"
        /\ missed' = TRUE
        /\ Arm(cache)
        /\ UNCHANGED fetched
  /\ UNCHANGED <<now, row, link, notices, lost, cacheVars, requestVars, panel>>

\* reload: send_replace; the next iteration computes its deadline.
Publish ==
  /\ listener = "publishing"
  /\ listener' = "waiting"
  /\ cache' = fetched
  /\ refreshed' = now
  /\ panel' = [panel EXCEPT !.unseen = TRUE]
  /\ LET current == fetched IN Arm(current)
  /\ UNCHANGED <<now, row, link, notices, lost, fetched, missed, requestVars, budget>>

ReceiveNotice ==
  /\ listener = "waiting" /\ link = "up" /\ notices > 0
  /\ notices' = notices - 1
  /\ listener' = "reloading"
  /\ UNCHANGED <<now, row, link, lost, fetched, armed, cacheVars, missed, requestVars, panel, budget>>

PauseLapses ==
  /\ listener = "waiting"
  /\ armed # None /\ armed <= now
  /\ listener' = "reloading"
  /\ UNCHANGED <<now, row, link, notices, lost, fetched, armed, cacheVars, missed, requestVars, panel,
                 budget>>

\* recv on a broken connection: PgListener reconnects and listens again on
\* its own, or gives up and returns an error.
NoticeBrokenLink ==
  /\ listener = "waiting" /\ link = "broken"
  /\ \/ /\ link' = "up" /\ lost' = FALSE
        /\ missed' = (missed \/ lost)
        /\ UNCHANGED listener
     \/ /\ link' = "down" /\ lost' = FALSE
        /\ listener' = "connecting"
        /\ UNCHANGED missed
  /\ UNCHANGED <<now, row, notices, fetched, armed, cacheVars, requestVars, panel, budget>>

ListenerStep ==
  Connect \/ FetchRow \/ Publish \/ ReceiveNotice \/ PauseLapses \/ NoticeBrokenLink

-----------------------------------------------------------------------------
(* The control panel: runtime_events_sse *)

PanelMoves(pc, unseen, shows) == panel' = [pc |-> pc, unseen |-> unseen, shows |-> shows]

PanelUnchanged ==
  UNCHANGED <<now, row, listenerVars, cacheVars, missed, requestVars, budget>>

\* changed() resolves; after the coalescing window, mark_unchanged.
MarkUnchanged ==
  /\ panel.pc = "waiting" /\ panel.unseen
  /\ PanelMoves("rendering", FALSE, panel.shows)
  /\ PanelUnchanged

\* build_view reads current() before it asks the actors.
BuildView ==
  /\ panel.pc = "rendering"
  /\ PanelMoves("sending", panel.unseen, cache.version)
  /\ PanelUnchanged

\* Mutant: the changes are marked as seen once the view is built.
SentAndMarked == PanelMoves("waiting", FALSE, panel.shows)

Sent == PanelMoves("waiting", panel.unseen, panel.shows)

SendPanel == panel.pc = "sending" /\ Sent /\ PanelUnchanged

PanelStep == MarkUnchanged \/ BuildView \/ SendPanel

-----------------------------------------------------------------------------
(* Time and the network *)

Tick ==
  /\ now < MaxTime
  /\ now' = now + 1
  /\ UNCHANGED <<row, listenerVars, cacheVars, missed, requestVars, panel, budget>>

Disconnect ==
  /\ link = "up"
  /\ Spend("disconnects")
  /\ link' = "broken"
  /\ lost' = (notices > 0) /\ notices' = 0
  /\ UNCHANGED <<now, row, listener, fetched, armed, cacheVars, missed, requestVars, panel>>

-----------------------------------------------------------------------------

\* RuntimeConfig::new has read the row before the listener starts.
Init ==
  /\ now = 0
  /\ row = [version |-> 0, until |-> [m \in Modules |-> None]]
  /\ link = "down" /\ notices = 0 /\ lost = FALSE
  /\ listener = "connecting" /\ fetched = row /\ armed = None
  /\ cache = row /\ refreshed = 0
  /\ missed = FALSE
  /\ unanswered = {} /\ reply = [wrote |-> 0, shows |-> 0]
  /\ panel = [pc |-> "waiting", unseen |-> FALSE, shows |-> 0]
  /\ budget = Budget

Next == ListenerStep \/ PanelStep \/ Write \/ RespondToPatch \/ Tick \/ Disconnect

Spec == Init /\ [][Next]_vars

\* The runtime runs the tasks, time passes, and the database comes back.
Fairness == WF_vars(ListenerStep) /\ WF_vars(PanelStep) /\ WF_vars(Tick)

FairSpec == Spec /\ Fairness

-----------------------------------------------------------------------------
(* Properties *)

\* The copy implements the view promised to the actors.  Its versions only
\* grow although it is read in one step and published in another, and a
\* change gets through notifications, reconnects and resyncs unless it is
\* among those `missed` tells of.
View == INSTANCE SettingsView WITH stored <- row.version, seen <- cache.version

CacheIsView == View!Spec

\* The response to a patch is never older than the patch itself, whatever the
\* listener has heard of by then.
ReadYourWrites == reply.shows >= reply.wrote

Lapsed(d) == now >= d /\ refreshed < d /\ \E m \in Modules : cache.until[m] = d

\* When a pause lapses, whoever waits for a change of the settings is woken,
\* also if the pause was shortened while the listener slept towards its end.
LapseIsPublished == \A d \in 1 .. MaxTime : (Lapsed(d) /\ ~missed) ~> (~Lapsed(d) \/ missed)

\* A change is not lost between two renderings of the control panel.
PanelCatchesUp ==
  \A v \in 1 .. Budget["writes"] : cache.version = v ~> panel.shows >= v
==============================================================================
