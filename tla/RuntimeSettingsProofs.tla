------------------------ MODULE RuntimeSettingsProofs ------------------------
(***************************************************************************)
(* Proofs about RuntimeSettings, for every set of modules that can be       *)
(* paused, every clock bound and every budget of the environment.           *)
(***************************************************************************)
EXTENDS RuntimeSettings, WellFoundedInduction, TLAPS

(***************************************************************************)
(* Of the types, what the proofs below need.  The deadline is not among it: *)
(* no version depends on it.                                                *)
(***************************************************************************)
VersionTypes ==
  /\ now \in Nat
  /\ row \in Row /\ fetched \in Row /\ cache \in Row
  /\ missed \in BOOLEAN
  /\ unanswered \subseteq Nat /\ reply \in Reply

\* The copy lags behind what was last read, which lags behind the row, and
\* no request was told of a version that is not committed.
VersionInv ==
  /\ VersionTypes
  /\ cache.version <= fetched.version /\ fetched.version <= row.version
  /\ \A v \in unanswered : v <= row.version
  /\ reply.wrote <= reply.shows

LEMMA VersionInvInit == Init => VersionInv
<1> SUFFICES ASSUME Init PROVE VersionInv
  OBVIOUS
<1>1. row \in Row /\ row.version = 0
  BY DEF Init, Row, Until
<1>2. now = 0 /\ fetched = row /\ cache = row /\ missed = FALSE /\ unanswered = {}
  BY DEF Init
<1>3. reply \in Reply /\ reply.wrote <= reply.shows
  BY DEF Init, Reply
<1>4. VersionTypes
  BY <1>1, <1>2, <1>3 DEF VersionTypes
<1>5. cache.version <= fetched.version /\ fetched.version <= row.version
  BY <1>1, <1>2 DEF Row
<1>6. QED
  BY <1>2, <1>3, <1>4, <1>5 DEF VersionInv

\* A write: the new version is the only change of the versions.
LEMMA WriteFacts ==
  ASSUME VersionInv, Write
  PROVE  /\ row' \in Row /\ row'.version = row.version + 1
         /\ unanswered' = unanswered \cup {row.version + 1}
         /\ UNCHANGED <<now, fetched, cache, missed, reply>>
<1>1. PICK touched \in SUBSET Modules, until \in Until : UpdateRow(touched, until)
  <2>1. None \in Until /\ PauseExpiries \subseteq Until
    BY SettingsAssumption DEF PauseExpiries, Until, Time, VersionInv, VersionTypes
  <2>2. QED
    BY <2>1 DEF Write, PatchSettings, Pause, Resume
<1>2. \A m \in Modules : (IF m \in touched THEN until ELSE row.until[m]) \in Until
  BY DEF VersionInv, VersionTypes, Row
<1>3. row' = [version |-> row.version + 1,
              until |-> [m \in Modules |-> IF m \in touched THEN until ELSE row.until[m]]]
  BY <1>1 DEF UpdateRow
<1>4. row' \in Row /\ row'.version = row.version + 1
  <2>1. row.version + 1 \in Nat
    BY DEF VersionInv, VersionTypes, Row
  <2>2. QED
    BY <1>2, <1>3, <2>1 DEF Row
<1>5. QED
  BY <1>1, <1>4 DEF UpdateRow, listenerVars, cacheVars

LEMMA VersionInvNext == VersionInv /\ [Next]_vars => VersionInv'
<1> SUFFICES ASSUME VersionInv, [Next]_vars PROVE VersionInv'
  OBVIOUS
<1>1. CASE Write
  <2>1. \A v \in unanswered \cup {row.version + 1} : v \in Nat /\ v <= row.version + 1
    BY DEF VersionInv, VersionTypes, Row
  <2>2. fetched.version <= row.version + 1
    BY DEF VersionInv, VersionTypes, Row
  <2>3. QED
    BY <1>1, <2>1, <2>2, WriteFacts DEF VersionInv, VersionTypes
<1>2. CASE RespondToPatch
  <2>1. PICK v \in unanswered : /\ unanswered' = unanswered \ {v}
                                /\ reply' = [wrote |-> v, shows |-> row.version]
    BY <1>2 DEF RespondToPatch, ReadBackVersion
  <2>2. UNCHANGED <<now, row, fetched, cache, missed>>
    BY <1>2 DEF RespondToPatch, listenerVars, cacheVars
  <2>3. v \in Nat /\ v <= row.version /\ row.version \in Nat
    BY DEF VersionInv, VersionTypes, Row
  <2>4. reply' \in Reply /\ reply'.wrote <= reply'.shows
    BY <2>1, <2>3 DEF Reply
  <2>5. QED
    BY <2>1, <2>2, <2>4 DEF VersionInv, VersionTypes
<1>3. CASE Publish
  BY <1>3 DEF Publish, Row, VersionInv, VersionTypes, requestVars
<1>4. CASE FetchRow
  <2>1. UNCHANGED <<now, row, cache, unanswered, reply>> /\ missed' \in BOOLEAN
    BY <1>4 DEF FetchRow, requestVars, cacheVars
  <2>2. fetched' = row \/ fetched' = fetched
    BY <1>4 DEF FetchRow
  <2>3. cache.version <= row.version
    BY DEF VersionInv, VersionTypes, Row
  <2>4. QED
    BY <2>1, <2>2, <2>3 DEF VersionInv, VersionTypes, Row
<1>5. CASE NoticeBrokenLink
  BY <1>5 DEF NoticeBrokenLink, VersionInv, VersionTypes, requestVars, cacheVars
<1>6. CASE Connect \/ ReceiveNotice \/ PauseLapses \/ PanelStep \/ Disconnect
  <2>1. UNCHANGED <<now, row, fetched, cache, missed, unanswered, reply>>
    BY <1>6 DEF Connect, ReceiveNotice, PauseLapses, PanelStep, MarkUnchanged, BuildView,
       SendPanel, PanelUnchanged, Disconnect, listenerVars, cacheVars, requestVars
  <2>2. QED
    BY <2>1 DEF VersionInv, VersionTypes
<1>7. CASE Tick
  BY <1>7 DEF Tick, VersionInv, VersionTypes, listenerVars, cacheVars, requestVars
<1>8. CASE UNCHANGED vars
  BY <1>8 DEF vars, VersionInv, VersionTypes, listenerVars, cacheVars, requestVars
<1>9. QED
  BY <1>1, <1>2, <1>3, <1>4, <1>5, <1>6, <1>7, <1>8 DEF Next, ListenerStep

\* Read your writes: whatever the listener has heard of by then, the response
\* to a patch shows the settings as of that patch or later.
THEOREM WritesAreRead == Spec => []ReadYourWrites
<1>1. VersionInv => ReadYourWrites
  BY DEF VersionInv, VersionTypes, ReadYourWrites, Reply
<1>2. QED
  BY VersionInvInit, VersionInvNext, <1>1, PTL DEF Spec

(***************************************************************************)
(* Refinement of SettingsView, without the liveness of it.                  *)
(***************************************************************************)

LEMMA ViewInit == Init => View!Init
BY DEF Init, View!Init

LEMMA ViewNext == VersionInv /\ [Next]_vars => [View!Next]_(View!View)
<1> SUFFICES ASSUME VersionInv, [Next]_vars PROVE [View!Next]_(View!View)
  OBVIOUS
<1>1. CASE Write
  BY <1>1, WriteFacts DEF View!Next, View!Write
<1>2. CASE Publish
  <2>1. cache' = fetched /\ row' = row /\ missed' = missed
    BY <1>2 DEF Publish
  <2>2. /\ cache.version \in Nat /\ fetched.version \in Nat /\ row.version \in Nat
        /\ cache.version <= fetched.version /\ fetched.version <= row.version
    BY DEF VersionInv, VersionTypes, Row
  <2>3. CASE fetched.version = cache.version
    BY <2>1, <2>3 DEF View!View
  <2>4. CASE fetched.version # cache.version
    <3>1. fetched.version \in (cache.version + 1) .. row.version
      BY <2>2, <2>4
    <3>2. QED
      BY <2>1, <3>1 DEF View!Next, View!See
  <2>5. QED
    BY <2>3, <2>4
<1>3. CASE FetchRow \/ NoticeBrokenLink
  <2>1. row' = row /\ cache' = cache /\ missed' \in BOOLEAN /\ missed \in BOOLEAN
    BY <1>3 DEF FetchRow, NoticeBrokenLink, cacheVars, VersionInv, VersionTypes
  <2>2. missed' = missed \/ missed' = ~missed
    BY <2>1
  <2>3. QED
    BY <2>1, <2>2 DEF View!Next, View!Hear, View!View
<1>4. CASE \/ Connect \/ ReceiveNotice \/ PauseLapses \/ PanelStep \/ Disconnect
           \/ RespondToPatch \/ Tick \/ UNCHANGED vars
  <2>1. UNCHANGED <<row, cache, missed>>
    BY <1>4 DEF Connect, ReceiveNotice, PauseLapses, PanelStep, MarkUnchanged, BuildView,
       SendPanel, PanelUnchanged, Disconnect, RespondToPatch, Tick, vars, cacheVars
  <2>2. QED
    BY <2>1 DEF View!View
<1>5. QED
  BY <1>1, <1>2, <1>3, <1>4 DEF Next, ListenerStep

\* The safety half of CacheIsView: the copy every actor reads is always a
\* version that was committed, and never gives way to an older one.
THEOREM CacheNeverGoesBack == Spec => View!Init /\ [][View!Next]_(View!View)
<1>1. Spec => []VersionInv
  BY VersionInvInit, VersionInvNext, PTL DEF Spec
<1>2. QED
  BY <1>1, ViewInit, ViewNext, PTL DEF Spec

-----------------------------------------------------------------------------
(***************************************************************************)
(* What the liveness properties rest on: whenever the copy, a waiter or the *)
(* panel is behind, something that will bring it up to date is under way.   *)
(***************************************************************************)

\* The copy is only ever behind what was read while that is being published;
\* what was read is only ever behind the row while word of the change waits
\* for the listener, on the connection or as the loss of it.
NewsInv ==
  /\ listener \in {"connecting", "reloading", "publishing", "waiting"}
  /\ link \in {"down", "up", "broken"} /\ notices \in Nat /\ lost \in BOOLEAN
  /\ link = "down" => listener = "connecting"
  /\ notices > 0 => link = "up"
  /\ lost => link = "broken"
  /\ listener # "publishing" => cache = fetched
  /\ listener \in {"publishing", "waiting"} /\ ~missed =>
       fetched.version = row.version \/ notices > 0 \/ lost

LEMMA NewsInvInit == Init => NewsInv
<1> SUFFICES ASSUME Init PROVE NewsInv
  OBVIOUS
<1>1. link = "down" /\ notices = 0 /\ lost = FALSE /\ listener = "connecting"
  BY DEF Init
<1>2. fetched = row /\ cache = row
  BY DEF Init
<1>3. ~(notices > 0)
  BY <1>1
<1>4. QED
  BY <1>1, <1>2, <1>3 DEF NewsInv

LEMMA NewsInvNext == VersionInv /\ NewsInv /\ [Next]_vars => NewsInv'
<1> SUFFICES ASSUME VersionInv, NewsInv, [Next]_vars PROVE NewsInv'
  OBVIOUS
<1>1. CASE Write
  <2>1. Notify /\ UNCHANGED <<link, listener>>
    BY <1>1 DEF Write, PatchSettings, Pause, Resume, UpdateRow
  <2>2. UNCHANGED <<cache, fetched>>
    BY <1>1, WriteFacts
  <2>3. CASE link = "up"
    BY <2>1, <2>2, <2>3 DEF NewsInv, Notify
  <2>4. CASE link = "broken"
    BY <2>1, <2>2, <2>4 DEF NewsInv, Notify
  <2>5. CASE link = "down"
    BY <2>1, <2>2, <2>5 DEF NewsInv, Notify
  <2>6. QED
    BY <2>3, <2>4, <2>5 DEF NewsInv
<1>2. CASE Connect
  BY <1>2 DEF Connect, Connected, NewsInv, cacheVars
<1>3. CASE FetchRow
  BY <1>3 DEF FetchRow, NewsInv, cacheVars
<1>4. CASE Publish
  BY <1>4 DEF Publish, NewsInv
<1>5. CASE ReceiveNotice
  BY <1>5 DEF ReceiveNotice, NewsInv, cacheVars
<1>6. CASE NoticeBrokenLink
  BY <1>6 DEF NoticeBrokenLink, NewsInv, cacheVars
<1>7. CASE Disconnect
  <2>1. /\ link = "up" /\ link' = "broken" /\ notices' = 0 /\ lost' = (notices > 0)
        /\ UNCHANGED <<row, listener, fetched, cache, missed>>
    BY <1>7 DEF Disconnect, cacheVars
  <2>2. ~(notices' > 0) /\ notices' \in Nat
    BY <2>1
  <2>3. CASE notices > 0
    <3>1. lost' = TRUE
      BY <2>1, <2>3
    <3>2. QED
      BY <2>1, <2>2, <3>1 DEF NewsInv
  <2>4. CASE ~(notices > 0)
    <3>1. (notices > 0) = FALSE
      BY <2>4
    <3>2. lost' = FALSE
      BY <2>1, <3>1, Zenon
    <3>3. QED
      BY <2>1, <2>2, <2>4, <3>2 DEF NewsInv
  <2>5. QED
    BY <2>3, <2>4
<1>8. CASE PauseLapses
  BY <1>8 DEF PauseLapses, NewsInv, cacheVars
<1>9. CASE PanelStep \/ RespondToPatch \/ Tick \/ UNCHANGED vars
  <2>1. UNCHANGED <<row, link, notices, lost, listener, fetched, cache, missed>>
    BY <1>9 DEF PanelStep, MarkUnchanged, BuildView, SendPanel, PanelUnchanged, RespondToPatch,
       Tick, vars, listenerVars, cacheVars
  <2>2. QED
    BY <2>1 DEF NewsInv
<1>10. QED
  BY <1>1, <1>2, <1>3, <1>4, <1>5, <1>6, <1>7, <1>8, <1>9 DEF Next, ListenerStep

\* While the copy is behind the row and no news was missed, the listener is on
\* its way to read the row, has just read it, or is about to be woken: by a
\* notification on a sound connection or by finding out that it is broken.
NoNewsIsLost ==
  ~missed /\ cache.version < row.version =>
    \/ listener \in {"connecting", "reloading"}
    \/ listener = "publishing" /\ fetched.version = row.version
    \/ link = "up" /\ notices > 0
    \/ link = "broken" /\ lost

\* The safety argument under the liveness half of CacheIsView: no write falls
\* between the LISTEN, the reload that follows it and the wait for the next
\* notification, and a connection that breaks does not break unnoticed.
THEOREM NewsReachesTheCopy == Spec => []NoNewsIsLost
<1>1. VersionInv /\ NewsInv => NoNewsIsLost
  <2> SUFFICES ASSUME VersionInv, NewsInv, ~missed, cache.version < row.version
               PROVE  NoNewsIsLost
    BY DEF NoNewsIsLost
  <2>1. cache.version # row.version
    BY DEF VersionInv, VersionTypes, Row
  <2>2. CASE listener = "publishing"
    BY <2>1, <2>2 DEF NewsInv, NoNewsIsLost
  <2>3. CASE listener = "waiting"
    BY <2>1, <2>3 DEF NewsInv, NoNewsIsLost
  <2>4. QED
    BY <2>2, <2>3 DEF NewsInv, NoNewsIsLost
<1>2. QED
  BY VersionInvInit, VersionInvNext, NewsInvInit, NewsInvNext, <1>1, PTL DEF Spec

-----------------------------------------------------------------------------
(* Pauses that lapse *)

\* The next deadline is one, and none is before it.
LEMMA NextDeadlineIsFirst ==
  ASSUME NEW settings, now \in Nat, NEW d \in FutureDeadlines(settings)
  PROVE  NextPauseDeadline(settings) \in FutureDeadlines(settings)
         /\ NextPauseDeadline(settings) <= d
<1> DEFINE D == FutureDeadlines(settings)
           Before == {pair \in Nat \X Nat : pair[1] < pair[2]}
<1>1. D \subseteq Nat /\ D # {}
  BY SettingsAssumption DEF FutureDeadlines
<1>2. PICK first \in D : \A e \in D : <<e, first>> \notin Before
  <2>1. IsWellFoundedOn(Before, Nat)
    BY NatLessThanWellFounded DEF OpToRel
  <2>2. QED
    BY <1>1, <2>1, WFMin
<1>3. ASSUME NEW e \in D PROVE first <= e
  <2>1. e \in Nat /\ first \in Nat
    BY <1>1
  <2>2. <<e, first>> \in Before <=> e < first
    BY <2>1
  <2>3. QED
    BY <1>2, <2>1, <2>2
<1>4. QED
  BY <1>1, <1>3 DEF NextPauseDeadline

\* A listener that waits sleeps towards the first expiry of the copy that was
\* ahead when the copy was published.
LapseInv ==
  /\ refreshed \in Nat
  /\ listener = "waiting" /\ ~missed =>
       \A m \in Modules :
         cache.until[m] \in (refreshed + 1) .. MaxTime =>
           armed \in Nat /\ armed <= cache.until[m]

LEMMA LapseInvInit == Init => LapseInv
BY DEF Init, LapseInv

LEMMA LapseInvNext == VersionInv /\ NewsInv /\ LapseInv /\ [Next]_vars => LapseInv'
<1> SUFFICES ASSUME VersionInv, NewsInv, LapseInv, [Next]_vars PROVE LapseInv'
  OBVIOUS
<1>1. CASE Publish
  <2>1. /\ cache' = fetched /\ refreshed' = now
        /\ armed' = NextPauseDeadline(fetched)
    BY <1>1 DEF Publish, Arm
  <2>2. ASSUME NEW m \in Modules, fetched.until[m] \in (now + 1) .. MaxTime
        PROVE  armed' \in Nat /\ armed' <= fetched.until[m]
    <3>1. fetched.until[m] \in FutureDeadlines(fetched)
      BY <2>2 DEF FutureDeadlines
    <3>2. now \in Nat /\ FutureDeadlines(fetched) \subseteq Nat
      BY SettingsAssumption DEF VersionInv, VersionTypes, FutureDeadlines
    <3>3. QED
      BY <2>1, <3>1, <3>2, NextDeadlineIsFirst
  <2>3. QED
    BY <2>1, <2>2 DEF LapseInv, VersionInv, VersionTypes
<1>2. CASE FetchRow
  BY <1>2 DEF FetchRow, LapseInv, cacheVars
<1>3. CASE NoticeBrokenLink
  <2>1. UNCHANGED <<armed, cache, refreshed>>
    BY <1>3 DEF NoticeBrokenLink, cacheVars
  <2>2. CASE listener' = "connecting"
    BY <2>1, <2>2 DEF LapseInv
  <2>3. CASE listener' = listener /\ missed' = (missed \/ lost)
    BY <2>1, <2>3 DEF LapseInv
  <2>4. QED
    BY <1>3, <2>2, <2>3 DEF NoticeBrokenLink
<1>4. CASE Connect \/ ReceiveNotice \/ PauseLapses
  BY <1>4 DEF Connect, Connected, ReceiveNotice, PauseLapses, LapseInv, cacheVars
<1>5. CASE Write
  <2>1. UNCHANGED <<listener, armed, missed, cache, refreshed>>
    BY <1>5 DEF Write, PatchSettings, Pause, Resume, UpdateRow, cacheVars
  <2>2. QED
    BY <2>1 DEF LapseInv
<1>6. CASE PanelStep \/ RespondToPatch \/ Tick \/ Disconnect \/ UNCHANGED vars
  <2>1. UNCHANGED <<listener, armed, missed, cache, refreshed>>
    BY <1>6 DEF PanelStep, MarkUnchanged, BuildView, SendPanel, PanelUnchanged, RespondToPatch,
       Tick, Disconnect, vars, listenerVars, cacheVars
  <2>2. QED
    BY <2>1 DEF LapseInv
<1>7. QED
  BY <1>1, <1>2, <1>3, <1>4, <1>5, <1>6 DEF Next, ListenerStep

\* A pause that has lapsed since the copy was last published finds the listener
\* on its way to the next publication or past the deadline it sleeps towards.
LapseIsDue ==
  \A d \in 1 .. MaxTime :
    Lapsed(d) /\ ~missed =>
      listener # "waiting" \/ (armed # None /\ armed <= now)

\* The safety argument under LapseIsPublished: whatever shortened, prolonged or
\* lifted a pause while the listener slept, it never sleeps past a lapse.
THEOREM ListenerNeverOversleeps == Spec => []LapseIsDue
<1>1. VersionInv /\ NewsInv /\ LapseInv => LapseIsDue
  <2> SUFFICES ASSUME VersionInv, LapseInv, NEW d \in 1 .. MaxTime, Lapsed(d), ~missed,
                      listener = "waiting"
               PROVE  armed # None /\ armed <= now
    BY DEF LapseIsDue
  <2>1. PICK m \in Modules : cache.until[m] = d
    BY DEF Lapsed
  <2>2. now >= d /\ refreshed < d /\ now \in Nat
    BY DEF Lapsed, VersionInv, VersionTypes
  <2>3. armed \in Nat /\ armed <= d
    BY <2>1, <2>2 DEF LapseInv
  <2>4. QED
    BY <2>2, <2>3, SettingsAssumption DEF Time
<1>2. QED
  BY VersionInvInit, VersionInvNext, NewsInvInit, NewsInvNext, LapseInvInit, LapseInvNext, <1>1,
     PTL DEF Spec

-----------------------------------------------------------------------------
(* The control panel *)

\* The panel is only behind the copy while it knows that it is, or before it
\* has read the copy again.
PanelInv ==
  /\ panel \in Panel
  /\ panel.shows <= cache.version
  /\ panel.pc # "rendering" /\ ~panel.unseen => panel.shows = cache.version

LEMMA PanelInvInit == Init => PanelInv
BY DEF Init, PanelInv, Panel

LEMMA PanelInvNext == VersionInv /\ PanelInv /\ [Next]_vars => PanelInv'
<1> SUFFICES ASSUME VersionInv, PanelInv, [Next]_vars PROVE PanelInv'
  OBVIOUS
<1>1. CASE Publish
  <2>1. /\ panel' = [panel EXCEPT !.unseen = TRUE] /\ cache' = fetched
    BY <1>1 DEF Publish
  <2>2. cache.version <= fetched.version /\ cache.version \in Nat /\ fetched.version \in Nat
    BY DEF VersionInv, VersionTypes, Row
  <2>3. QED
    <3>1. panel'.unseen = TRUE /\ panel'.shows = panel.shows /\ panel' \in Panel
      BY <2>1 DEF PanelInv, Panel
    <3>2. panel.shows \in Nat /\ panel.shows <= cache.version
      BY DEF PanelInv, Panel
    <3>3. QED
      BY <2>1, <2>2, <3>1, <3>2 DEF PanelInv
<1>2. CASE PanelStep
  <2>1. UNCHANGED cache /\ cache.version \in Nat
    BY <1>2 DEF PanelStep, MarkUnchanged, BuildView, SendPanel, PanelUnchanged, cacheVars,
       VersionInv, VersionTypes, Row
  <2>2. CASE MarkUnchanged
    BY <2>1, <2>2 DEF MarkUnchanged, PanelMoves, PanelInv, Panel
  <2>3. CASE BuildView
    BY <2>1, <2>3 DEF BuildView, PanelMoves, PanelInv, Panel
  <2>4. CASE SendPanel
    BY <2>1, <2>4 DEF SendPanel, Sent, PanelMoves, PanelInv, Panel
  <2>5. QED
    BY <1>2, <2>2, <2>3, <2>4 DEF PanelStep
<1>3. CASE Write
  <2>1. UNCHANGED <<cache, panel>>
    BY <1>3, WriteFacts DEF Write, PatchSettings, Pause, Resume, UpdateRow
  <2>2. QED
    BY <2>1 DEF PanelInv
<1>4. CASE Connect \/ FetchRow \/ ReceiveNotice \/ PauseLapses \/ NoticeBrokenLink
  <2>1. UNCHANGED <<cache, panel>>
    BY <1>4 DEF Connect, FetchRow, ReceiveNotice, PauseLapses, NoticeBrokenLink, cacheVars
  <2>2. QED
    BY <2>1 DEF PanelInv
<1>5. CASE RespondToPatch \/ Tick \/ Disconnect \/ UNCHANGED vars
  <2>1. UNCHANGED <<cache, panel>>
    BY <1>5 DEF RespondToPatch, Tick, Disconnect, vars, cacheVars
  <2>2. QED
    BY <2>1 DEF PanelInv
<1>6. QED
  BY <1>1, <1>2, <1>3, <1>4, <1>5 DEF Next, ListenerStep

\* The panel is never ahead of the copy, and behind it only while a rendering
\* is due or under way.
PanelIsNotStale ==
  /\ panel.shows <= cache.version
  /\ panel.shows < cache.version => panel.unseen \/ panel.pc = "rendering"

\* The safety argument under PanelCatchesUp: a change that arrives during a
\* rendering is not taken for the one being rendered.
THEOREM PanelKnowsItIsBehind == Spec => []PanelIsNotStale
<1>1. VersionInv /\ PanelInv => PanelIsNotStale
  BY DEF VersionInv, VersionTypes, Row, PanelInv, PanelIsNotStale, Panel
<1>2. QED
  BY VersionInvInit, VersionInvNext, PanelInvInit, PanelInvNext, <1>1, PTL DEF Spec

-----------------------------------------------------------------------------
(* Types *)

\* What no invariant above is about.
OtherTypes ==
  /\ now \in Time /\ refreshed \in Time
  /\ armed \in Time \cup {None}
  /\ budget \in [BudgetKeys -> Nat]

LEMMA SpendType ==
  ASSUME budget \in [BudgetKeys -> Nat], NEW key \in BudgetKeys, Spend(key)
  PROVE  budget' \in [BudgetKeys -> Nat]
BY DEF Spend

LEMMA NextDeadlineType ==
  ASSUME NEW settings, now \in Nat
  PROVE  NextPauseDeadline(settings) \in Time \cup {None}
<1>1. FutureDeadlines(settings) \subseteq Time
  BY SettingsAssumption DEF FutureDeadlines, Time
<1>2. CASE FutureDeadlines(settings) = {}
  BY <1>2 DEF NextPauseDeadline
<1>3. CASE FutureDeadlines(settings) # {}
  BY <1>1, <1>3, NextDeadlineIsFirst
<1>4. QED
  BY <1>2, <1>3

LEMMA OtherTypesInit == Init => OtherTypes
BY SettingsAssumption DEF Init, OtherTypes, Time

LEMMA OtherTypesNext == VersionInv /\ OtherTypes /\ [Next]_vars => OtherTypes'
<1> SUFFICES ASSUME VersionInv, OtherTypes, [Next]_vars PROVE OtherTypes'
  OBVIOUS
<1> USE DEF OtherTypes
<1>1. now \in Nat
  BY DEF VersionInv, VersionTypes
<1>2. CASE Write
  <2>1. Spend("writes") /\ UNCHANGED <<now, armed, refreshed>>
    BY <1>2 DEF Write, PatchSettings, Pause, Resume, UpdateRow, cacheVars
  <2>2. QED
    BY <2>1, SpendType DEF BudgetKeys
<1>3. CASE FetchRow
  <2>1. UNCHANGED <<now, refreshed>>
    BY <1>3 DEF FetchRow, cacheVars
  <2>2. CASE UNCHANGED <<armed, budget>>
    BY <2>1, <2>2
  <2>3. CASE Spend("faults") /\ Arm(cache)
    BY <1>1, <2>1, <2>3, SpendType, NextDeadlineType DEF BudgetKeys, Arm
  <2>4. QED
    BY <1>3, <2>2, <2>3 DEF FetchRow
<1>4. CASE Publish
  BY <1>1, <1>4, NextDeadlineType DEF Publish, Arm
<1>5. CASE Disconnect
  BY <1>5, SpendType DEF Disconnect, BudgetKeys, cacheVars
<1>6. CASE Tick
  BY <1>1, <1>6, SettingsAssumption DEF Tick, Time, listenerVars, cacheVars
<1>7. CASE \/ Connect \/ ReceiveNotice \/ PauseLapses \/ NoticeBrokenLink \/ PanelStep
           \/ RespondToPatch \/ UNCHANGED vars
  <2>1. UNCHANGED <<now, armed, refreshed, budget>>
    BY <1>7 DEF Connect, ReceiveNotice, PauseLapses, NoticeBrokenLink, PanelStep, MarkUnchanged,
       BuildView, SendPanel, PanelUnchanged, RespondToPatch, vars, listenerVars, cacheVars
  <2>2. QED
    BY <2>1
<1>8. QED
  BY <1>2, <1>3, <1>4, <1>5, <1>6, <1>7 DEF Next, ListenerStep

\* Every variable keeps its type, among them the deadline, which is a time the
\* clock can reach or none at all.
THEOREM SettingsAreTyped == Spec => []TypeOK
<1>1. VersionInv /\ NewsInv /\ PanelInv /\ OtherTypes => TypeOK
  BY DEF VersionInv, VersionTypes, NewsInv, PanelInv, OtherTypes, TypeOK
<1>2. QED
  BY VersionInvInit, VersionInvNext, NewsInvInit, NewsInvNext, PanelInvInit, PanelInvNext,
     OtherTypesInit, OtherTypesNext, <1>1, PTL DEF Spec
==============================================================================
