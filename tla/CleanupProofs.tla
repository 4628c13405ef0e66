----------------------------- MODULE CleanupProofs -----------------------------
(***************************************************************************)
(* Proofs about Cleanup, for every set of videos, sources and profiles,    *)
(* every retention, size and quota, however long the clock runs and        *)
(* however often operators and failures interfere.                         *)
(***************************************************************************)
EXTENDS Cleanup, FiniteSetTheorems, SequenceTheorems, WellFoundedInduction, TLAPS

(***************************************************************************)
(* What the files of a set of videos take                                  *)
(***************************************************************************)

Total(S) == Cardinality(UNION {Bytes(v) : v \in S})

LEMMA BytesCounted ==
  ASSUME NEW v \in Videos
  PROVE  IsFiniteSet(Bytes(v)) /\ Cardinality(Bytes(v)) = Size[v]
<1>1. Size[v] \in Nat \ {0}
  BY CleanupAssumption
<1>2. IsFiniteSet(1 .. Size[v]) /\ Cardinality(1 .. Size[v]) = Size[v]
  BY <1>1, FS_Interval
<1>3. IsFiniteSet({v}) /\ Cardinality({v}) = 1
  BY FS_Singleton
<1>4. IsFiniteSet(Bytes(v)) /\ Cardinality(Bytes(v)) = 1 * Size[v]
  <2>1. /\ IsFiniteSet({v} \X (1 .. Size[v]))
        /\ Cardinality({v} \X (1 .. Size[v])) = Cardinality({v}) * Cardinality(1 .. Size[v])
    BY <1>2, <1>3, FS_Product
  <2>2. QED
    BY <1>2, <1>3, <2>1 DEF Bytes
<1>5. QED
  BY <1>1, <1>4

LEMMA TotalIsFinite ==
  ASSUME NEW S \in SUBSET Videos
  PROVE  IsFiniteSet(UNION {Bytes(v) : v \in S}) /\ Total(S) \in Nat
<1> DEFINE T == {Bytes(v) : v \in S}
           f == [v \in S |-> Bytes(v)]
<1>1. f \in Surjection(S, T)
  BY DEF Surjection
<1>2. IsFiniteSet(S)
  BY FS_Subset, CleanupAssumption
<1>3. IsFiniteSet(T)
  BY <1>1, <1>2, FS_Surjection
<1>4. \A B \in T : IsFiniteSet(B)
  BY BytesCounted
<1>5. IsFiniteSet(UNION T)
  BY <1>3, <1>4, FS_UNION
<1>6. QED
  BY <1>5, FS_CardinalityType DEF Total

LEMMA TotalAdds ==
  ASSUME NEW S \in SUBSET Videos, NEW v \in S
  PROVE  Total(S) = Total(S \ {v}) + Size[v]
<1> DEFINE Rest == UNION {Bytes(w) : w \in S \ {v}}
<1>1. UNION {Bytes(w) : w \in S} = Rest \cup Bytes(v)
  OBVIOUS
<1>2. Rest \cap Bytes(v) = {}
  BY DEF Bytes
<1>3. IsFiniteSet(Rest) /\ Total(S \ {v}) \in Nat
  BY TotalIsFinite
<1>4. IsFiniteSet(Bytes(v)) /\ Cardinality(Bytes(v)) = Size[v] /\ Size[v] \in Nat
  BY BytesCounted, CleanupAssumption
<1>5. Cardinality(Rest \cup Bytes(v)) = Cardinality(Rest) + Size[v] - Cardinality({})
  BY <1>2, <1>3, <1>4, FS_Union
<1>6. Cardinality({}) = 0
  BY FS_EmptySet
<1>7. Total(S) = Cardinality(Rest \cup Bytes(v)) /\ Total(S \ {v}) = Cardinality(Rest)
  BY <1>1 DEF Total
<1>8. QED
  BY <1>3, <1>4, <1>5, <1>6, <1>7

LEMMA UsageIsNat == \A p : Usage(p) \in Nat /\ Usage(p) = Total(Completed(p))
BY TotalIsFinite DEF Usage, Total, Completed, VideosOf

(***************************************************************************)
(* Type correctness                                                        *)
(***************************************************************************)

\* Between the calculation of its usage and the end of the loop there is a
\* profile.
TypeInv == TypeOK /\ (phase \in {"by_age", "quota"} => profile \in Profiles)

LEMMA SpendTyped ==
  ASSUME NEW key \in BudgetKeys, budget \in [BudgetKeys -> Nat], Spend(key)
  PROVE  budget' \in [BudgetKeys -> Nat]
<1>1. budget[key] \in Nat /\ budget[key] > 0
  BY DEF Spend
<1>2. budget[key] - 1 \in Nat
  BY <1>1
<1>3. QED
  BY <1>2 DEF Spend

LEMMA BudgetHasKeys == {"requests", "failures"} \subseteq BudgetKeys
BY DEF BudgetKeys

\* An order of S is a sequence of elements of S.
LEMMA OrderFacts ==
  ASSUME NEW S \in SUBSET Videos, NEW order \in OldestFirst(S)
  PROVE  order \in Seq(Videos) /\ \A i \in DOMAIN order : order[i] \in S
<1>1. IsFiniteSet(S)
  BY FS_Subset, CleanupAssumption
<1>2. Cardinality(S) \in Nat
  BY <1>1, FS_CardinalityType
<1>3. order \in [1 .. Cardinality(S) -> S]
  BY DEF OldestFirst, SetToSeqs
<1>4. order \in Seq(S)
  BY <1>2, <1>3
<1>5. QED
  BY <1>3, <1>4

LEMMA TailTyped ==
  ASSUME NEW s \in Seq(Videos), s # <<>>
  PROVE  /\ Head(s) \in Videos /\ Tail(s) \in Seq(Videos)
         /\ Head(s) = s[1] /\ 1 \in DOMAIN s
         /\ \A i \in DOMAIN Tail(s) : i + 1 \in DOMAIN s /\ Tail(s)[i] = s[i + 1]
BY HeadTailProperties

LEMMA TypeInit == Init => TypeInv
<1> SUFFICES ASSUME Init PROVE TypeInv
  OBVIOUS
<1>1. <<>> \in Seq(Videos)
  BY EmptySeq
<1>2. 1 \in 0 .. MaxTime /\ 0 \in 0 .. MaxTime /\ 1 \in 0 .. MailboxCap
  BY CleanupAssumption
<1>3. since \in [Videos -> 0 .. MaxTime] /\ now \in 0 .. MaxTime /\ runs \in 0 .. MailboxCap
  BY <1>2 DEF Init
<1>4. status \in [Videos -> Status] /\ phase \in Phase /\ phase \notin {"by_age", "quota"}
  BY DEF Init, Status, Phase
<1>5. budget \in [BudgetKeys -> Nat] /\ owed \in Int
  BY CleanupAssumption DEF Init
<1>6. files \subseteq Videos /\ sources \subseteq Sources /\ excluded \subseteq Sources
  BY DEF Init
<1>7. todo \in Seq(Videos) /\ profiles \subseteq Profiles /\ grounds \subseteq Videos
  BY <1>1 DEF Init
<1>8. QED
  BY <1>3, <1>4, <1>5, <1>6, <1>7 DEF Init, TypeInv, TypeOK

LEMMA TypeCleanup ==
  ASSUME TypeInv, CleanupStep, grounds' \subseteq Videos
  PROVE  TypeInv'
<1> USE DEF rowVars, sourceVars, runVars, RunUnchanged
<1>1. <<>> \in Seq(Videos)
  BY EmptySeq
<1>2. CASE RunCleanup
  <2>1. runs' \in 0 .. MailboxCap
    BY <1>2, CleanupAssumption DEF RunCleanup, TypeInv, TypeOK
  <2>2. QED
    BY <1>2, <2>1 DEF RunCleanup, TypeInv, TypeOK, Phase
<1>3. CASE ListExpired
  <2>1. budget' \in [BudgetKeys -> Nat]
    BY <1>3, SpendTyped, BudgetHasKeys DEF ListExpired, TypeInv, TypeOK
  <2>2. todo' \in Seq(Videos)
    BY <1>3, OrderFacts DEF ListExpired, TypeInv, TypeOK
  <2>3. QED
    BY <1>3, <2>1, <2>2 DEF ListExpired, TypeInv, TypeOK, Phase
<1>4. CASE RemoveFile
  <2>1. budget' \in [BudgetKeys -> Nat]
    BY <1>4, SpendTyped, BudgetHasKeys DEF RemoveFile, TypeInv, TypeOK
  <2>2. Head(todo) \in Videos /\ todo' \in Seq(Videos)
    BY <1>4, TailTyped DEF RemoveFile, TypeInv, TypeOK
  <2>3. QED
    BY <1>4, <2>1, <2>2 DEF RemoveFile, Unlink, TypeInv, TypeOK
<1>5. CASE MarkCleaned
  <2>1. budget' \in [BudgetKeys -> Nat]
    BY <1>5, SpendTyped, BudgetHasKeys DEF MarkCleaned, TypeInv, TypeOK
  <2>2. unlinked \in Videos
    BY <1>5 DEF MarkCleaned, TypeInv, TypeOK
  <2>3. status' \in [Videos -> Status]
    BY <1>5 DEF MarkCleaned, TypeInv, TypeOK, Status
  <2>4. owed' \in Int
    BY <1>5, <2>2, CleanupAssumption DEF MarkCleaned, TypeInv, TypeOK
  <2>5. QED
    BY <1>5, <2>1, <2>3, <2>4 DEF MarkCleaned, TypeInv, TypeOK
<1>6. CASE RetentionDone
  BY <1>6 DEF RetentionDone, TypeInv, TypeOK, Phase
<1>7. CASE ReadUsage
  <2>1. budget' \in [BudgetKeys -> Nat]
    BY <1>7, SpendTyped, BudgetHasKeys DEF ReadUsage, TypeInv, TypeOK
  <2>2. owed' \in Int
    BY <1>7, UsageIsNat, CleanupAssumption DEF ReadUsage, TypeInv, TypeOK
  <2>3. /\ profiles' \subseteq Profiles /\ profile' \in Profiles \cup {None}
        /\ phase' \in Phase /\ (phase' \in {"by_age", "quota"} => profile' \in Profiles)
        /\ shrunk' \in BOOLEAN
    BY <1>7 DEF ReadUsage, TypeInv, TypeOK, Phase
  <2>4. QED
    BY <1>7, <2>1, <2>2, <2>3 DEF ReadUsage, TypeInv, TypeOK
<1>8. CASE ListByAge
  <2>1. budget' \in [BudgetKeys -> Nat]
    BY <1>8, SpendTyped, BudgetHasKeys DEF ListByAge, TypeInv, TypeOK
  <2>2. Evictable(profile) \in SUBSET Videos
    BY DEF Evictable, Completed, VideosOf
  <2>3. todo' \in Seq(Videos)
    BY <1>8, <2>2, OrderFacts DEF ListByAge, TypeInv, TypeOK
  <2>4. QED
    BY <1>8, <2>1, <2>3 DEF ListByAge, TypeInv, TypeOK, Phase
<1>9. CASE QuotaDone
  BY <1>1, <1>9 DEF QuotaDone, TypeInv, TypeOK, Phase
<1>10. CASE CleanupDone
  BY <1>10 DEF CleanupDone, TypeInv, TypeOK, Phase
<1>11. QED
  BY <1>2, <1>3, <1>4, <1>5, <1>6, <1>7, <1>8, <1>9, <1>10 DEF CleanupStep

LEMMA TypeOthers ==
  ASSUME TypeInv, TickerFires \/ Environment, grounds' \subseteq Videos
  PROVE  TypeInv'
<1> USE DEF rowVars, sourceVars, runVars, OthersUnchanged
<1>1. CASE TickerFires
  <2>1. runs' \in 0 .. MailboxCap
    BY <1>1, CleanupAssumption DEF TickerFires, TypeInv, TypeOK
  <2>2. QED
    BY <1>1, <2>1 DEF TickerFires, TypeInv, TypeOK
<1>2. CASE TriggerCleanup
  <2>1. runs' \in 0 .. MailboxCap
    BY <1>2, CleanupAssumption DEF TriggerCleanup, TypeInv, TypeOK
  <2>2. budget' \in [BudgetKeys -> Nat]
    BY <1>2, SpendTyped, BudgetHasKeys DEF TriggerCleanup, TypeInv, TypeOK
  <2>3. QED
    BY <1>2, <2>1, <2>2 DEF TriggerCleanup, TypeInv, TypeOK
<1>3. CASE DeleteRow
  <2>1. status' \in [Videos -> Status]
    BY <1>3 DEF DeleteRow, TypeInv, TypeOK, Status
  <2>2. QED
    BY <1>3, <2>1 DEF DeleteRow, TypeInv, TypeOK
<1>4. CASE Tick
  <2>1. now' \in 0 .. MaxTime
    BY <1>4, CleanupAssumption DEF Tick, TypeInv, TypeOK
  <2>2. QED
    BY <1>4, <2>1 DEF Tick, TypeInv, TypeOK
<1>5. CASE Crash
  <2>1. budget' \in [BudgetKeys -> Nat]
    BY <1>5, SpendTyped, BudgetHasKeys DEF Crash, TypeInv, TypeOK
  <2>2. <<>> \in Seq(Videos) /\ 1 \in 0 .. MailboxCap
    BY EmptySeq, CleanupAssumption
  <2>3. status' \in [Videos -> Status]
    BY <1>5 DEF Crash, TypeInv, TypeOK, Status
  <2>4. QED
    BY <1>5, <2>1, <2>2, <2>3 DEF Crash, TypeInv, TypeOK, Phase
<1>6. ASSUME NEW v \in Videos,
             DeleteFile(v) \/ Retry(v) \/ Claim(v) \/ MoveToCompleted(v) \/ MarkCompleted(v)
      PROVE  TypeInv'
  <2>1. budget' \in [BudgetKeys -> Nat]
    BY <1>6, SpendTyped, BudgetHasKeys
    DEF DeleteFile, Retry, Claim, MoveToCompleted, MarkCompleted, TypeInv, TypeOK
  <2>2. status' \in [Videos -> Status]
    BY <1>6 DEF DeleteFile, Retry, Claim, MoveToCompleted, MarkCompleted, TypeInv, TypeOK, Status
  <2>3. since' \in [Videos -> 0 .. MaxTime]
    BY <1>6 DEF DeleteFile, Retry, Claim, MoveToCompleted, MarkCompleted, TypeInv, TypeOK
  <2>4. files' \subseteq Videos /\ deleting' \in Videos \cup {None} /\ shrunk' \in BOOLEAN
    BY <1>6 DEF DeleteFile, Retry, Claim, MoveToCompleted, MarkCompleted, TypeInv, TypeOK
  <2>5. UNCHANGED <<now, sources, excluded, runs, phase, todo, unlinked, profiles, profile, owed>>
    BY <1>6 DEF DeleteFile, Retry, Claim, MoveToCompleted, MarkCompleted
  <2>6. QED
    BY <2>1, <2>2, <2>3, <2>4, <2>5 DEF TypeInv, TypeOK
<1>7. ASSUME NEW s \in Sources, ToggleExclude(s) \/ DeleteSource(s)
      PROVE  TypeInv'
  <2>1. budget' \in [BudgetKeys -> Nat]
    BY <1>7, SpendTyped, BudgetHasKeys DEF ToggleExclude, DeleteSource, TypeInv, TypeOK
  <2>2. sources' \subseteq Sources /\ excluded' \subseteq Sources /\ shrunk' \in BOOLEAN
    BY <1>7 DEF ToggleExclude, DeleteSource, SymDiff, TypeInv, TypeOK
  <2>3. QED
    BY <1>7, <2>1, <2>2 DEF ToggleExclude, DeleteSource, TypeInv, TypeOK
<1>8. QED
  BY <1>1, <1>2, <1>3, <1>4, <1>5, <1>6, <1>7 DEF Environment

LEMMA TypeNext == TypeInv /\ [Next]_vars => TypeInv'
<1> SUFFICES ASSUME TypeInv, [Next]_vars PROVE TypeInv'
  OBVIOUS
<1>1. CASE UNCHANGED vars
  BY <1>1 DEF vars, rowVars, sourceVars, runVars, TypeInv, TypeOK
<1>2. CASE Next
  <2>1. grounds' \subseteq Videos
    BY <1>2 DEF Next, NoteGrounds, Due, TypeInv, TypeOK
  <2>2. QED
    BY <1>2, <2>1, TypeCleanup, TypeOthers DEF Next
<1>3. QED
  BY <1>1, <1>2

LEMMA TypeHolds == Spec => []TypeInv
BY TypeInit, TypeNext, PTL DEF Spec

(***************************************************************************)
(* Why a video goes                                                        *)
(***************************************************************************)

\* Whatever is on the list that a run works through is in the history of
\* grounds, which only the end of the run empties.
ListedForCause ==
  phase \in {"retention", "quota"} => \A i \in DOMAIN todo : todo[i] \in grounds

CauseInv == TypeInv /\ ListedForCause

LEMMA GroundsKept ==
  ASSUME NoteGrounds, phase' # "idle"
  PROVE  grounds \subseteq grounds' /\ Due' \subseteq grounds'
BY DEF NoteGrounds

LEMMA ListKept ==
  ASSUME CauseInv, NoteGrounds, UNCHANGED <<phase, todo>>
  PROVE  ListedForCause'
BY GroundsKept DEF CauseInv, ListedForCause

\* No video is shared by sources of two profiles.
ProfilesApart ==
  \A k, l \in Links : k[2] = l[2] => ProfileOf[k[1]] = ProfileOf[l[1]]

\* What retention lists is due, and so is what a quota lists: the sources of
\* the profile that protect a video are then all that could.
LEMMA ListedIsDue ==
  /\ \A v \in Videos : PastRetention(v) => v \in Due
  /\ ProfilesApart => Evictable(profile) \subseteq Due
<1>1. \A v \in Videos : PastRetention(v) => v \in Due
  BY DEF PastRetention, Due
<1>2. ASSUME ProfilesApart, NEW v \in Evictable(profile) PROVE v \in Due
  <2>1. v \in Videos /\ status[v] = "completed" /\ v \in VideosOf(profile)
    BY <1>2 DEF Evictable, Completed, VideosOf
  <2>2. PICK own \in SourcesOf(v) : ProfileOf[own] = profile
    BY <2>1 DEF VideosOf
  <2>3. \A s \in SourcesOf(v) : ProfileOf[s] = profile
    BY <1>2, <2>2 DEF ProfilesApart, SourcesOf
  <2>4. ~Vetoed(v)
    BY <1>2, <2>1, <2>3 DEF Evictable, Protected, Vetoed
  <2>5. QED
    BY <2>1, <2>4 DEF Due
<1>3. QED
  BY <1>1, <1>2

\* A step that leaves the rows, the sources and the clock alone leaves what is
\* due alone, but for the profile.
LEMMA DueStays ==
  ASSUME UNCHANGED <<now, rowVars, sourceVars, profile>>
  PROVE  Due' = Due
BY DEF Due, Expired, Expires, Vetoed, VideosOf, SourcesOf, EffectiveRetention, Coalesce, rowVars,
       sourceVars

LEMMA CauseCleanup ==
  ASSUME ProfilesApart, CauseInv, CleanupStep, NoteGrounds
  PROVE  ListedForCause'
<1> USE DEF runVars, RunUnchanged
<1>1. CASE RunCleanup \/ RetentionDone \/ ReadUsage \/ QuotaDone \/ CleanupDone
  BY <1>1 DEF RunCleanup, RetentionDone, ReadUsage, QuotaDone, CleanupDone, ListedForCause
<1>2. CASE ListExpired
  <2>1. CASE phase' = "retention"
    <3>1. todo' \in OldestFirst({v \in Videos : PastRetention(v)})
      BY <1>2, <2>1 DEF ListExpired
    <3>2. \A i \in DOMAIN todo' : todo'[i] \in Due
      BY <3>1, OrderFacts, ListedIsDue
    <3>3. Due' = Due
      BY <1>2, DueStays DEF ListExpired
    <3>4. QED
      BY <2>1, <3>2, <3>3, GroundsKept DEF ListedForCause
  <2>2. CASE phase' = "usage"
    BY <2>2 DEF ListedForCause
  <2>3. QED
    BY <1>2, <2>1, <2>2 DEF ListExpired
<1>3. CASE RemoveFile
  <2>1. todo' = Tail(todo) /\ UNCHANGED phase /\ phase \in {"retention", "quota"}
    BY <1>3 DEF RemoveFile
  <2>2. \A i \in DOMAIN todo' : i + 1 \in DOMAIN todo /\ todo'[i] = todo[i + 1]
    BY <1>3, <2>1, TailTyped DEF RemoveFile, CauseInv, TypeInv, TypeOK
  <2>3. QED
    BY <2>1, <2>2, GroundsKept DEF CauseInv, ListedForCause
<1>4. CASE MarkCleaned
  BY <1>4, ListKept DEF MarkCleaned
<1>5. CASE ListByAge
  <2>1. CASE phase' = "quota"
    <3>1. todo' \in OldestFirst(Evictable(profile)) /\ UNCHANGED profile
      BY <1>5, <2>1 DEF ListByAge
    <3>2. Evictable(profile) \in SUBSET Videos
      BY DEF Evictable, Completed, VideosOf
    <3>3. \A i \in DOMAIN todo' : todo'[i] \in Due
      BY <3>1, <3>2, OrderFacts, ListedIsDue
    <3>4. Due' = Due
      BY <1>5, <3>1, DueStays DEF ListByAge
    <3>5. QED
      BY <2>1, <3>3, <3>4, GroundsKept DEF ListedForCause
  <2>2. CASE phase' = "idle"
    BY <2>2 DEF ListedForCause
  <2>3. QED
    BY <1>5, <2>1, <2>2 DEF ListByAge
<1>6. QED
  BY <1>1, <1>2, <1>3, <1>4, <1>5 DEF CleanupStep

\* Nobody else touches the list; a crash ends the run.
LEMMA OthersKeepTheRun ==
  ASSUME TickerFires \/ Environment
  PROVE  \/ UNCHANGED <<phase, todo, unlinked, profile, owed>>
         \/ Crash
BY DEF TickerFires, Environment, TriggerCleanup, DeleteRow, Tick, DeleteFile, Retry, Claim,
       MoveToCompleted, MarkCompleted, ToggleExclude, DeleteSource, OthersUnchanged, runVars

LEMMA CauseInvNext == ProfilesApart /\ CauseInv /\ [Next]_vars => CauseInv'
<1> SUFFICES ASSUME ProfilesApart, CauseInv, [Next]_vars PROVE CauseInv'
  OBVIOUS
<1>1. TypeInv'
  BY TypeNext DEF CauseInv
<1>2. CASE UNCHANGED vars
  BY <1>1, <1>2 DEF vars, runVars, CauseInv, ListedForCause
<1>3. CASE CleanupStep /\ NoteGrounds
  BY <1>1, <1>3, CauseCleanup DEF CauseInv
<1>4. CASE (TickerFires \/ Environment) /\ NoteGrounds
  <2>1. CASE UNCHANGED <<phase, todo>>
    BY <1>1, <1>4, <2>1, ListKept DEF CauseInv
  <2>2. CASE Crash
    BY <1>1, <2>2 DEF Crash, CauseInv, ListedForCause
  <2>3. QED
    BY <1>4, <2>1, <2>2, OthersKeepTheRun
<1>5. QED
  BY <1>2, <1>3, <1>4 DEF Next

\* Only the run unlinks on its own account, and only what is next on its list.
LEMMA RemovalIsOfTheList ==
  ASSUME TypeInv, [Next]_vars, NEW v \in Videos, Removes(v)
  PROVE  /\ RemoveFile /\ NoteGrounds /\ phase \in {"retention", "quota"}
         /\ v = todo[1] /\ 1 \in DOMAIN todo
<1>1. unlinked' = v /\ unlinked # v /\ v # None
  BY CleanupAssumption DEF Removes
<1>2. Next
  BY <1>1 DEF vars, runVars
<1>3. ~TickerFires /\ ~Environment
  BY <1>1, OthersKeepTheRun DEF Crash
<1>4. ~RunCleanup /\ ~ListExpired /\ ~RetentionDone /\ ~ReadUsage /\ ~ListByAge /\ ~QuotaDone
  BY <1>1 DEF RunCleanup, ListExpired, RetentionDone, ReadUsage, ListByAge, QuotaDone
<1>5. ~MarkCleaned /\ ~CleanupDone
  BY <1>1 DEF MarkCleaned, CleanupDone
<1>6. RemoveFile /\ NoteGrounds
  BY <1>2, <1>3, <1>4, <1>5 DEF Next, CleanupStep
<1>7. v = Head(todo) /\ todo # <<>> /\ phase \in {"retention", "quota"}
  BY <1>1, <1>6 DEF RemoveFile, Unlink
<1>8. QED
  BY <1>6, <1>7, TailTyped DEF TypeInv, TypeOK

\* As long as no video is shared by sources of two profiles, a file only goes
\* for a reason there was when its run looked: the retention of all its sources
\* or a profile of it over its quota, and no source that is excluded from
\* cleanup; whatever operators, downloads and failures do between the list, the
\* file and the row.  Without the assumption it is false: a quota does not see
\* the veto of another profile's source.
THEOREM GoneForCause ==
  ASSUME ProfilesApart
  PROVE  Spec => RemovedForCause
<1>1. Init => CauseInv
  BY TypeInit DEF Init, CauseInv, ListedForCause
<1>2. CauseInv /\ [Next]_vars => [\A v \in Videos : Removes(v) => v \in grounds]_vars
  BY RemovalIsOfTheList DEF CauseInv, ListedForCause
<1>3. QED
  BY <1>1, <1>2, CauseInvNext, PTL DEF Spec, RemovedForCause

(***************************************************************************)
(* How much a quota takes                                                  *)
(***************************************************************************)

\* The run never believes a profile to be further over its quota than it is,
\* and a row is only owed to a file that the list at hand named.
OwedIsDue ==
  phase \in {"by_age", "quota"} /\ ~shrunk => owed <= Usage(profile) - Quota[profile]

UnlinkedByList == unlinked # None => phase \in {"retention", "quota"}

QuotaInv == TypeInv /\ UnlinkedByList /\ OwedIsDue

LEMMA UsageKept ==
  ASSUME UNCHANGED <<status, sources>>, NEW p
  PROVE  Usage(p)' = Usage(p)
BY DEF Usage, Completed, VideosOf, SourcesOf

LEMMA UsageNext ==
  ASSUME NEW p
  PROVE  /\ Usage(p) = Total(Completed(p)) /\ Usage(p)' = Total(Completed(p)')
         /\ Completed(p) \in SUBSET Videos /\ Completed(p)' \in SUBSET Videos
         /\ Usage(p) \in Nat /\ Usage(p)' \in Nat
<1>1. Completed(p) \in SUBSET Videos /\ Completed(p)' \in SUBSET Videos
  BY DEF Completed, VideosOf
<1>2. Usage(p) = Total(Completed(p)) /\ Usage(p)' = Total(Completed(p)')
  BY DEF Usage, Total
<1>3. QED
  BY <1>1, <1>2, TotalIsFinite

\* A cleaned row takes at most its size off a usage.
LEMMA UsageLowered ==
  ASSUME TypeInv, NEW v \in Videos, NEW p, UNCHANGED sources,
         status' = [status EXCEPT ![v] = "cleaned"]
  PROVE  Usage(p)' >= Usage(p) - Size[v]
<1>1. Completed(p)' = Completed(p) \ {v}
  BY DEF Completed, VideosOf, SourcesOf, TypeInv, TypeOK
<1>2. Size[v] \in Nat
  BY CleanupAssumption
<1>3. CASE v \in Completed(p)
  BY <1>1, <1>2, <1>3, UsageNext, TotalAdds
<1>4. CASE v \notin Completed(p)
  <2>1. Completed(p)' = Completed(p)
    BY <1>1, <1>4
  <2>2. QED
    BY <1>2, <2>1, UsageNext
<1>5. QED
  BY <1>3, <1>4

\* A row that was not completed takes nothing off a usage, whatever becomes of it.
LEMMA UsageRaised ==
  ASSUME TypeInv, UNCHANGED sources, NEW p, NEW v \in Videos, status[v] # "completed",
         \E x : status' = [status EXCEPT ![v] = x]
  PROVE  Usage(p)' >= Usage(p)
<1>1. Completed(p)' = Completed(p) \/ (v \in Completed(p)' /\ Completed(p)' \ {v} = Completed(p))
  BY DEF Completed, VideosOf, SourcesOf, TypeInv, TypeOK
<1>2. Size[v] \in Nat
  BY CleanupAssumption
<1>3. CASE Completed(p)' = Completed(p)
  BY <1>3, UsageNext
<1>4. CASE v \in Completed(p)' /\ Completed(p)' \ {v} = Completed(p)
  <2>1. Total(Completed(p)') = Total(Completed(p)' \ {v}) + Size[v]
    BY <1>4, UsageNext, TotalAdds
  <2>2. Usage(p)' = Usage(p) + Size[v]
    BY <1>4, <2>1, UsageNext
  <2>3. QED
    BY <1>2, <2>2, UsageNext
<1>5. QED
  BY <1>1, <1>3, <1>4

LEMMA QuotaKept ==
  ASSUME QuotaInv, TypeInv', UNCHANGED <<phase, unlinked, profile, owed, shrunk>>,
         profile \in Profiles => Usage(profile)' >= Usage(profile)
  PROVE  QuotaInv'
<1>1. UnlinkedByList'
  BY DEF QuotaInv, UnlinkedByList
<1>2. OwedIsDue'
  <2> SUFFICES ASSUME phase \in {"by_age", "quota"}, ~shrunk
               PROVE  owed <= Usage(profile)' - Quota[profile]
    BY DEF OwedIsDue
  <2>1. profile \in Profiles /\ owed \in Int
    BY DEF QuotaInv, TypeInv, TypeOK
  <2>2. Usage(profile) \in Nat /\ Usage(profile)' \in Nat /\ Quota[profile] \in Nat
    BY <2>1, UsageNext, CleanupAssumption
  <2>3. owed <= Usage(profile) - Quota[profile] /\ Usage(profile)' >= Usage(profile)
    BY <2>1 DEF QuotaInv, OwedIsDue
  <2>4. QED
    BY <2>1, <2>2, <2>3
<1>3. QED
  BY <1>1, <1>2 DEF QuotaInv

LEMMA QuotaCleanup ==
  ASSUME QuotaInv, TypeInv', CleanupStep
  PROVE  QuotaInv'
<1> USE DEF rowVars, runVars, sourceVars, RunUnchanged
<1>1. CASE RunCleanup \/ ListExpired \/ RetentionDone \/ QuotaDone \/ CleanupDone
  BY <1>1 DEF RunCleanup, ListExpired, RetentionDone, QuotaDone, CleanupDone, QuotaInv,
              UnlinkedByList, OwedIsDue
<1>2. CASE RemoveFile
  <2>1. /\ UNCHANGED <<status, sources, phase, profile, owed, shrunk>>
        /\ phase \in {"retention", "quota"}
    BY <1>2 DEF RemoveFile
  <2>2. Usage(profile)' = Usage(profile)
    BY <2>1, UsageKept
  <2>3. OwedIsDue'
    BY <2>1, <2>2 DEF QuotaInv, OwedIsDue
  <2>4. QED
    BY <2>1, <2>3 DEF QuotaInv, UnlinkedByList
<1>3. CASE MarkCleaned
  <2>1. /\ unlinked \in Videos /\ unlinked' = None /\ phase \in {"retention", "quota"}
        /\ UNCHANGED <<sources, phase, profile, shrunk>>
    BY <1>3 DEF MarkCleaned, QuotaInv, UnlinkedByList, TypeInv, TypeOK
  <2>2. UnlinkedByList'
    BY <2>1 DEF UnlinkedByList
  <2>3. OwedIsDue'
    <3> SUFFICES ASSUME phase = "quota", ~shrunk
                 PROVE  owed' <= Usage(profile)' - Quota[profile]
      BY <2>1 DEF OwedIsDue
    <3>1. profile \in Profiles /\ owed \in Int /\ Size[unlinked] \in Nat
      BY <2>1, CleanupAssumption DEF QuotaInv, TypeInv, TypeOK
    <3>2. Usage(profile) \in Nat /\ Usage(profile)' \in Nat /\ Quota[profile] \in Nat
      BY <3>1, UsageNext, CleanupAssumption
    <3>3. owed <= Usage(profile) - Quota[profile]
      BY DEF QuotaInv, OwedIsDue
    <3>4. CASE status' = [status EXCEPT ![unlinked] = "cleaned"] /\ owed' = owed - Size[unlinked]
      <4>1. Usage(profile)' >= Usage(profile) - Size[unlinked]
        BY <2>1, <3>4, UsageLowered DEF QuotaInv
      <4>2. QED
        BY <3>1, <3>2, <3>3, <3>4, <4>1
    <3>5. CASE UNCHANGED <<status, owed>>
      <4>1. Usage(profile)' = Usage(profile)
        BY <2>1, <3>5, UsageKept
      <4>2. QED
        BY <3>3, <3>5, <4>1
    <3>6. QED
      BY <1>3, <3>4, <3>5 DEF MarkCleaned
  <2>4. QED
    BY <2>2, <2>3 DEF QuotaInv
<1>4. CASE ReadUsage
  <2>1. UNCHANGED <<status, sources, unlinked>> /\ phase = "usage"
    BY <1>4 DEF ReadUsage
  <2>2. unlinked' = None
    BY <2>1 DEF QuotaInv, UnlinkedByList
  <2>3. OwedIsDue'
    <3> SUFFICES ASSUME phase' \in {"by_age", "quota"}
                 PROVE  owed' <= Usage(profile)' - Quota[profile']
      BY DEF OwedIsDue
    <3>1. PICK p \in Profiles : profile' = p /\ owed' = Usage(p) - Quota[p]
      BY <1>4, <2>1 DEF ReadUsage, QuotaInv, TypeInv, TypeOK
    <3>2. Usage(profile)' = Usage(p)
      BY <2>1, <3>1 DEF Usage, Completed, VideosOf, SourcesOf
    <3>3. Usage(p) \in Nat /\ Quota[p] \in Nat
      BY UsageIsNat, CleanupAssumption
    <3>4. QED
      BY <3>1, <3>2, <3>3
  <2>4. QED
    BY <2>2, <2>3 DEF QuotaInv, UnlinkedByList
<1>5. CASE ListByAge
  <2>1. UNCHANGED <<status, sources, unlinked, shrunk>> /\ phase = "by_age"
    BY <1>5 DEF ListByAge
  <2>2. unlinked' = None
    BY <2>1 DEF QuotaInv, UnlinkedByList
  <2>3. Usage(profile)' = Usage(profile) \/ profile' # profile
    BY <2>1, UsageKept
  <2>4. OwedIsDue'
    BY <1>5, <2>1, <2>3 DEF ListByAge, QuotaInv, OwedIsDue
  <2>5. QED
    BY <2>2, <2>4 DEF QuotaInv, UnlinkedByList
<1>6. QED
  BY <1>1, <1>2, <1>3, <1>4, <1>5 DEF CleanupStep

LEMMA QuotaOthers ==
  ASSUME QuotaInv, TypeInv', TickerFires \/ Environment
  PROVE  QuotaInv'
<1> USE DEF rowVars, runVars, sourceVars, OthersUnchanged
<1>1. CASE UNCHANGED <<phase, unlinked, profile, owed, shrunk, status, sources>>
  <2>1. profile \in Profiles => Usage(profile)' >= Usage(profile)
    BY <1>1, UsageKept, UsageNext
  <2>2. QED
    BY <1>1, <2>1, QuotaKept
<1>2. CASE DeleteRow \/ \E s \in Sources : DeleteSource(s)
  BY <1>2 DEF DeleteRow, DeleteSource, QuotaInv, UnlinkedByList, OwedIsDue
<1>3. CASE Crash
  BY <1>3 DEF Crash, QuotaInv, UnlinkedByList, OwedIsDue
<1>4. ASSUME NEW v \in Videos, Retry(v) \/ Claim(v) \/ MarkCompleted(v)
      PROVE  QuotaInv'
  <2>1. /\ status[v] # "completed" /\ \E x : status' = [status EXCEPT ![v] = x]
        /\ UNCHANGED <<sources, phase, unlinked, profile, owed, shrunk>>
    BY <1>4 DEF Retry, Claim, MarkCompleted
  <2>2. Usage(profile)' >= Usage(profile)
    BY <2>1, UsageRaised DEF QuotaInv
  <2>3. QED
    BY <2>1, <2>2, QuotaKept
<1>5. ASSUME ~DeleteRow, ~Crash, ~\E s \in Sources : DeleteSource(s),
             ~\E v \in Videos : Retry(v) \/ Claim(v) \/ MarkCompleted(v)
      PROVE  UNCHANGED <<phase, unlinked, profile, owed, shrunk, status, sources>>
  BY <1>5 DEF TickerFires, Environment, TriggerCleanup, Tick, DeleteFile, MoveToCompleted,
              ToggleExclude
<1>6. QED
  BY <1>1, <1>2, <1>3, <1>4, <1>5

LEMMA QuotaInvNext == QuotaInv /\ [Next]_vars => QuotaInv'
<1> SUFFICES ASSUME QuotaInv, [Next]_vars PROVE QuotaInv'
  OBVIOUS
<1>1. TypeInv'
  BY TypeNext DEF QuotaInv
<1>2. CASE UNCHANGED vars
  <2>1. UNCHANGED <<phase, unlinked, profile, owed, shrunk, status, sources>>
    BY <1>2 DEF vars, rowVars, runVars, sourceVars
  <2>2. profile \in Profiles => Usage(profile)' >= Usage(profile)
    BY <2>1, UsageKept, UsageNext
  <2>3. QED
    BY <1>1, <2>1, <2>2, QuotaKept
<1>3. CASE Next
  BY <1>1, <1>3, QuotaCleanup, QuotaOthers DEF Next
<1>4. QED
  BY <1>2, <1>3

\* Quota enforcement removes a video only while its profile is over its quota,
\* unless somebody else freed space or removed a source since the run
\* calculated the usage: what it took itself it has counted, and a row whose
\* update failed it has not counted as freed.
THEOREM QuotaTakesNoMore == Spec => QuotaStopsInTime
<1>1. Init => QuotaInv
  BY TypeInit DEF Init, QuotaInv, UnlinkedByList, OwedIsDue
<1>2. ASSUME QuotaInv, [Next]_vars
      PROVE  [\A v \in Videos : Removes(v) /\ phase = "quota"
                => Usage(profile) > Quota[profile] \/ shrunk]_vars
  <2> SUFFICES ASSUME NEW v \in Videos, Removes(v), phase = "quota", ~shrunk
               PROVE  Usage(profile) > Quota[profile]
    BY <1>2 DEF QuotaInv, TypeInv, TypeOK
  <2>1. ~Enough
    <3>1. RemoveFile
      BY <1>2, RemovalIsOfTheList DEF QuotaInv
    <3>2. QED
      BY <3>1 DEF RemoveFile
  <2>2. owed <= Usage(profile) - Quota[profile] /\ owed \in Int /\ profile \in Profiles
    BY <1>2 DEF QuotaInv, OwedIsDue, TypeInv, TypeOK
  <2>3. Usage(profile) \in Nat /\ Quota[profile] \in Nat
    BY <2>2, UsageNext, CleanupAssumption
  <2>4. QED
    BY <2>1, <2>2, <2>3 DEF Enough
<1>3. QED
  BY <1>1, <1>2, QuotaInvNext, PTL DEF Spec, QuotaStopsInTime

(***************************************************************************)
(* What is listed is handled                                               *)
(***************************************************************************)

\* Outside its two loops a run has nothing on a list.
ListByRun == phase \notin {"retention", "quota"} => todo = <<>>

ListInv == QuotaInv /\ ListByRun

\* What a run still has to handle: the rest of its list and the row of the
\* file it has just removed.
OnList == {todo[i] : i \in DOMAIN todo} \cup ({unlinked} \ {None})

\* A video leaves the list as a cleaned row, or something failed, or the quota
\* it was listed for is met.
ListIsWorkedOff ==
  [][\A v \in OnList \ OnList' :
        \/ status'[v] = "cleaned"
        \/ budget'["failures"] < budget["failures"]
        \/ phase = "quota" /\ Enough]_vars

LEMMA FailureSpends ==
  ASSUME TypeInv, Spend("failures")
  PROVE  budget'["failures"] < budget["failures"]
<1>1. budget["failures"] \in Nat /\ budget'["failures"] = budget["failures"] - 1
  BY BudgetHasKeys DEF Spend, TypeInv, TypeOK
<1>2. QED
  BY <1>1

LEMMA ListByRunNext == ListInv /\ [Next]_vars => ListByRun'
<1> SUFFICES ASSUME ListInv, [Next]_vars PROVE ListByRun'
  OBVIOUS
<1> USE DEF ListInv, ListByRun
<1>1. CASE UNCHANGED <<phase, todo>>
  BY <1>1
<1>2. CASE Crash
  BY <1>2 DEF Crash
<1>3. CASE RunCleanup \/ ListExpired \/ RetentionDone
  BY <1>3 DEF RunCleanup, ListExpired, RetentionDone
<1>4. CASE RemoveFile
  BY <1>4 DEF RemoveFile
<1>5. CASE ReadUsage \/ ListByAge \/ QuotaDone \/ CleanupDone
  BY <1>5 DEF ReadUsage, ListByAge, QuotaDone, CleanupDone
<1>6. CASE MarkCleaned
  BY <1>1, <1>6 DEF MarkCleaned
<1>7. QED
  BY <1>1, <1>2, <1>3, <1>4, <1>5, <1>6, OthersKeepTheRun DEF Next, CleanupStep, vars, runVars

LEMMA HeadIsHandled ==
  ASSUME ListInv, RemoveFile
  PROVE  \/ OnList \subseteq OnList'
         \/ Spend("failures")
<1>1. CASE Unlink(Head(todo))
  <2>1. todo \in Seq(Videos) /\ todo # <<>> /\ todo' = Tail(todo) /\ unlinked = None
    BY DEF RemoveFile, ListInv, QuotaInv, TypeInv, TypeOK
  <2>2. Head(todo) = todo[1] /\ todo[1] \in Videos /\ unlinked' = todo[1]
    BY <1>1, <2>1, TailTyped DEF Unlink
  <2>3. \A i \in DOMAIN todo : i = 1 \/ (i - 1 \in DOMAIN Tail(todo)
                                         /\ Tail(todo)[i - 1] = todo[i])
    BY <2>1
  <2>4. unlinked' \in OnList'
    BY <2>2, CleanupAssumption DEF OnList
  <2>5. \A i \in DOMAIN todo : todo[i] \in OnList'
    BY <2>1, <2>2, <2>3, <2>4 DEF OnList
  <2>6. QED
    BY <2>1, <2>5 DEF OnList
<1>2. QED
  BY <1>1 DEF RemoveFile

\* Whatever retention or a quota has put on its list is handled: the video is
\* cleaned in the end, or a file, a statement or the process failed, or the
\* quota is met without it.  This is the safety a run owes to
\* RetentionIsEnforced and QuotaIsEnforced; that it goes on is its fairness.
THEOREM NothingIsDropped == Spec => ListIsWorkedOff
<1>1. Init => ListInv
  BY TypeInit DEF Init, ListInv, ListByRun, QuotaInv, UnlinkedByList, OwedIsDue
<1>2. ListInv /\ [Next]_vars => ListInv'
  BY QuotaInvNext, ListByRunNext DEF ListInv
<1>3. ASSUME ListInv, [Next]_vars
      PROVE  [\A v \in OnList \ OnList' :
                \/ status'[v] = "cleaned"
                \/ budget'["failures"] < budget["failures"]
                \/ phase = "quota" /\ Enough]_vars
  <2> SUFFICES ASSUME NEW v \in OnList, v \notin OnList', ~Spend("failures"),
                      ~(phase = "quota" /\ Enough)
               PROVE  status'[v] = "cleaned"
    BY <1>3, FailureSpends DEF ListInv, QuotaInv
  <2>1. ~UNCHANGED <<todo, unlinked>>
    BY DEF OnList
  <2>2. ~TickerFires /\ ~Environment
    BY <2>1, OthersKeepTheRun DEF Crash
  <2>3. CleanupStep
    BY <1>3, <2>1, <2>2 DEF Next, vars, runVars
  <2>4. phase \in {"retention", "quota"}
    <3>1. SUFFICES ASSUME phase \notin {"retention", "quota"} PROVE FALSE
      OBVIOUS
    <3>2. todo = <<>> /\ unlinked = None
      BY <1>3, <3>1 DEF ListInv, ListByRun, QuotaInv, UnlinkedByList
    <3>3. QED
      BY <3>2 DEF OnList
  <2>5. ~RunCleanup /\ ~ListExpired /\ ~RetentionDone /\ ~ReadUsage /\ ~ListByAge /\ ~CleanupDone
    BY <2>1, <2>4
    DEF RunCleanup, ListExpired, RetentionDone, ReadUsage, ListByAge, CleanupDone, runVars
  <2>6. ~RemoveFile
    BY <1>3, HeadIsHandled
  <2>7. ~QuotaDone
    <3>1. SUFFICES ASSUME QuotaDone PROVE FALSE
      OBVIOUS
    <3>2. todo = <<>> /\ unlinked = None
      BY <3>1 DEF QuotaDone
    <3>3. QED
      BY <3>2 DEF OnList
  <2>8. MarkCleaned /\ unlinked # None /\ UNCHANGED todo
    BY <2>3, <2>5, <2>6, <2>7 DEF CleanupStep, MarkCleaned
  <2>9. v = unlinked /\ status' = [status EXCEPT ![unlinked] = "cleaned"]
    BY <2>8 DEF MarkCleaned, OnList
  <2>10. unlinked \in Videos /\ status \in [Videos -> Status]
    BY <1>3, <2>8 DEF ListInv, QuotaInv, TypeInv, TypeOK
  <2>11. QED
    BY <2>9, <2>10
<1>4. QED
  BY <1>1, <1>2, <1>3, PTL DEF Spec, ListIsWorkedOff

(***************************************************************************)
(* What is announced                                                       *)
(***************************************************************************)

\* Of the sets of what is at least some element the smallest is that of the
\* largest element.
LEMMA LargestExists ==
  ASSUME NEW S \in SUBSET Nat, IsFiniteSet(S), S # {}
  PROVE  Max(S) \in S /\ \A y \in S : Max(S) >= y
<1> DEFINE Above(x) == {y \in S : y >= x}
           T == {Above(x) : x \in S}
<1>1. T \subseteq FiniteSubsetsOf(S) /\ T # {}
  <2>1. \A U \in SUBSET S : IsFiniteSet(U)
    BY FS_Subset
  <2>2. QED
    BY <2>1 DEF FiniteSubsetsOf
<1>2. PICK U \in T : \A W \in T : <<W, U>> \notin StrictSubsetOrdering(S)
  BY <1>1, FS_StrictSubsetOrderingWellFounded, WFMin
<1>3. PICK x \in S : U = Above(x)
  BY <1>2
<1>4. ASSUME NEW y \in S, ~(x >= y)
      PROVE  FALSE
  <2>1. x < y /\ \A z \in S : z \in Nat
    BY <1>4
  <2>2. Above(y) \subseteq Above(x) /\ x \in Above(x) /\ x \notin Above(y)
    <3>1. \A z \in S : z >= y => z >= x
      BY <2>1
    <3>2. x \in Nat /\ x >= x /\ ~(x >= y)
      BY <2>1
    <3>3. QED
      BY <3>1, <3>2
  <2>3. <<Above(y), U>> \in StrictSubsetOrdering(S)
    BY <1>3, <2>2 DEF StrictSubsetOrdering
  <2>4. QED
    BY <1>2, <2>3
<1>5. QED
  BY <1>4 DEF Max

LEMMA RetentionTyped == \A s \in Sources : EffectiveRetention(s) \in Nat \cup {None}
BY CleanupAssumption DEF EffectiveRetention, Coalesce, Retention

\* The date the interface announces for a video is the day retention removes
\* it, whichever of the three layers its sources take their retention from:
\* what goes was announced, and what was announced goes, but for videos
\* without a source and for vetoed ones.
THEOREM DeletionsAreAnnounced == Spec => []DeletionIsAnnounced
<1>1. ASSUME TypeInv PROVE DeletionIsAnnounced
  <2> SUFFICES ASSUME NEW v \in Videos, status[v] = "completed", SourcesOf(v) # {}
               PROVE  LET announced == ScheduledDeletion(v) # None /\ ScheduledDeletion(v) <= now
                      IN Expired(v) <=> announced
    BY DEF DeletionIsAnnounced, PastRetention, ScheduledDeletion, Expired, Vetoed, SourcesOf
  <2>1. SourcesOf(v) \subseteq Sources /\ now \in Nat /\ since[v] \in Nat
    BY <1>1, CleanupAssumption DEF TypeInv, TypeOK, SourcesOf
  <2>2. CASE Keeping(v) # {}
    BY <2>2 DEF Keeping, ScheduledDeletion, Expired, Expires
  <2>3. CASE Keeping(v) = {}
    <3> DEFINE days == [s \in SourcesOf(v) |-> EffectiveRetention(s)]
               D == {EffectiveRetention(s) : s \in SourcesOf(v)}
    <3>1. D \in SUBSET Nat /\ D # {}
      BY <2>1, <2>3, RetentionTyped DEF Keeping
    <3>2. IsFiniteSet(D)
      <4>1. days \in Surjection(SourcesOf(v), D)
        BY DEF Surjection
      <4>2. IsFiniteSet(SourcesOf(v))
        BY <2>1, FS_Subset, CleanupAssumption
      <4>3. QED
        BY <4>1, <4>2, FS_Surjection
    <3>3. Max(D) \in D /\ \A d \in D : Max(D) >= d
      BY <3>1, <3>2, LargestExists
    <3>4. ScheduledDeletion(v) = since[v] + Max(D)
      BY <2>3 DEF ScheduledDeletion
    <3>5. since[v] + Max(D) # None
      <4>1. Max(D) \in Nat
        BY <3>1, <3>3
      <4>2. since[v] + Max(D) \in Nat
        BY <2>1, <4>1
      <4>3. QED
        BY <4>2, CleanupAssumption
    <3>6. Expired(v) <=> \A d \in D : since[v] + d <= now
      BY <3>1, CleanupAssumption DEF Expired, Expires
    <3>7. (\A d \in D : since[v] + d <= now) <=> since[v] + Max(D) <= now
      BY <2>1, <3>1, <3>3
    <3>8. QED
      BY <3>4, <3>5, <3>6, <3>7
  <2>4. QED
    BY <2>2, <2>3
<1>2. QED
  BY <1>1, TypeHolds, PTL
=============================================================================
