------------------------- MODULE SourceIndexerProofs -------------------------
(***************************************************************************)
(* Proofs about SourceIndexer, for every set of videos, every publication  *)
(* dates, cutoffs, limit of early termination and budget, and for every    *)
(* playlist that is listed in a direction.                                 *)
(***************************************************************************)
EXTENDS SourceIndexer, SequenceTheorems, TLAPS

\* The platform lists the videos of a source by date, in one direction or the
\* other (or all on one day, or none).  The code trusts the two ends of the
\* list for that.
Directed == \A list \in Playlists : Ascending(list) \/ Descending(list)

(***************************************************************************)
(* Type correctness                                                        *)
(***************************************************************************)

LEMMA SpendTyped ==
  ASSUME NEW key \in BudgetKeys, budget \in [BudgetKeys -> Nat], Spend(key)
  PROVE  budget' \in [BudgetKeys -> Nat]
<1>1. budget[key] \in Nat /\ budget[key] > 0
  BY DEF Spend
<1>2. budget[key] - 1 \in Nat
  BY <1>1
<1>3. QED
  BY <1>2 DEF Spend

LEMMA BudgetHasKeys == {"faults", "edits", "redetections"} \subseteq BudgetKeys
BY DEF BudgetKeys

\* The scan order lists the same videos.
LEMMA ReverseFacts ==
  ASSUME NEW S, NEW s \in Seq(S)
  PROVE  /\ Reverse(s) \in Seq(S)
         /\ Len(s) \in Nat /\ DOMAIN s = 1 .. Len(s) /\ DOMAIN Reverse(s) = 1 .. Len(s)
         /\ \A n \in DOMAIN s : /\ Len(s) - n + 1 \in DOMAIN s
                                /\ Reverse(s)[n] = s[Len(s) - n + 1]
<1>1. Len(s) \in Nat /\ DOMAIN s = 1 .. Len(s)
  OBVIOUS
<1>2. Reverse(s) = [n \in 1 .. Len(s) |-> s[Len(s) - n + 1]]
  BY DEF Reverse
<1>3. \A n \in 1 .. Len(s) : Len(s) - n + 1 \in 1 .. Len(s)
  BY <1>1
<1>4. \A n \in 1 .. Len(s) : s[Len(s) - n + 1] \in S
  BY <1>1, <1>3
<1>5. Reverse(s) \in Seq(S)
  BY <1>1, <1>2, <1>4, IsASeq
<1>6. QED
  BY <1>1, <1>2, <1>3, <1>5

LEMMA ScanOrderTyped ==
  ASSUME entries \in Seq(Videos), NEW order
  PROVE  ScanOrder(order) \in Seq(Videos)
BY ReverseFacts DEF ScanOrder

LEMMA TailTyped ==
  ASSUME NEW s \in Seq(Videos), s # <<>>
  PROVE  Head(s) \in Videos /\ Tail(s) \in Seq(Videos)
BY HeadTailProperties

LEMMA TypeInit == Init => TypeOK
<1> SUFFICES ASSUME Init PROVE TypeOK
  OBVIOUS
<1>1. playlist \in Seq(Videos) /\ <<>> \in Seq(Videos)
  BY SourceIndexerAssumption, EmptySeq DEF Init
<1>2. source \in SourceCopy
  BY DEF Init, SourceCopy, EntryOrder, DetectedAt
<1>3. 0 \in 0 .. MaxConsecutiveBeforeCutoff - 1
  BY SourceIndexerAssumption
<1>4. QED
  BY <1>1, <1>2, <1>3, SourceIndexerAssumption
  DEF Init, TypeOK, EntryOrder, DetectedAt, RunPhase

LEMMA PlanTyped ==
  ASSUME TypeOK, NEW order \in EntryOrder, Plan(order)
  PROVE  /\ queue' \in Seq(Videos) /\ early_termination' \in BOOLEAN /\ run' \in RunPhase
         /\ consecutive_before_cutoff' \in 0 .. MaxConsecutiveBeforeCutoff - 1
<1>1. 0 \in 0 .. MaxConsecutiveBeforeCutoff - 1
  BY SourceIndexerAssumption
<1>2. early_termination' \in BOOLEAN
  BY DEF Plan, StopsEarly
<1>3. QED
  BY <1>1, <1>2, ScanOrderTyped DEF Plan, TypeOK, RunPhase

LEMMA OrderFromDatesTyped ==
  ASSUME NEW first, NEW last
  PROVE  OrderFromDates(first, last) \in {"ascending", "descending", "unknown"}
BY DEF OrderFromDates

\* What a run plans by, and what it stores of it.
LEMMA DetectFacts ==
  ASSUME TypeOK, DetectEntryOrder
  PROVE  \E order \in EntryOrder :
           /\ Plan(order)
           /\ \/ order = source.entry_order
              \/ order = "unknown"
              \/ Len(entries) >= 2 /\ order = OrderFromDates(entries[1], Last(entries))
           /\ \/ UNCHANGED <<entry_order, detected_at>>
              \/ /\ Len(entries) >= 2 /\ order = OrderFromDates(entries[1], Last(entries))
                 /\ entry_order' = order /\ detected_at' = "fresh"
           /\ budget' = budget \/ Spend("faults")
<1>1. source.entry_order \in EntryOrder /\ "unknown" \in EntryOrder
  BY DEF TypeOK, SourceCopy, EntryOrder
<1>2. OrderFromDates(entries[1], Last(entries)) \in EntryOrder
  BY OrderFromDatesTyped DEF EntryOrder
<1>3. CASE Plan(source.entry_order) /\ UNCHANGED <<entry_order, detected_at, budget>>
  BY <1>1, <1>3
<1>4. CASE /\ Plan("unknown") /\ UNCHANGED <<entry_order, detected_at>>
           /\ budget' = budget \/ Spend("faults")
  BY <1>1, <1>4
<1>5. CASE /\ Len(entries) >= 2 /\ Plan(OrderFromDates(entries[1], Last(entries)))
           /\ \/ UNCHANGED <<entry_order, detected_at, budget>>
              \/ Persist(OrderFromDates(entries[1], Last(entries)))
  BY <1>2, <1>5 DEF Persist
<1>6. QED
  BY <1>3, <1>4, <1>5 DEF DetectEntryOrder

LEMMA TypeNext == TypeOK /\ [Next]_vars => TypeOK'
<1> SUFFICES ASSUME TypeOK, [Next]_vars PROVE TypeOK'
  OBVIOUS
<1> USE DEF rowVars, runVars
<1>1. CASE UNCHANGED vars
  BY <1>1 DEF vars, TypeOK
<1>2. CASE StartRun
  <2>1. source' \in SourceCopy
    BY <1>2 DEF StartRun, TypeOK, SourceCopy
  <2>2. QED
    BY <1>2, <2>1 DEF StartRun, TypeOK, RunPhase
<1>3. CASE FetchPlaylist
  <2>1. budget' \in [BudgetKeys -> Nat]
    BY <1>3, SpendTyped, BudgetHasKeys DEF FetchPlaylist, TypeOK
  <2>2. QED
    BY <1>3, <2>1 DEF FetchPlaylist, TypeOK, RunPhase
<1>4. CASE DetectEntryOrder
  <2>1. PICK order \in EntryOrder :
          /\ Plan(order)
          /\ \/ UNCHANGED <<entry_order, detected_at>>
             \/ entry_order' = order /\ detected_at' = "fresh"
          /\ budget' = budget \/ Spend("faults")
    BY <1>4, DetectFacts
  <2>2. budget' \in [BudgetKeys -> Nat]
    BY <2>1, SpendTyped, BudgetHasKeys DEF TypeOK
  <2>3. entry_order' \in EntryOrder /\ detected_at' \in DetectedAt
    BY <2>1 DEF TypeOK, DetectedAt
  <2>4. QED
    BY <1>4, <2>1, <2>2, <2>3, PlanTyped DEF DetectEntryOrder, TypeOK
<1>5. CASE ProcessEntry
  <2>1. Head(queue) \in Videos /\ Tail(queue) \in Seq(Videos) /\ <<>> \in Seq(Videos)
    BY <1>5, TailTyped, EmptySeq DEF ProcessEntry, TypeOK
  <2>2. queue' \in Seq(Videos) /\ run' \in RunPhase
    BY <1>5, <2>1 DEF ProcessEntry, Pass, CountBeforeCutoff, TypeOK, RunPhase
  <2>3. consecutive_before_cutoff' \in 0 .. MaxConsecutiveBeforeCutoff - 1
    BY <1>5, SourceIndexerAssumption DEF ProcessEntry, Pass, CountBeforeCutoff, Enough, TypeOK
  <2>4. stored' \subseteq Videos /\ known' \subseteq stored'
    BY <1>5, <2>1 DEF ProcessEntry, TypeOK
  <2>5. QED
    BY <1>5, <2>2, <2>3, <2>4 DEF ProcessEntry, TypeOK
<1>6. CASE EntryFails
  <2>1. Head(queue) \in Videos /\ Tail(queue) \in Seq(Videos)
    BY <1>6, TailTyped DEF EntryFails, TypeOK
  <2>2. budget' \in [BudgetKeys -> Nat]
    BY <1>6, SpendTyped, BudgetHasKeys DEF EntryFails, TypeOK
  <2>3. consecutive_before_cutoff' \in 0 .. MaxConsecutiveBeforeCutoff - 1
    BY <1>6, SourceIndexerAssumption DEF EntryFails, Pass
  <2>4. QED
    BY <1>6, <2>1, <2>2, <2>3 DEF EntryFails, Pass, TypeOK
<1>7. CASE EntryRateLimited
  <2>1. budget' \in [BudgetKeys -> Nat]
    BY <1>7, SpendTyped, BudgetHasKeys DEF EntryRateLimited, TypeOK
  <2>2. QED
    BY <1>7, <2>1, EmptySeq DEF EntryRateLimited, TypeOK, RunPhase
<1>8. CASE EndOfEntries \/ EndRun
  BY <1>8, SourceIndexerAssumption DEF EndOfEntries, EndRun, TypeOK, RunPhase
<1>9. CASE Publish
  <2>1. PICK v \in Videos : playlist' = Append(playlist, v) \/ playlist' = <<v>> \o playlist
    BY <1>9 DEF Publish
  <2>2. playlist' \in Seq(Videos)
    <3>1. playlist \in Seq(Videos) /\ <<v>> \in Seq(Videos)
      BY DEF TypeOK
    <3>2. QED
      BY <2>1, <3>1, AppendProperties, ConcatProperties
  <2>3. budget' \in [BudgetKeys -> Nat]
    BY <1>9, SpendTyped, BudgetHasKeys DEF Publish, TypeOK
  <2>4. QED
    BY <1>9, <2>2, <2>3 DEF Publish, TypeOK
<1>10. CASE SetCutoff \/ VerdictAges
  <2>1. budget' \in [BudgetKeys -> Nat]
    BY <1>10, SpendTyped, BudgetHasKeys DEF SetCutoff, VerdictAges, TypeOK
  <2>2. QED
    BY <1>10, <2>1 DEF SetCutoff, VerdictAges, TypeOK, DetectedAt
<1>11. QED
  BY <1>1, <1>2, <1>3, <1>4, <1>5, <1>6, <1>7, <1>8, <1>9, <1>10 DEF Next, RunStep

LEMMA TypeHolds == Spec => []TypeOK
BY TypeInit, TypeNext, PTL DEF Spec

\* Every variable of an index run has its type, whatever is published, moved
\* or fails meanwhile; in particular the scan ends before its counter of
\* entries before the cutoff exceeds its limit.
THEOREM SourceIndexerTyped == Spec => []TypeOK
BY TypeHolds

(***************************************************************************)
(* The verdict.  "Ascending" is only ever concluded from two ends of which *)
(* the last is newer, so the playlist is then not descending as well, and  *)
(* keeps its direction whatever is published later.                        *)
(***************************************************************************)

Rising == Ascending(playlist)

Falling == Descending(playlist)

EntriesRising == Ascending(entries)

EntriesFalling == Descending(entries)

TrueOf(order) ==
  /\ order # "unordered"
  /\ order = "ascending" => Rising /\ ~Falling
  /\ order = "descending" => Falling /\ ~Rising

\* What the ends of the fetched list say, and what the copied verdict says of it.
EndsTell ==
  /\ Len(entries) >= 2 =>
       /\ Date[entries[1]] < Date[entries[Len(entries)]] => Rising /\ ~Falling /\ EntriesRising
       /\ Date[entries[1]] > Date[entries[Len(entries)]] => Falling /\ ~Rising /\ EntriesFalling
  /\ source.entry_order = "ascending" => EntriesRising
  /\ source.entry_order = "descending" => EntriesFalling

VerdictInv ==
  /\ TypeOK
  /\ Rising \/ Falling
  /\ TrueOf(entry_order)
  /\ run \in {"started", "fetched"} => TrueOf(source.entry_order)
  /\ run = "fetched" => EndsTell

\* The directions of the next state, with the prime where the variable is.
LEMMA Later ==
  /\ Rising' <=> Ascending(playlist')
  /\ Falling' <=> Descending(playlist')
  /\ EntriesRising' <=> Ascending(entries')
  /\ EntriesFalling' <=> Descending(entries')
BY DEF Rising, Falling, EntriesRising, EntriesFalling, Ascending, Descending

LEMMA TrueOfKept ==
  ASSUME NEW order, TrueOf(order), Rising' <=> Rising, Falling' <=> Falling
  PROVE  TrueOf(order)'
BY DEF TrueOf

LEMMA VerdictInvInit == Directed /\ Init => VerdictInv
<1> SUFFICES ASSUME Directed, Init PROVE VerdictInv
  OBVIOUS
<1>1. TypeOK
  BY TypeInit
<1>2. Rising \/ Falling
  BY DEF Init, Directed, Rising, Falling
<1>3. TrueOf(entry_order) /\ run = "idle"
  BY DEF Init, TrueOf
<1>4. QED
  BY <1>1, <1>2, <1>3 DEF VerdictInv

\* A list whose ends differ has one direction at most.
LEMMA EndsDecide ==
  ASSUME NEW list \in Seq(Videos), Len(list) >= 2
  PROVE  /\ Date[list[1]] < Date[list[Len(list)]] => ~Descending(list)
         /\ Date[list[1]] > Date[list[Len(list)]] => ~Ascending(list)
<1>1. /\ Len(list) \in Nat /\ 1 \in DOMAIN list /\ Len(list) \in DOMAIN list /\ 1 < Len(list)
  OBVIOUS
<1>2. Date[list[1]] \in Nat /\ Date[list[Len(list)]] \in Nat
  BY <1>1, SourceIndexerAssumption
<1>3. Descending(list) => Date[list[1]] >= Date[list[Len(list)]]
  BY <1>1 DEF Descending
<1>4. Ascending(list) => Date[list[1]] <= Date[list[Len(list)]]
  BY <1>1 DEF Ascending
<1>5. QED
  BY <1>2, <1>3, <1>4

\* A list stays in its direction when it grows at the end for new videos.
LEMMA GrowsUp ==
  ASSUME NEW list \in Seq(Videos), NEW v \in Videos, Ascending(list),
         \A w \in ToSet(list) : Date[w] <= Date[v]
  PROVE  Ascending(Append(list, v))
<1>1. /\ Len(list) \in Nat /\ DOMAIN list = 1 .. Len(list)
      /\ DOMAIN Append(list, v) = 1 .. Len(list) + 1
      /\ \A n \in DOMAIN list : Append(list, v)[n] = list[n]
      /\ Append(list, v)[Len(list) + 1] = v
  OBVIOUS
<1>2. \A n \in DOMAIN list : Date[list[n]] <= Date[v]
  BY DEF ToSet
<1>3. SUFFICES ASSUME NEW i \in DOMAIN Append(list, v), NEW j \in DOMAIN Append(list, v), i < j
               PROVE  Date[Append(list, v)[i]] <= Date[Append(list, v)[j]]
  BY DEF Ascending
<1>4. i \in DOMAIN list
  BY <1>1, <1>3
<1>5. CASE j \in DOMAIN list
  BY <1>1, <1>3, <1>4, <1>5 DEF Ascending
<1>6. CASE j = Len(list) + 1
  BY <1>1, <1>2, <1>4, <1>6
<1>7. QED
  BY <1>1, <1>5, <1>6

LEMMA GrowsDown ==
  ASSUME NEW list \in Seq(Videos), NEW v \in Videos, Descending(list),
         \A w \in ToSet(list) : Date[w] <= Date[v]
  PROVE  Descending(<<v>> \o list)
<1> DEFINE longer == <<v>> \o list
<1>1. /\ Len(list) \in Nat /\ DOMAIN list = 1 .. Len(list)
      /\ DOMAIN longer = 1 .. Len(list) + 1
      /\ longer[1] = v
      /\ \A n \in DOMAIN longer : n # 1 => n - 1 \in DOMAIN list /\ longer[n] = list[n - 1]
  OBVIOUS
<1>2. \A n \in DOMAIN list : Date[list[n]] <= Date[v]
  BY DEF ToSet
<1>3. SUFFICES ASSUME NEW i \in DOMAIN longer, NEW j \in DOMAIN longer, i < j
               PROVE  Date[longer[i]] >= Date[longer[j]]
  BY DEF Descending
<1> HIDE DEF longer
<1>4. j # 1 /\ j - 1 \in DOMAIN list /\ longer[j] = list[j - 1]
  BY <1>1, <1>3
<1>5. Date[v] \in Nat /\ Date[list[j - 1]] \in Nat
  BY <1>4, SourceIndexerAssumption
<1>6. CASE i = 1
  BY <1>1, <1>2, <1>4, <1>5, <1>6
<1>7. CASE i # 1
  <2>1. i - 1 \in DOMAIN list /\ longer[i] = list[i - 1] /\ i - 1 < j - 1
    BY <1>1, <1>3, <1>7
  <2>2. QED
    BY <1>4, <2>1 DEF Descending
<1>8. QED
  BY <1>6, <1>7

\* Whatever is published, a playlist keeps the direction it has alone.
LEMMA PublishFacts ==
  ASSUME TypeOK, Rising \/ Falling, Publish
  PROVE  /\ Rising' \/ Falling'
         /\ Rising /\ ~Falling => Rising' /\ ~Falling'
         /\ Falling /\ ~Rising => Falling' /\ ~Rising'
<1>1. PICK v \in Videos :
        /\ \A w \in ToSet(playlist) : Date[w] <= Date[v]
        /\ \/ Ascending(playlist) /\ playlist' = Append(playlist, v)
           \/ Descending(playlist) /\ playlist' = <<v>> \o playlist
        /\ Ascending(playlist') => Ascending(playlist)
        /\ Descending(playlist') => Descending(playlist)
  BY DEF Publish
<1>2. playlist \in Seq(Videos)
  BY DEF TypeOK
<1>3. /\ Ascending(playlist) /\ playlist' = Append(playlist, v) => Ascending(playlist')
      /\ Descending(playlist) /\ playlist' = <<v>> \o playlist => Descending(playlist')
  BY <1>1, <1>2, GrowsUp, GrowsDown
<1>4. (Rising <=> Ascending(playlist)) /\ (Falling <=> Descending(playlist))
  BY DEF Rising, Falling
<1>5. QED
  BY <1>1, <1>3, <1>4, Later

LEMMA VerdictInvNext == VerdictInv /\ [Next]_vars => VerdictInv'
<1> SUFFICES ASSUME VerdictInv, [Next]_vars PROVE VerdictInv'
  OBVIOUS
<1> USE DEF rowVars, runVars
<1>1. TypeOK /\ TypeOK'
  BY TypeNext DEF VerdictInv
<1>2. ASSUME UNCHANGED playlist
      PROVE  /\ (Rising' <=> Rising) /\ (Falling' <=> Falling)
             /\ \A order : TrueOf(order) => TrueOf(order)'
  BY <1>2 DEF Rising, Falling, Ascending, Descending, TrueOf
<1>3. ASSUME UNCHANGED <<playlist, entry_order, source, entries>>,
             run' = run \/ run' \notin {"started", "fetched"}
      PROVE  VerdictInv'
  <2>1. UNCHANGED <<Rising, Falling, EntriesRising, EntriesFalling>>
    BY <1>3 DEF Rising, Falling, EntriesRising, EntriesFalling, Ascending, Descending
  <2>2. QED
    BY <1>1, <1>3, <2>1 DEF VerdictInv, TrueOf, EndsTell
<1>4. CASE UNCHANGED vars
  BY <1>3, <1>4 DEF vars
<1>5. CASE StartRun
  <2>1. source'.entry_order = entry_order /\ run' = "started" /\ UNCHANGED <<playlist, entry_order>>
    BY <1>5 DEF StartRun
  <2>2. UNCHANGED <<Rising, Falling>>
    BY <2>1 DEF Rising, Falling, Ascending, Descending
  <2>3. QED
    BY <1>1, <2>1, <2>2 DEF VerdictInv, TrueOf
<1>6. CASE FetchPlaylist
  <2>1. UNCHANGED <<playlist, entry_order, source>> /\ run = "started"
    BY <1>6 DEF FetchPlaylist
  <2>2. UNCHANGED <<Rising, Falling>>
    BY <2>1 DEF Rising, Falling, Ascending, Descending
  <2>3. CASE run' = "idle"
    BY <1>1, <2>1, <2>2, <2>3 DEF VerdictInv, TrueOf
  <2>4. CASE run' = "fetched" /\ entries' = playlist
    <3>1. playlist \in Seq(Videos) /\ Rising = Ascending(playlist) /\ Falling = Descending(playlist)
      BY <1>1 DEF TypeOK, Rising, Falling
    <3>2. (EntriesRising' <=> Rising) /\ (EntriesFalling' <=> Falling)
      BY <2>4, <3>1, Later
    <3>3. Len(playlist) >= 2 =>
            /\ Date[playlist[1]] < Date[playlist[Len(playlist)]] => ~Falling
            /\ Date[playlist[1]] > Date[playlist[Len(playlist)]] => ~Rising
      BY <3>1, EndsDecide
    <3>4. EndsTell'
      BY <2>1, <2>2, <2>4, <3>2, <3>3 DEF EndsTell, VerdictInv, TrueOf
    <3>5. QED
      BY <1>1, <2>1, <2>2, <3>4 DEF VerdictInv, TrueOf
  <2>5. QED
    BY <1>6, <2>3, <2>4 DEF FetchPlaylist
<1>7. CASE DetectEntryOrder
  <2>1. PICK order \in EntryOrder :
          /\ Plan(order)
          /\ \/ UNCHANGED <<entry_order, detected_at>>
             \/ /\ Len(entries) >= 2 /\ order = OrderFromDates(entries[1], Last(entries))
                /\ entry_order' = order /\ detected_at' = "fresh"
    BY <1>1, <1>7, DetectFacts
  <2>2. run = "fetched" /\ run' = "scanning" /\ UNCHANGED <<playlist, source, entries>>
    BY <1>7, <2>1 DEF DetectEntryOrder, Plan
  <2>3. CASE UNCHANGED entry_order
    BY <1>3, <2>2, <2>3
  <2>4. CASE /\ Len(entries) >= 2 /\ order = OrderFromDates(entries[1], Last(entries))
             /\ entry_order' = order
    <3>1. TrueOf(order)
      BY <2>2, <2>4 DEF VerdictInv, EndsTell, TrueOf, OrderFromDates, Last
    <3>2. TrueOf(order)'
      BY <1>2, <2>2, <3>1
    <3>3. TrueOf(entry_order)'
      BY <2>4, <3>2 DEF TrueOf
    <3>4. QED
      BY <1>1, <1>2, <2>2, <3>3 DEF VerdictInv
  <2>5. QED
    BY <2>1, <2>3, <2>4
<1>8. CASE ProcessEntry \/ EntryFails \/ EntryRateLimited \/ EndOfEntries \/ EndRun
  <2>1. /\ UNCHANGED <<playlist, entry_order, source, entries>>
        /\ run' = run \/ run' \notin {"started", "fetched"}
    BY <1>8 DEF ProcessEntry, CountBeforeCutoff, EntryFails, Pass, EntryRateLimited, EndOfEntries,
       EndRun
  <2>2. QED
    BY <1>3, <2>1
<1>9. CASE Publish
  <2>1. UNCHANGED <<entry_order, source, entries, run>>
    BY <1>9 DEF Publish
  <2>2. UNCHANGED <<EntriesRising, EntriesFalling>>
    BY <2>1 DEF EntriesRising, EntriesFalling, Ascending, Descending
  <2>3. QED
    BY <1>1, <1>9, <2>1, <2>2, PublishFacts DEF VerdictInv, TrueOf, EndsTell
<1>10. CASE SetCutoff \/ VerdictAges
  BY <1>3, <1>10 DEF SetCutoff, VerdictAges
<1>11. QED
  BY <1>4, <1>5, <1>6, <1>7, <1>8, <1>9, <1>10 DEF Next, RunStep

LEMMA VerdictInvHolds == ASSUME Directed PROVE Spec => []VerdictInv
<1>1. Init => VerdictInv
  BY VerdictInvInit
<1>2. QED
  BY <1>1, VerdictInvNext, PTL DEF Spec

\* The verdict that is stored is the direction of the playlist, whatever was
\* published since it was found, however old the copy a run works with, and
\* whichever looks and writes failed.
THEOREM VerdictHolds ==
  ASSUME Directed
  PROVE  Spec => []VerdictIsTrue
<1>1. VerdictInv => VerdictIsTrue
  BY DEF VerdictInv, TypeOK, EntryOrder, TrueOf, Rising, Falling, VerdictIsTrue
<1>2. QED
  BY <1>1, VerdictInvHolds, PTL

(***************************************************************************)
(* Early termination.  A scan that may stop early goes from new to old, so *)
(* the first entry before the cutoff already says that nothing wanted is   *)
(* left; how many the scan waits for does not matter to the argument.      *)
(***************************************************************************)

Wanted(v) == v \notin Unavailable \cup excused /\ ~BeforeCutoff(v)

Queued(v) == \E k \in DOMAIN queue : queue[k] = v

\* What the scan has left behind is known, unless it was passed over.
NothingSkipped ==
  \A n \in DOMAIN entries :
    Wanted(entries[n]) => entries[n] \in known \/ Queued(entries[n])

NewestFirst == \A i, j \in DOMAIN queue : i < j => Date[queue[i]] >= Date[queue[j]]

ScanInv ==
  /\ VerdictInv
  /\ run \in {"scanning", "done"} /\ ~aborted => NothingSkipped
  /\ run = "scanning" /\ early_termination => NewestFirst
  /\ run = "done" => queue = <<>>

LEMMA ScanInvInit == VerdictInv /\ Init => ScanInv
BY DEF Init, ScanInv

\* Taking the head of the queue.
LEMMA TailFacts ==
  ASSUME TypeOK, queue # <<>>, queue' = Tail(queue)
  PROVE  /\ Head(queue) \in Videos
         /\ \A v : Queued(v) => Queued(v)' \/ v = Head(queue)
         /\ NewestFirst => NewestFirst'
         /\ NewestFirst => \A v : Queued(v) => Date[v] <= Date[Head(queue)]
<1>1. /\ Len(queue) \in Nat \ {0} /\ DOMAIN queue = 1 .. Len(queue)
      /\ DOMAIN queue' = 1 .. Len(queue) - 1
      /\ \A n \in DOMAIN queue' : queue'[n] = queue[n + 1]
      /\ Head(queue) = queue[1] /\ \A n \in DOMAIN queue : queue[n] \in Videos
  BY HeadTailProperties, EmptySeq DEF TypeOK
<1>2. \A k \in DOMAIN queue : k = 1 \/ (k - 1 \in DOMAIN queue' /\ queue'[k - 1] = queue[k])
  BY <1>1
<1>3. \A n \in DOMAIN queue' : n \in Nat /\ n + 1 \in DOMAIN queue
  BY <1>1
<1>4. \A v : Queued(v) => Queued(v)' \/ v = Head(queue)
  BY <1>1, <1>2 DEF Queued
<1>5. NewestFirst => NewestFirst'
  BY <1>1, <1>3 DEF NewestFirst
<1>6. \A k \in DOMAIN queue : Date[queue[k]] \in Nat
  BY <1>1, SourceIndexerAssumption
<1>7. NewestFirst => \A k \in DOMAIN queue : Date[queue[k]] <= Date[queue[1]]
  BY <1>1, <1>6 DEF NewestFirst
<1>8. QED
  BY <1>1, <1>4, <1>5, <1>7 DEF Queued

\* The plan of a run: all entries are queued, and a scan that may stop early
\* begins with the newest.
LEMMA PlanFacts ==
  ASSUME TypeOK, NEW order, Plan(order),
         order = "ascending" => EntriesRising, order = "descending" => EntriesFalling
  PROVE  /\ \A n \in DOMAIN entries : \E k \in DOMAIN queue' : queue'[k] = entries[n]
         /\ early_termination' => NewestFirst'
<1>1. entries \in Seq(Videos) /\ queue' = ScanOrder(order)
  BY DEF TypeOK, Plan
<1>2. /\ Len(entries) \in Nat /\ DOMAIN entries = 1 .. Len(entries)
      /\ DOMAIN Reverse(entries) = 1 .. Len(entries)
      /\ \A n \in DOMAIN entries : /\ Len(entries) - n + 1 \in DOMAIN entries
                                   /\ Reverse(entries)[n] = entries[Len(entries) - n + 1]
  BY <1>1, ReverseFacts
<1>3. CASE order = "ascending"
  <2>1. queue' = Reverse(entries)
    BY <1>1, <1>3 DEF ScanOrder
  <2>2. ASSUME NEW n \in DOMAIN entries PROVE \E k \in DOMAIN queue' : queue'[k] = entries[n]
    <3>1. Len(entries) - (Len(entries) - n + 1) + 1 = n
      BY <1>2
    <3>2. queue'[Len(entries) - n + 1] = entries[n]
      BY <1>2, <2>1, <3>1
    <3>3. QED
      BY <1>2, <2>1, <3>2
  <2>3. NewestFirst'
    <3>1. ASSUME NEW i \in DOMAIN queue', NEW j \in DOMAIN queue', i < j
          PROVE  Date[queue'[i]] >= Date[queue'[j]]
      <4>1. /\ Len(entries) - i + 1 \in DOMAIN entries /\ Len(entries) - j + 1 \in DOMAIN entries
            /\ Len(entries) - j + 1 < Len(entries) - i + 1
        BY <1>2, <2>1, <3>1
      <4>2. /\ queue'[i] = entries[Len(entries) - i + 1]
            /\ queue'[j] = entries[Len(entries) - j + 1]
        BY <1>2, <2>1
      <4>3. Date[entries[Len(entries) - j + 1]] <= Date[entries[Len(entries) - i + 1]]
        BY <1>3, <4>1 DEF EntriesRising, Ascending
      <4>4. /\ Date[entries[Len(entries) - j + 1]] \in Nat
            /\ Date[entries[Len(entries) - i + 1]] \in Nat
        BY <1>1, <4>1, SourceIndexerAssumption
      <4>5. QED
        BY <4>2, <4>3, <4>4
    <3>2. QED
      BY <3>1 DEF NewestFirst
  <2>4. QED
    BY <2>2, <2>3
<1>4. CASE order # "ascending"
  <2>1. queue' = entries
    BY <1>1, <1>4 DEF ScanOrder
  <2>2. \A n \in DOMAIN entries : \E k \in DOMAIN queue' : queue'[k] = entries[n]
    BY <2>1
  <2>3. early_termination' => order = "descending"
    BY <1>4 DEF Plan, StopsEarly
  <2>4. early_termination' => NewestFirst'
    BY <2>1, <2>3 DEF EntriesFalling, Descending, NewestFirst
  <2>5. QED
    BY <2>2, <2>4
<1>5. QED
  BY <1>3, <1>4

\* An entry is taken from the queue: it is known by now, or was not wanted.
LEMMA EntryDone ==
  ASSUME ScanInv, run = "scanning", queue # <<>>, queue' = Tail(queue),
         UNCHANGED <<run, source, entries, early_termination, aborted>>,
         known \subseteq known', excused \subseteq excused',
         NEW v, v = Head(queue), Wanted(v)' => v \in known'
  PROVE  /\ run' \in {"scanning", "done"} /\ ~aborted' => NothingSkipped'
         /\ run' = "scanning" /\ early_termination' => NewestFirst'
<1>1. TypeOK
  BY DEF ScanInv, VerdictInv
<1>2. \A w : Wanted(w)' => Wanted(w)
  BY DEF Wanted, BeforeCutoff
<1>3. ~aborted => NothingSkipped'
  <2>1. SUFFICES ASSUME ~aborted, NEW n \in DOMAIN entries, NEW w, w = entries[n], Wanted(w)'
                 PROVE  w \in known' \/ Queued(w)'
    BY DEF NothingSkipped, Wanted, BeforeCutoff, Queued
  <2>2. w \in known \/ Queued(w)
    BY <1>2, <2>1 DEF ScanInv, NothingSkipped
  <2>3. Queued(w) => Queued(w)' \/ w = v
    BY <1>1, TailFacts
  <2>4. QED
    BY <2>1, <2>2, <2>3
<1>4. QED
  BY <1>1, <1>3, TailFacts DEF ScanInv

LEMMA ScanInvNext == ScanInv /\ [Next]_vars => ScanInv'
<1> SUFFICES ASSUME ScanInv, [Next]_vars PROVE ScanInv'
  OBVIOUS
<1> USE DEF rowVars, runVars
<1>1. VerdictInv /\ VerdictInv' /\ TypeOK
  BY VerdictInvNext DEF ScanInv, VerdictInv
<1>2. ASSUME UNCHANGED <<source, entries, queue, early_termination, excused, aborted, known>>,
             run' = run \/ (run = "scanning" /\ queue = <<>> /\ run' = "done")
      PROVE  ScanInv'
  <2>1. /\ NothingSkipped => NothingSkipped'
        /\ NewestFirst => NewestFirst'
    BY <1>2 DEF NothingSkipped, NewestFirst, Wanted, BeforeCutoff, Queued
  <2>2. QED
    BY <1>1, <1>2, <2>1 DEF ScanInv
<1>3. ASSUME run' \in {"idle", "started", "fetched"} PROVE ScanInv'
  BY <1>1, <1>3 DEF ScanInv
<1>4. CASE UNCHANGED vars \/ Publish \/ SetCutoff \/ VerdictAges \/ EndOfEntries
  BY <1>2, <1>4 DEF vars, Publish, SetCutoff, VerdictAges, EndOfEntries
<1>5. CASE StartRun \/ FetchPlaylist \/ EndRun
  BY <1>3, <1>5 DEF StartRun, FetchPlaylist, EndRun
<1>6. CASE DetectEntryOrder
  <2>1. PICK order \in EntryOrder :
          /\ Plan(order)
          /\ \/ order = source.entry_order
             \/ order = "unknown"
             \/ Len(entries) >= 2 /\ order = OrderFromDates(entries[1], Last(entries))
    BY <1>1, <1>6, DetectFacts
  <2>2. run = "fetched" /\ run' = "scanning" /\ UNCHANGED entries
    BY <1>6, <2>1 DEF DetectEntryOrder, Plan
  <2>3. EndsTell
    BY <1>1, <2>2 DEF VerdictInv
  <2>4. (order = "ascending" => EntriesRising) /\ (order = "descending" => EntriesFalling)
    BY <2>1, <2>3 DEF EndsTell, OrderFromDates, Last
  <2>5. NothingSkipped' /\ (early_termination' => NewestFirst')
    BY <1>1, <2>1, <2>2, <2>4, PlanFacts DEF NothingSkipped, Queued
  <2>6. QED
    BY <1>1, <2>2, <2>5 DEF ScanInv
<1>7. CASE ProcessEntry
  <2>1. /\ run = "scanning" /\ queue # <<>> /\ known \subseteq known'
        /\ UNCHANGED <<source, entries, early_termination, excused, aborted>>
    BY <1>7 DEF ProcessEntry
  <2> PICK v : v = Head(queue)
    OBVIOUS
  <2>2. CASE Pass
    <3>1. Wanted(v)' => v \in known'
      BY <1>7, <2>1, <2>2 DEF ProcessEntry, CountBeforeCutoff, Wanted, BeforeCutoff
    <3>2. queue' = Tail(queue) /\ UNCHANGED run
      BY <2>2 DEF Pass
    <3>3. QED
      BY <1>1, <2>1, <3>1, <3>2, EntryDone DEF ScanInv
  <2>3. CASE BeforeCutoff(v) /\ CountBeforeCutoff
    <3>1. ~Wanted(v)'
      BY <2>1, <2>3 DEF Wanted, BeforeCutoff
    <3>2. CASE queue' = Tail(queue) /\ UNCHANGED run
      BY <1>1, <2>1, <3>1, <3>2, EntryDone DEF ScanInv
    <3>3. CASE early_termination /\ run' = "done" /\ queue' = <<>>
      <4>1. v = queue[1] /\ \A k \in DOMAIN queue : Date[queue[k]] \in Nat /\ 1 <= k
        BY <1>1, <2>1, SourceIndexerAssumption DEF TypeOK
      <4>2. NewestFirst /\ 1 \in DOMAIN queue
        BY <1>1, <2>1, <3>3, EmptySeq DEF ScanInv, TypeOK
      <4>3. \A k \in DOMAIN queue : Date[queue[k]] <= Date[queue[1]]
        BY <1>1, <4>1, <4>2 DEF NewestFirst, TypeOK
      <4>4. source.cutoff_date \in Nat
        BY <1>1, SourceIndexerAssumption DEF TypeOK, SourceCopy
      <4>5. \A w : Queued(w) => BeforeCutoff(w)
        BY <2>3, <4>1, <4>2, <4>3, <4>4 DEF BeforeCutoff, Queued
      <4>6. ~aborted => NothingSkipped'
        BY <2>1, <4>5 DEF ScanInv, NothingSkipped, Wanted, BeforeCutoff
      <4>7. QED
        BY <1>1, <2>1, <3>3, <4>6 DEF ScanInv
    <3>4. QED
      BY <2>3, <3>2, <3>3 DEF CountBeforeCutoff
  <2>4. QED
    BY <1>7, <2>2, <2>3 DEF ProcessEntry
<1>8. CASE EntryFails
  <2> PICK v : v = Head(queue)
    OBVIOUS
  <2>1. ~Wanted(v)'
    BY <1>8 DEF EntryFails, Wanted
  <2>2. /\ run = "scanning" /\ queue # <<>> /\ queue' = Tail(queue) /\ excused \subseteq excused'
        /\ UNCHANGED <<run, known, source, entries, early_termination, aborted>>
    BY <1>8 DEF EntryFails, Pass
  <2>3. QED
    BY <1>1, <2>1, <2>2, EntryDone DEF ScanInv
<1>9. CASE EntryRateLimited
  BY <1>1, <1>9 DEF EntryRateLimited, ScanInv
<1>10. QED
  BY <1>4, <1>5, <1>6, <1>7, <1>8, <1>9 DEF Next, RunStep

\* Early termination is sound: a run that was not rate limited has every
\* video of its list on or after its cutoff, but for those whose own
\* processing failed, although it stops after a few old entries, works with
\* an old copy of verdict and cutoff, and the playlist grows meanwhile.
THEOREM NothingIsMissed ==
  ASSUME Directed
  PROVE  Spec => []NothingMissed
<1>1. VerdictInv /\ Init => ScanInv
  BY ScanInvInit
<1>2. Init => VerdictInv
  BY VerdictInvInit
<1>3. ScanInv => NothingMissed
  <2> SUFFICES ASSUME ScanInv, run = "done", ~aborted PROVE NothingMissed
    BY DEF NothingMissed
  <2>1. NothingSkipped /\ \A v : ~Queued(v)
    BY DEF ScanInv, Queued
  <2>2. QED
    BY <2>1 DEF NothingSkipped, Wanted, NothingMissed, ToSet
<1>4. QED
  BY <1>1, <1>2, <1>3, ScanInvNext, PTL DEF Spec
==============================================================================
