--------------------------- MODULE SchedulerProofs ---------------------------
(***************************************************************************)
(* Proofs about Scheduler, for every number of sources and indexers, every *)
(* capacity, cap per tick and retry limit.                                 *)
(***************************************************************************)
EXTENDS Scheduler, SequenceTheorems, TLAPS

(***************************************************************************)
(* Lemmas about the operators                                              *)
(***************************************************************************)

\* tell and ask append one message and move none of those that wait.
LEMMA TellFacts ==
  ASSUME NEW m \in Message, mailbox \in Seq(Message), Tell(m)
  PROVE  /\ mailbox' \in Seq(Message)
         /\ Len(mailbox) \in Nat
         /\ DOMAIN mailbox = 1 .. Len(mailbox)
         /\ DOMAIN mailbox' = 1 .. Len(mailbox) + 1
         /\ \A n \in DOMAIN mailbox : mailbox'[n] = mailbox[n]
         /\ mailbox'[Len(mailbox) + 1] = m
BY DEF Tell

\* Receiving takes the head and moves every other message one place forward.
LEMMA ReceiveFacts ==
  ASSUME NEW kind, mailbox \in Seq(Message), Receive(kind)
  PROVE  /\ Head(mailbox) \in Message /\ Head(mailbox).kind = kind
         /\ Head(mailbox) = mailbox[1]
         /\ mailbox' \in Seq(Message)
         /\ Len(mailbox) \in Nat \ {0}
         /\ DOMAIN mailbox = 1 .. Len(mailbox)
         /\ DOMAIN mailbox' = 1 .. Len(mailbox) - 1
         /\ \A n \in DOMAIN mailbox' : mailbox'[n] = mailbox[n + 1]
BY HeadTailProperties, LenProperties, EmptySeq DEF Receive

Completed(s) == [kind |-> "IndexingCompleted", source |-> s]

LEMMA MessageFacts ==
  /\ \A kind \in {"StartScheduler", "CheckSources"} : [kind |-> kind] \in Message
  /\ \A s \in Sources : /\ [kind |-> "IndexSource", source |-> s] \in Message
                        /\ Completed(s) \in Message
  /\ \A m \in Message : m.kind \in {"IndexSource", "IndexingCompleted"} => m.source \in Sources
  /\ \A m \in Message : m.kind = "IndexingCompleted" => m = Completed(m.source)
BY DEF Message, Completed

\* Spending one event keeps the budget's type and touches no other entry.
LEMMA SpendFacts ==
  ASSUME NEW key \in BudgetKeys, budget \in [BudgetKeys -> Nat], Spend(key)
  PROVE  /\ budget' \in [BudgetKeys -> Nat]
         /\ budget[key] > 0
         /\ \A other \in BudgetKeys \ {key} : budget'[other] = budget[other]
<1>1. budget[key] \in Nat /\ budget[key] > 0
  BY DEF Spend
<1>2. budget[key] - 1 \in Nat
  BY <1>1
<1>3. QED
  BY <1>1, <1>2 DEF Spend

\* Every other indexer is left alone by Move.
LEMMA MoveFacts ==
  ASSUME indexer \in [Indexers -> Indexer], NEW i \in Indexers, NEW pc \in PC, Move(i, pc)
  PROVE  /\ indexer' \in [Indexers -> Indexer]
         /\ indexer'[i].pc = pc /\ indexer'[i].source = indexer[i].source
         /\ \A j \in Indexers \ {i} : indexer'[j] = indexer[j]
BY DEF Move, Indexer

LEMMA SpawnFacts ==
  ASSUME indexer \in [Indexers -> Indexer], active_indexers \in [Sources -> Indexers \cup {None}],
         NEW s \in Sources, SpawnIndexer(s)
  PROVE  /\ indexer' \in [Indexers -> Indexer]
         /\ active_indexers' \in [Sources -> Indexers \cup {None}]
         /\ \E i \in Indexers :
               /\ indexer[i].pc = "unused"
               /\ indexer'[i] = [pc |-> "starting", source |-> s]
               /\ \A j \in Indexers \ {i} : indexer'[j] = indexer[j]
               /\ active_indexers'[s] = i
               /\ \A r \in Sources \ {s} : active_indexers'[r] = active_indexers[r]
<1>1. PICK i \in Indexers :
        /\ indexer[i].pc = "unused"
        /\ indexer' = [indexer EXCEPT ![i] = [pc |-> "starting", source |-> s]]
        /\ active_indexers' = [active_indexers EXCEPT ![s] = i]
  BY DEF SpawnIndexer
<1>2. [pc |-> "starting", source |-> s] \in Indexer
  BY DEF Indexer, PC
<1>3. QED
  BY <1>1, <1>2

(***************************************************************************)
(* Type correctness.  A used slot has a source, which is why a waiter has  *)
(* something to say.                                                       *)
(***************************************************************************)

UsedHaveSource == \A i \in Indexers : indexer[i].pc # "unused" => indexer[i].source \in Sources

TypeInv == TypeOK /\ UsedHaveSource

LEMMA TypeInvInit == Init => TypeInv
<1> SUFFICES ASSUME Init PROVE TypeInv
  OBVIOUS
<1>1. UnusedIndexer \in Indexer /\ UnusedIndexer.pc = "unused"
  BY DEF UnusedIndexer, Indexer, PC
<1>2. UsedHaveSource
  BY <1>1 DEF Init, UsedHaveSource
<1>3. mailbox \in Seq(Message)
  <2>1. [kind |-> "StartScheduler"] \in Message
    BY MessageFacts
  <2>2. QED
    BY <2>1 DEF Init, Start
<1>4. sweeps \in 0 .. SweepCap
  BY SchedulerAssumption DEF Init
<1>5. TypeOK
  BY <1>1, <1>3, <1>4, SchedulerAssumption DEF Init, TypeOK, Phase
<1>6. QED
  BY <1>2, <1>5 DEF TypeInv

LEMMA SpawnTyped ==
  ASSUME TypeInv, NEW s \in Sources, SpawnIndexer(s)
  PROVE  /\ indexer' \in [Indexers -> Indexer]
         /\ active_indexers' \in [Sources -> Indexers \cup {None}]
         /\ UsedHaveSource'
<1>1. /\ indexer \in [Indexers -> Indexer]
      /\ active_indexers \in [Sources -> Indexers \cup {None}]
  BY DEF TypeInv, TypeOK
<1>2. PICK i \in Indexers : /\ indexer'[i] = [pc |-> "starting", source |-> s]
                            /\ \A j \in Indexers \ {i} : indexer'[j] = indexer[j]
  BY <1>1, SpawnFacts
<1>3. UsedHaveSource'
  BY <1>2 DEF TypeInv, UsedHaveSource
<1>4. QED
  BY <1>1, <1>3, SpawnFacts

LEMMA HandlersTyped ==
  ASSUME TypeInv, Handler
  PROVE  TypeInv'
<1> USE DEF TypeInv, rowVars, tickVars, schedulerVars, historyVars
<1>1. CASE StartScheduler
  <2>1. mailbox' \in Seq(Message)
    BY <1>1, ReceiveFacts DEF StartScheduler, TypeOK
  <2>2. tickers' \in Nat /\ running' \in BOOLEAN
    BY <1>1 DEF StartScheduler, TypeOK
  <2>3. QED
    BY <1>1, <2>1, <2>2 DEF StartScheduler, TypeOK, UsedHaveSource
<1>2. CASE CheckSources
  <2>1. mailbox' \in Seq(Message)
    BY <1>2, ReceiveFacts DEF CheckSources, TypeOK
  <2>2. budget' \in [BudgetKeys -> Nat]
    BY <1>2, SpendFacts DEF CheckSources, TypeOK, BudgetKeys
  <2>3. tick' \in Phase /\ listed' \subseteq Sources /\ listed_order' \subseteq Sources \X Sources
    BY <1>2 DEF CheckSources, SkipToSweep, TypeOK, Phase
  <2>4. QED
    BY <1>2, <2>1, <2>2, <2>3 DEF CheckSources, TypeOK, UsedHaveSource
<1>3. ASSUME NEW s \in Sources, VisitSource(s) PROVE TypeInv'
  <2>1. listed' \subseteq Sources /\ listed_order' \subseteq Sources \X Sources
    BY <1>3 DEF VisitSource, Left, TypeOK
  <2>2. spawned_this_tick' \in Nat
    BY <1>3 DEF VisitSource, TypeOK
  <2>3. UNCHANGED <<rowVars, mailbox, tick, up, running, last_indexed, tickers, sweeps, refusing,
                    historyVars>>
    BY <1>3 DEF VisitSource
  <2>4. CASE SpawnIndexer(s) /\ UNCHANGED budget
    BY <2>1, <2>2, <2>3, <2>4, SpawnTyped DEF TypeOK
  <2>5. CASE UNCHANGED <<active_indexers, indexer>> /\ (UNCHANGED budget \/ Spend("faults"))
    <3>1. budget' \in [BudgetKeys -> Nat]
      BY <2>5, SpendFacts DEF TypeOK, BudgetKeys
    <3>2. QED
      BY <2>1, <2>2, <2>3, <2>5, <3>1 DEF TypeOK, UsedHaveSource
  <2>6. QED
    BY <1>3, <2>4, <2>5 DEF VisitSource
<1>4. CASE EndOfList
  BY <1>4 DEF EndOfList, TypeOK, Phase, UsedHaveSource
<1>5. CASE TellProcessPendingDownloads
  <2>1. sweeps' \in 0 .. SweepCap
    BY <1>5, SchedulerAssumption DEF TellProcessPendingDownloads, RoomForSweep, TypeOK
  <2>2. QED
    BY <1>5, <2>1 DEF TellProcessPendingDownloads, TypeOK, Phase, UsedHaveSource
<1>6. CASE IndexSource
  <2> DEFINE s == Head(mailbox).source
  <2>1. mailbox' \in Seq(Message) /\ s \in Sources
    BY <1>6, ReceiveFacts, MessageFacts DEF IndexSource, TypeOK
  <2> HIDE DEF s
  <2>2. index_error_count' \in [Sources -> Nat] /\ streak' \in [Sources -> Nat]
    <3>1. \/ UNCHANGED <<index_error_count, streak>>
          \/ /\ index_error_count' = [index_error_count EXCEPT ![s] = 0]
             /\ streak' = [streak EXCEPT ![s] = 0]
      BY <1>6 DEF IndexSource, s
    <3>2. index_error_count \in [Sources -> Nat] /\ streak \in [Sources -> Nat]
      BY DEF TypeOK
    <3>3. QED
      BY <2>1, <3>1, <3>2
  <2>3. UNCHANGED <<enabled, due, older, tickVars, up, running, last_indexed, tickers, sweeps,
                    refusing, rested>>
    BY <1>6 DEF IndexSource
  <2>4. CASE SpawnIndexer(s) /\ UNCHANGED budget
    BY <2>1, <2>2, <2>3, <2>4, SpawnTyped DEF TypeOK
  <2>5. CASE UNCHANGED <<active_indexers, indexer>> /\ (UNCHANGED budget \/ Spend("faults"))
    <3>1. budget' \in [BudgetKeys -> Nat]
      BY <2>5, SpendFacts DEF TypeOK, BudgetKeys
    <3>2. QED
      BY <2>1, <2>2, <2>3, <2>5, <3>1 DEF TypeOK, UsedHaveSource
  <2>6. QED
    BY <1>6, <2>4, <2>5 DEF IndexSource, s
<1>7. CASE IndexingCompleted
  <2>1. mailbox' \in Seq(Message) /\ Head(mailbox).source \in Sources
    BY <1>7, ReceiveFacts, MessageFacts DEF IndexingCompleted, TypeOK
  <2>2. /\ active_indexers' \in [Sources -> Indexers \cup {None}]
        /\ last_indexed' \in [Sources -> {"never", "recent", "past"}]
    BY <1>7, <2>1 DEF IndexingCompleted, ForgetIndexer, TypeOK
  <2>3. QED
    BY <1>7, <2>1, <2>2 DEF IndexingCompleted, TypeOK, UsedHaveSource
<1>8. QED
  BY <1>1, <1>2, <1>3, <1>4, <1>5, <1>6, <1>7 DEF Handler

LEMMA IndexersTyped ==
  ASSUME TypeInv, NEW i \in Indexers, IndexerStep(i)
  PROVE  TypeInv'
<1> USE DEF TypeInv, rowVars, tickVars, schedulerVars, historyVars
<1> DEFINE s == indexer[i].source
<1>1. CASE StartIndexing(i)
  <2>1. indexer' \in [Indexers -> Indexer] /\ UsedHaveSource'
    BY <1>1, MoveFacts DEF StartIndexing, TypeOK, UsedHaveSource, PC
  <2>2. QED
    BY <1>1, <2>1 DEF StartIndexing, TypeOK
<1>2. CASE ExecuteIndexing(i)
  <2>1. s \in Sources
    BY <1>2 DEF ExecuteIndexing, UsedHaveSource
  <2> HIDE DEF s
  <2>2. indexer' \in [Indexers -> Indexer] /\ UsedHaveSource'
    BY <1>2, MoveFacts DEF ExecuteIndexing, TypeOK, UsedHaveSource, PC
  <2>3. budget' \in [BudgetKeys -> Nat]
    BY <1>2, SpendFacts DEF ExecuteIndexing, TypeOK, BudgetKeys
  <2>4. index_error_count' \in [Sources -> Nat]
    BY <1>2, <2>1 DEF ExecuteIndexing, RecordIndexingError, TypeOK, s
  <2>5. streak' \in [Sources -> Nat]
    BY <1>2, <2>1 DEF ExecuteIndexing, OneMore, TypeOK, s
  <2>6. rested' \subseteq Sources
    BY <1>2 DEF ExecuteIndexing, TypeOK
  <2>7. UNCHANGED <<enabled, due, older, mailbox, tickVars, schedulerVars, tickers, sweeps,
                    refusing>>
    BY <1>2 DEF ExecuteIndexing
  <2>8. QED
    BY <2>2, <2>3, <2>4, <2>5, <2>6, <2>7 DEF TypeOK
<1>3. CASE UpdateLastIndexed(i)
  <2>1. s \in Sources
    BY <1>3 DEF UpdateLastIndexed, UsedHaveSource
  <2> HIDE DEF s
  <2>2. indexer' \in [Indexers -> Indexer] /\ UsedHaveSource'
    BY <1>3, MoveFacts DEF UpdateLastIndexed, TypeOK, UsedHaveSource, PC
  <2>3. budget' \in [BudgetKeys -> Nat]
    BY <1>3, SpendFacts DEF UpdateLastIndexed, TypeOK, BudgetKeys
  <2>4. index_error_count' \in [Sources -> Nat]
    <3>1. \/ index_error_count' = index_error_count
          \/ index_error_count' = [index_error_count EXCEPT ![s] = 0]
      BY <1>3 DEF UpdateLastIndexed, ClearErrorState, s
    <3>2. index_error_count \in [Sources -> Nat]
      BY DEF TypeOK
    <3>3. QED
      BY <2>1, <3>1, <3>2
  <2>5. due' \subseteq Sources /\ older' \subseteq Sources \X Sources /\ rested' \subseteq Sources
    BY <1>3, <2>1 DEF UpdateLastIndexed, MoveToEnd, TypeOK, s
  <2>6. UNCHANGED <<enabled, mailbox, tickVars, schedulerVars, tickers, sweeps, refusing, streak>>
    BY <1>3 DEF UpdateLastIndexed
  <2>7. QED
    BY <2>2, <2>3, <2>4, <2>5, <2>6 DEF TypeOK
<1>4. CASE TellIndexingCompleted(i)
  <2>1. mailbox' \in Seq(Message)
    BY <1>4, TellFacts, MessageFacts DEF TellIndexingCompleted, Completed, TypeOK, UsedHaveSource
  <2>2. indexer' \in [Indexers -> Indexer] /\ UsedHaveSource'
    BY <1>4 DEF TellIndexingCompleted, UnusedIndexer, Indexer, PC, TypeOK, UsedHaveSource
  <2>3. QED
    BY <1>4, <2>1, <2>2 DEF TellIndexingCompleted, TypeOK
<1>5. QED
  BY <1>1, <1>2, <1>3, <1>4 DEF IndexerStep

LEMMA EnvironmentTyped ==
  ASSUME TypeInv, Environment
  PROVE  TypeInv'
<1> USE DEF TypeInv, rowVars, tickVars, schedulerVars, historyVars
<1>1. CASE TickerFires
  <2>1. mailbox' \in Seq(Message)
    BY <1>1, TellFacts, MessageFacts DEF TickerFires, TypeOK
  <2>2. QED
    BY <1>1, <2>1 DEF TickerFires, TypeOK, UsedHaveSource
<1>2. CASE SupervisorTakesSweep
  <2>1. sweeps' \in 0 .. SweepCap
    BY <1>2, SchedulerAssumption DEF SupervisorTakesSweep, TypeOK
  <2>2. QED
    BY <1>2, <2>1 DEF SupervisorTakesSweep, TypeOK, UsedHaveSource
<1>3. CASE AskIndexSource
  <2>1. mailbox' \in Seq(Message)
    BY <1>3, TellFacts, MessageFacts DEF AskIndexSource, TypeOK
  <2>2. budget' \in [BudgetKeys -> Nat]
    BY <1>3, SpendFacts DEF AskIndexSource, TypeOK, BudgetKeys
  <2>3. QED
    BY <1>3, <2>1, <2>2 DEF AskIndexSource, TypeOK, UsedHaveSource
<1>4. CASE SetSourceEnabled
  <2>1. budget' \in [BudgetKeys -> Nat]
    BY <1>4, SpendFacts DEF SetSourceEnabled, TypeOK, BudgetKeys
  <2>2. QED
    BY <1>4, <2>1 DEF SetSourceEnabled, TypeOK, UsedHaveSource
<1>5. CASE TogglePause
  <2>1. budget' \in [BudgetKeys -> Nat]
    BY <1>5, SpendFacts DEF TogglePause, TypeOK, BudgetKeys
  <2>2. QED
    BY <1>5, <2>1 DEF TogglePause, TypeOK, UsedHaveSource
<1>6. CASE RestartScheduler
  <2>1. mailbox' \in Seq(Message) /\ up' \in BOOLEAN
    BY <1>6, TellFacts, MessageFacts DEF RestartScheduler, TellStart, Start, TypeOK
  <2>2. budget' \in [BudgetKeys -> Nat]
    BY <1>6, SpendFacts DEF RestartScheduler, TypeOK, BudgetKeys
  <2>3. indexer' \in [Indexers -> Indexer] /\ UsedHaveSource'
    <3>1. PICK stopped \in SUBSET {i \in Indexers : indexer[i].pc = "starting"} :
            indexer' = [i \in Indexers |-> IF i \in stopped THEN [indexer[i] EXCEPT !.pc = "ended"]
                                           ELSE indexer[i]]
      BY <1>6 DEF RestartScheduler
    <3>2. ASSUME NEW i \in Indexers
          PROVE  /\ indexer'[i] \in Indexer
                 /\ indexer'[i].pc # "unused" => indexer'[i].source \in Sources
      BY <3>1 DEF Indexer, PC, TypeOK, UsedHaveSource
    <3>3. QED
      BY <3>1, <3>2 DEF UsedHaveSource
  <2>4. listed' \subseteq Sources /\ listed_order' \subseteq Sources \X Sources
    BY <1>6 DEF RestartScheduler, Left, TypeOK
  <2>5. QED
    BY <1>6, <2>1, <2>2, <2>3, <2>4 DEF RestartScheduler, TypeOK, Phase
<1>7. ASSUME NEW s \in Sources, FrequencyElapses(s) PROVE TypeInv'
  BY <1>7 DEF FrequencyElapses, TypeOK, UsedHaveSource
<1>8. ASSUME NEW s \in Sources, FloorElapses(s) PROVE TypeInv'
  BY <1>8 DEF FloorElapses, TypeOK, UsedHaveSource
<1>9. CASE Boot
  <2>1. mailbox' \in Seq(Message)
    BY <1>9, MessageFacts DEF Boot, Start
  <2>2. listed' \subseteq Sources /\ listed_order' \subseteq Sources \X Sources
    BY <1>9 DEF Boot, Left, TypeOK
  <2>3. indexer' \in [Indexers -> Indexer] /\ UsedHaveSource'
    BY <1>9 DEF Boot, UnusedIndexer, Indexer, PC, UsedHaveSource
  <2>4. sweeps' \in 0 .. SweepCap
    BY <1>9, SchedulerAssumption DEF Boot
  <2>5. QED
    BY <1>9, <2>1, <2>2, <2>3, <2>4 DEF Boot, TypeOK, Phase
<1>10. QED
  BY <1>1, <1>2, <1>3, <1>4, <1>5, <1>6, <1>7, <1>8, <1>9 DEF Environment

LEMMA TypeInvNext == TypeInv /\ [Next]_vars => TypeInv'
<1>1. CASE UNCHANGED vars
  BY <1>1 DEF TypeInv, TypeOK, UsedHaveSource, vars, rowVars, tickVars, schedulerVars, historyVars
<1>2. QED
  BY <1>1, HandlersTyped, IndexersTyped, EnvironmentTyped DEF Next

LEMMA TypeInvHolds == Spec => []TypeInv
BY TypeInvInit, TypeInvNext, PTL DEF Spec

\* Every variable of the scheduler has its type whatever the constants are; in
\* particular no more sweeps wait than the DownloadSupervisor has room for.
THEOREM SchedulerTyped == Spec => []TypeOK
<1>1. TypeInv => TypeOK
  BY DEF TypeInv
<1>2. QED
  BY TypeInvHolds, <1>1, PTL

(***************************************************************************)
(* Registrations.  As far as they are concerned the system has six kinds   *)
(* of steps, which the classification below makes explicit: what follows   *)
(* is proved of the kinds and not of the actions.                          *)
(***************************************************************************)

\* Indexer i, or its waiter, is there for s.
Serves(i, s) == indexer[i].pc # "unused" /\ indexer[i].source = s

\* Where the mailbox says that the indexer of s has ended.
Announced(s) == {n \in DOMAIN mailbox : mailbox[n] = Completed(s)}

SameIndexers == \A i \in Indexers, s \in Sources : Serves(i, s)' <=> Serves(i, s)

\* The announcements stay, or move one place forward behind another message.
Moved(d) ==
  \A s \in Sources : /\ d = 1 => 1 \notin Announced(s)
                     /\ \A n \in Nat \ {0} : n \in Announced(s)' <=> n + d \in Announced(s)

KeptMailbox == Moved(0) \/ Moved(1)

Untouched == UNCHANGED active_indexers /\ SameIndexers /\ KeptMailbox

Spawned(s, i) ==
  /\ active_indexers[s] = None
  /\ indexer[i].pc = "unused"
  /\ active_indexers' = [active_indexers EXCEPT ![s] = i]
  /\ \A j \in Indexers, r \in Sources : Serves(j, r)' <=> Serves(j, r) \/ (j = i /\ r = s)
  /\ KeptMailbox

Ended(i, s) ==
  /\ Serves(i, s)
  /\ UNCHANGED active_indexers
  /\ \A j \in Indexers, r \in Sources : Serves(j, r)' <=> Serves(j, r) /\ j # i
  /\ \E n \in Nat \ {0} : Announced(s)' = Announced(s) \cup {n}
  /\ \A r \in Sources \ {s} : Announced(r)' = Announced(r)

Forgot(s) ==
  /\ 1 \in Announced(s)
  /\ active_indexers' = [active_indexers EXCEPT ![s] = None]
  /\ SameIndexers
  /\ \A r \in Sources : /\ r # s => 1 \notin Announced(r)
                        /\ \A n \in Nat \ {0} : n \in Announced(r)' <=> n + 1 \in Announced(r)

ForgotAll ==
  /\ budget["restarts"] > 0
  /\ active_indexers' = [s \in Sources |-> None]
  /\ SameIndexers
  /\ KeptMailbox

StartedAfresh ==
  /\ ~up
  /\ active_indexers' = [s \in Sources |-> None]

RegistrationStep ==
  \/ Untouched
  \/ \E s \in Sources : Forgot(s) \/ \E i \in Indexers : Spawned(s, i) \/ Ended(i, s)
  \/ ForgotAll \/ StartedAfresh

LEMMA MailboxKept == ASSUME UNCHANGED mailbox PROVE Moved(0)
BY DEF Moved, Announced

LEMMA OtherTold ==
  ASSUME mailbox \in Seq(Message), NEW m \in Message, Tell(m), m.kind # "IndexingCompleted"
  PROVE  Moved(0)
BY TellFacts DEF Moved, Announced, Completed

LEMMA OtherReceived ==
  ASSUME mailbox \in Seq(Message), NEW kind, Receive(kind), kind # "IndexingCompleted"
  PROVE  Moved(1)
BY ReceiveFacts DEF Moved, Announced, Completed

LEMMA CompletionTold ==
  ASSUME mailbox \in Seq(Message), NEW s \in Sources, Tell(Completed(s))
  PROVE  /\ \E n \in Nat \ {0} : Announced(s)' = Announced(s) \cup {n}
         /\ \A r \in Sources \ {s} : Announced(r)' = Announced(r)
<1> DEFINE n == Len(mailbox) + 1
<1>1. Completed(s) \in Message
  BY MessageFacts
<1>2. /\ n \in Nat \ {0} /\ DOMAIN mailbox' = DOMAIN mailbox \cup {n} /\ n \notin DOMAIN mailbox
      /\ \A k \in DOMAIN mailbox : mailbox'[k] = mailbox[k]
      /\ mailbox'[n] = Completed(s)
  <2>1. /\ Len(mailbox) \in Nat /\ DOMAIN mailbox = 1 .. Len(mailbox)
        /\ DOMAIN mailbox' = 1 .. Len(mailbox) + 1
        /\ \A k \in DOMAIN mailbox : mailbox'[k] = mailbox[k]
        /\ mailbox'[n] = Completed(s)
    BY <1>1, TellFacts
  <2>2. n \in Nat \ {0} /\ n \notin DOMAIN mailbox /\ DOMAIN mailbox' = DOMAIN mailbox \cup {n}
    BY <2>1
  <2>3. QED
    BY <2>1, <2>2
<1> HIDE DEF n
<1>3. Announced(s)' = Announced(s) \cup {n}
  BY <1>2 DEF Announced
<1>4. \A r \in Sources \ {s} : Announced(r)' = Announced(r)
  BY <1>2 DEF Announced, Completed
<1>5. QED
  BY <1>2, <1>3, <1>4

LEMMA CompletionReceived ==
  ASSUME mailbox \in Seq(Message), Receive("IndexingCompleted")
  PROVE  /\ Head(mailbox).source \in Sources
         /\ 1 \in Announced(Head(mailbox).source)
         /\ \A r \in Sources :
               /\ r # Head(mailbox).source => 1 \notin Announced(r)
               /\ \A n \in Nat \ {0} : n \in Announced(r)' <=> n + 1 \in Announced(r)
<1>1. PICK s \in Sources : Head(mailbox) = Completed(s) /\ s = Head(mailbox).source
  BY ReceiveFacts, MessageFacts
<1>2. mailbox[1] = Completed(s) /\ 1 \in DOMAIN mailbox
  BY <1>1, ReceiveFacts
<1>3. 1 \in Announced(s) /\ \A r \in Sources : r # s => 1 \notin Announced(r)
  BY <1>2 DEF Announced, Completed
<1>4. \A r \in Sources, n \in Nat \ {0} : n \in Announced(r)' <=> n + 1 \in Announced(r)
  BY ReceiveFacts DEF Announced
<1>5. QED
  BY <1>1, <1>3, <1>4

LEMMA MoveKeeps ==
  ASSUME TypeInv, NEW i \in Indexers, NEW pc \in PC \ {"unused"}, Move(i, pc),
         indexer[i].pc # "unused"
  PROVE  SameIndexers
BY MoveFacts DEF TypeInv, TypeOK, SameIndexers, Serves

LEMMA SpawnIsSpawned ==
  ASSUME TypeInv, NEW s \in Sources, active_indexers[s] = None, SpawnIndexer(s), KeptMailbox
  PROVE  \E i \in Indexers : Spawned(s, i)
<1>1. PICK i \in Indexers :
        /\ indexer[i].pc = "unused"
        /\ indexer' = [indexer EXCEPT ![i] = [pc |-> "starting", source |-> s]]
        /\ active_indexers' = [active_indexers EXCEPT ![s] = i]
  BY DEF SpawnIndexer
<1>2. \A j \in Indexers, r \in Sources : Serves(j, r)' <=> Serves(j, r) \/ (j = i /\ r = s)
  BY <1>1 DEF Serves, TypeInv, TypeOK
<1>3. QED
  BY <1>1, <1>2 DEF Spawned

LEMMA StepIsRegistrationStep == TypeInv /\ [Next]_vars => RegistrationStep
<1> SUFFICES ASSUME TypeInv, [Next]_vars PROVE RegistrationStep
  OBVIOUS
<1> USE DEF rowVars, tickVars, schedulerVars, historyVars
<1>0. mailbox \in Seq(Message)
  BY DEF TypeInv, TypeOK
<1>1. CASE /\ UNCHANGED <<active_indexers, indexer>>
           /\ \/ UNCHANGED mailbox
              \/ \E m \in Message : Tell(m) /\ m.kind # "IndexingCompleted"
              \/ \E kind : Receive(kind) /\ kind # "IndexingCompleted"
  <2>1. SameIndexers
    BY <1>1 DEF SameIndexers, Serves
  <2>2. KeptMailbox
    BY <1>0, <1>1, MailboxKept, OtherTold, OtherReceived DEF KeptMailbox
  <2>3. QED
    BY <1>1, <2>1, <2>2 DEF RegistrationStep, Untouched
<1>2. CASE \/ StartScheduler \/ CheckSources \/ EndOfList \/ TellProcessPendingDownloads
           \/ SupervisorTakesSweep \/ SetSourceEnabled \/ TogglePause \/ UNCHANGED vars
           \/ \E s \in Sources : FrequencyElapses(s) \/ FloorElapses(s)
  BY <1>1, <1>2 DEF StartScheduler, CheckSources, EndOfList, TellProcessPendingDownloads,
     SupervisorTakesSweep, SetSourceEnabled, TogglePause, FrequencyElapses, FloorElapses, vars
<1>3. CASE TickerFires
  BY <1>1, <1>3, MessageFacts DEF TickerFires
<1>4. CASE AskIndexSource
  BY <1>1, <1>4, MessageFacts DEF AskIndexSource
<1>5. ASSUME NEW s \in Sources, VisitSource(s) PROVE RegistrationStep
  <2>1. CASE UNCHANGED <<active_indexers, indexer>>
    BY <1>1, <1>5, <2>1 DEF VisitSource
  <2>2. CASE ~Skipped(s) /\ SpawnIndexer(s)
    BY <1>5, <2>2, MailboxKept, SpawnIsSpawned DEF VisitSource, Skipped, KeptMailbox,
       RegistrationStep
  <2>3. QED
    BY <1>5, <2>1, <2>2 DEF VisitSource
<1>6. CASE IndexSource
  <2>1. PICK s \in Sources : s = Head(mailbox).source
    BY <1>0, <1>6, ReceiveFacts, MessageFacts DEF IndexSource
  <2>2. KeptMailbox
    BY <1>0, <1>6, OtherReceived DEF IndexSource, KeptMailbox
  <2>3. CASE UNCHANGED <<active_indexers, indexer>>
    BY <1>1, <1>6, <2>3 DEF IndexSource
  <2>4. CASE active_indexers[s] = None /\ SpawnIndexer(s)
    BY <2>2, <2>4, SpawnIsSpawned DEF RegistrationStep
  <2>5. QED
    BY <1>6, <2>1, <2>3, <2>4 DEF IndexSource
<1>7. CASE IndexingCompleted
  <2>1. SameIndexers
    BY <1>7 DEF IndexingCompleted, SameIndexers, Serves
  <2>2. PICK s \in Sources : s = Head(mailbox).source
    BY <1>0, <1>7, CompletionReceived DEF IndexingCompleted
  <2>3. Forgot(s)
    BY <1>0, <1>7, <2>1, <2>2, CompletionReceived DEF IndexingCompleted, ForgetIndexer, Forgot
  <2>4. QED
    BY <2>3 DEF RegistrationStep
<1>8. ASSUME NEW i \in Indexers,
             StartIndexing(i) \/ ExecuteIndexing(i) \/ UpdateLastIndexed(i)
      PROVE  RegistrationStep
  <2>1. /\ UNCHANGED <<active_indexers, mailbox>> /\ indexer[i].pc # "unused"
        /\ Move(i, "indexing") \/ Move(i, "closing") \/ Move(i, "ended")
    BY <1>8 DEF StartIndexing, ExecuteIndexing, UpdateLastIndexed
  <2>2. SameIndexers
    BY <2>1, MoveKeeps DEF PC
  <2>3. QED
    BY <2>1, <2>2, MailboxKept DEF RegistrationStep, Untouched, KeptMailbox
<1>9. ASSUME NEW i \in Indexers, TellIndexingCompleted(i) PROVE RegistrationStep
  <2>1. PICK s \in Sources : s = indexer[i].source /\ Serves(i, s)
    BY <1>9 DEF TellIndexingCompleted, Serves, TypeInv, UsedHaveSource
  <2>2. indexer' = [indexer EXCEPT ![i] = UnusedIndexer] /\ UNCHANGED active_indexers
    BY <1>9 DEF TellIndexingCompleted
  <2>3. \A j \in Indexers, r \in Sources : Serves(j, r)' <=> Serves(j, r) /\ j # i
    BY <2>2 DEF Serves, UnusedIndexer, TypeInv, TypeOK
  <2>4. Tell(Completed(s))
    BY <1>9, <2>1 DEF TellIndexingCompleted, Completed
  <2>5. /\ \E n \in Nat \ {0} : Announced(s)' = Announced(s) \cup {n}
        /\ \A r \in Sources \ {s} : Announced(r)' = Announced(r)
    BY <1>0, <2>1, <2>4, CompletionTold
  <2>6. Ended(i, s)
    BY <2>1, <2>2, <2>3, <2>5 DEF Ended
  <2>7. QED
    BY <2>1, <2>6 DEF RegistrationStep
<1>10. CASE RestartScheduler
  <2>1. /\ Tell(Start) \/ UNCHANGED mailbox
        /\ budget["restarts"] > 0
        /\ active_indexers' = [s \in Sources |-> None]
    BY <1>10 DEF RestartScheduler, TellStart, Spend
  <2>2. PICK stopped \in SUBSET {i \in Indexers : indexer[i].pc = "starting"} :
          indexer' = [i \in Indexers |-> IF i \in stopped THEN [indexer[i] EXCEPT !.pc = "ended"]
                                         ELSE indexer[i]]
    BY <1>10 DEF RestartScheduler
  <2>3. ASSUME NEW i \in Indexers
        PROVE  /\ indexer'[i].source = indexer[i].source
               /\ indexer'[i].pc # "unused" <=> indexer[i].pc # "unused"
    BY <2>2 DEF TypeInv, TypeOK, Indexer
  <2>4. SameIndexers
    BY <2>3 DEF SameIndexers, Serves
  <2>5. KeptMailbox
    BY <1>0, <2>1, MailboxKept, OtherTold, MessageFacts DEF KeptMailbox, Start
  <2>6. QED
    BY <2>1, <2>4, <2>5 DEF RegistrationStep, ForgotAll
<1>11. CASE Boot
  BY <1>11 DEF Boot, RegistrationStep, StartedAfresh
<1>12. QED
  BY <1>2, <1>3, <1>4, <1>5, <1>6, <1>7, <1>8, <1>9, <1>10, <1>11
     DEF Next, Handler, Environment, IndexerStep

LEMMA AnnouncedFacts ==
  ASSUME TypeInv
  PROVE  \A s \in Sources : Announced(s) \subseteq Nat \ {0}
<1>1. DOMAIN mailbox \subseteq Nat \ {0}
  BY LenProperties DEF TypeInv, TypeOK
<1>2. QED
  BY <1>1 DEF Announced

\* An announcement that is not read yet is still one after the step.
LEMMA StillAnnounced ==
  ASSUME TypeInv, KeptMailbox, NEW s \in Sources, Announced(s) # {}
  PROVE  Announced(s)' # {}
<1>1. PICK n \in Nat \ {0} : n \in Announced(s)
  BY AnnouncedFacts
<1>2. CASE Moved(0)
  <2>1. n + 0 = n
    BY <1>1
  <2>2. n \in Announced(s)'
    BY <1>1, <1>2, <2>1 DEF Moved
  <2>3. QED
    BY <2>2
<1>3. CASE Moved(1)
  <2>1. n # 1
    BY <1>1, <1>3 DEF Moved
  <2>2. n - 1 \in Nat \ {0} /\ (n - 1) + 1 = n
    BY <1>1, <2>1
  <2>3. n - 1 \in Announced(s)'
    BY <1>1, <1>3, <2>2 DEF Moved
  <2>4. QED
    BY <2>3
<1>4. QED
  BY <1>2, <1>3 DEF KeptMailbox

LEMMA NothingAnnounced ==
  ASSUME TypeInv, TypeInv', KeptMailbox, NEW s \in Sources, Announced(s) = {}
  PROVE  Announced(s)' = {}
<1>1. Announced(s)' \subseteq Nat \ {0}
  BY LenProperties DEF TypeInv, TypeOK, Announced
<1>2. SUFFICES ASSUME NEW n \in Announced(s)' PROVE FALSE
  OBVIOUS
<1>3. n \in Nat \ {0}
  BY <1>1
<1>4. n + 0 \in Announced(s) \/ n + 1 \in Announced(s)
  BY <1>2, <1>3 DEF KeptMailbox, Moved
<1>5. QED
  BY <1>4

\* An end is announced at most once, and stays so.
LEMMA AnnouncedOnce ==
  ASSUME TypeInv', KeptMailbox, NEW s \in Sources, \A m, n \in Announced(s) : m = n
  PROVE  \A m, n \in Announced(s)' : m = n
<1>1. Announced(s)' \subseteq Nat \ {0}
  BY LenProperties DEF TypeInv, TypeOK, Announced
<1>2. QED
  BY <1>1 DEF KeptMailbox, Moved

(***************************************************************************)
(* No registration leaks: the invariant is inductive as it stands.         *)
(***************************************************************************)

OrphanInv == TypeInv /\ NoOrphanedRegistration

LEMMA OrphansAreUnserved ==
  /\ NoOrphanedRegistration <=>
       \A s \in Sources : active_indexers[s] # None =>
          (\E i \in Indexers : Serves(i, s)) \/ Announced(s) # {}
  /\ NoOrphanedRegistration' <=>
       \A s \in Sources : active_indexers'[s] # None =>
          (\E i \in Indexers : Serves(i, s)') \/ Announced(s)' # {}
<1>1. \A s \in Sources : Announced(s) # {} <=>
        \E n \in DOMAIN mailbox : mailbox[n] = [kind |-> "IndexingCompleted", source |-> s]
  BY DEF Announced, Completed
<1>2. \A s \in Sources : Announced(s)' # {} <=>
        \E n \in DOMAIN mailbox' : mailbox'[n] = [kind |-> "IndexingCompleted", source |-> s]
  BY DEF Announced, Completed
<1>3. QED
  BY <1>1, <1>2 DEF NoOrphanedRegistration, Serves

LEMMA OrphanInvNext == OrphanInv /\ [Next]_vars => OrphanInv'
<1> SUFFICES ASSUME OrphanInv, [Next]_vars PROVE OrphanInv'
  OBVIOUS
<1>1. TypeInv /\ TypeInv' /\ RegistrationStep
  BY TypeInvNext, StepIsRegistrationStep DEF OrphanInv
<1>2. \A s \in Sources : active_indexers[s] # None =>
        (\E i \in Indexers : Serves(i, s)) \/ Announced(s) # {}
  BY OrphansAreUnserved DEF OrphanInv
<1>3. SUFFICES ASSUME NEW s \in Sources, active_indexers'[s] # None
               PROVE  (\E i \in Indexers : Serves(i, s)') \/ Announced(s)' # {}
  BY <1>1, OrphansAreUnserved DEF OrphanInv
<1>4. active_indexers \in [Sources -> Indexers \cup {None}]
  BY <1>1 DEF TypeInv, TypeOK
<1>5. CASE Untouched
  BY <1>1, <1>2, <1>3, <1>5, StillAnnounced DEF Untouched, SameIndexers
<1>6. ASSUME NEW r \in Sources, NEW i \in Indexers, Spawned(r, i)
      PROVE  (\E j \in Indexers : Serves(j, s)') \/ Announced(s)' # {}
  <2>1. CASE s = r
    BY <1>6, <2>1 DEF Spawned
  <2>2. CASE s # r
    <3>1. active_indexers[s] # None
      BY <1>3, <1>4, <1>6, <2>2 DEF Spawned
    <3>2. QED
      BY <1>1, <1>2, <1>6, <3>1, StillAnnounced DEF Spawned
  <2>3. QED
    BY <2>1, <2>2
<1>7. ASSUME NEW r \in Sources, NEW i \in Indexers, Ended(i, r)
      PROVE  (\E j \in Indexers : Serves(j, s)') \/ Announced(s)' # {}
  <2>1. CASE s = r
    BY <1>7, <2>1 DEF Ended
  <2>2. CASE s # r
    <3>1. active_indexers[s] # None /\ Announced(s)' = Announced(s)
      BY <1>3, <1>7, <2>2 DEF Ended
    <3>2. \A j \in Indexers : Serves(j, s) => Serves(j, s)'
      BY <1>7, <2>2 DEF Ended, Serves
    <3>3. QED
      BY <1>2, <3>1, <3>2
  <2>3. QED
    BY <2>1, <2>2
<1>8. ASSUME NEW r \in Sources, Forgot(r)
      PROVE  (\E j \in Indexers : Serves(j, s)') \/ Announced(s)' # {}
  <2>1. s # r /\ active_indexers[s] # None
    BY <1>3, <1>4, <1>8 DEF Forgot
  <2>2. CASE \E j \in Indexers : Serves(j, s)
    BY <1>8, <2>2 DEF Forgot, SameIndexers
  <2>3. CASE Announced(s) # {}
    <3>1. PICK n \in Nat \ {0} : n \in Announced(s) /\ n # 1
      BY <1>1, <1>8, <2>1, <2>3, AnnouncedFacts DEF Forgot
    <3>2. n - 1 \in Nat \ {0} /\ (n - 1) + 1 = n
      BY <3>1
    <3>3. n - 1 \in Announced(s)'
      BY <1>8, <3>1, <3>2 DEF Forgot
    <3>4. QED
      BY <3>3
  <2>4. QED
    BY <1>2, <2>1, <2>2, <2>3
<1>9. CASE ForgotAll \/ StartedAfresh
  BY <1>3, <1>9 DEF ForgotAll, StartedAfresh
<1>10. QED
  BY <1>1, <1>5, <1>6, <1>7, <1>8, <1>9 DEF RegistrationStep

\* No registration leaks, not even over restarts of the scheduler: a source
\* that ticks and operators must leave alone has an indexer that is running or
\* an end that is about to be told.
THEOREM NoOrphan == Spec => []NoOrphanedRegistration
<1>1. Init => OrphanInv
  BY TypeInvInit DEF Init, OrphanInv, NoOrphanedRegistration
<1>2. OrphanInv => NoOrphanedRegistration
  BY DEF OrphanInv
<1>3. QED
  BY <1>1, <1>2, OrphanInvNext, PTL DEF Spec

(***************************************************************************)
(* One indexer per source, as long as the scheduler is not restarted: a     *)
(* new instance knows nothing of the indexers of the old one.               *)
(***************************************************************************)

\* The registration of s is that of its only indexer or of its only
\* announcement, of which there is never one while the indexer is there.
Exclusive(s) ==
  /\ \A i \in Indexers : Serves(i, s) => active_indexers[s] = i
  /\ Announced(s) # {} => active_indexers[s] # None /\ \A i \in Indexers : ~Serves(i, s)
  /\ \A m, n \in Announced(s) : m = n

ExclusiveInv ==
  /\ TypeInv
  /\ up /\ budget["restarts"] = 0
  /\ \A s \in Sources : Exclusive(s)

LEMMA ExclusiveInvInit == Init /\ Budget["restarts"] = 0 => ExclusiveInv
<1> SUFFICES ASSUME Init, Budget["restarts"] = 0 PROVE ExclusiveInv
  OBVIOUS
<1>1. TypeInv /\ up /\ budget["restarts"] = 0
  BY TypeInvInit DEF Init
<1>2. \A i \in Indexers, s \in Sources : ~Serves(i, s)
  BY DEF Init, Serves, UnusedIndexer
<1>3. \A s \in Sources : Announced(s) = {}
  BY DEF Init, Start, Announced, Completed
<1>4. QED
  BY <1>1, <1>2, <1>3 DEF ExclusiveInv, Exclusive

\* What is used up stays used up.
LEMMA SpentStaysSpent ==
  ASSUME TypeInv, [Next]_vars, NEW key \in BudgetKeys, budget[key] = 0
  PROVE  budget'[key] = 0
<1>1. budget \in [BudgetKeys -> Nat]
  BY DEF TypeInv, TypeOK
<1>2. \/ budget' = budget
      \/ \E other \in BudgetKeys : Spend(other)
  BY DEF BudgetKeys, Next, Handler, Environment, IndexerStep, StartScheduler, CheckSources,
     VisitSource, EndOfList, TellProcessPendingDownloads, IndexSource, IndexingCompleted,
     StartIndexing, ExecuteIndexing, UpdateLastIndexed, TellIndexingCompleted, TickerFires,
     SupervisorTakesSweep, FrequencyElapses, FloorElapses, AskIndexSource, SetSourceEnabled,
     TogglePause, RestartScheduler, Boot, vars
<1>3. ASSUME NEW other \in BudgetKeys, Spend(other) PROVE budget'[key] = 0
  BY <1>1, <1>3, SpendFacts
<1>4. QED
  BY <1>1, <1>2, <1>3

\* Only a restart can leave the actor down.
LEMMA StaysUp ==
  ASSUME up, budget["restarts"] = 0, [Next]_vars
  PROVE  up'
<1>1. ~RestartScheduler
  BY DEF RestartScheduler, Spend
<1>2. QED
  BY <1>1 DEF schedulerVars, Next, Handler, Environment, IndexerStep, StartScheduler, CheckSources,
     VisitSource, EndOfList, TellProcessPendingDownloads, IndexSource, IndexingCompleted,
     StartIndexing, ExecuteIndexing, UpdateLastIndexed, TellIndexingCompleted, TickerFires,
     SupervisorTakesSweep, FrequencyElapses, FloorElapses, AskIndexSource, SetSourceEnabled,
     TogglePause, Boot, vars

LEMMA ExclusiveInvNext == ExclusiveInv /\ [Next]_vars => ExclusiveInv'
<1> SUFFICES ASSUME ExclusiveInv, [Next]_vars PROVE ExclusiveInv'
  OBVIOUS
<1>1. TypeInv /\ TypeInv' /\ RegistrationStep /\ up /\ budget["restarts"] = 0
      /\ up' /\ budget'["restarts"] = 0
  BY TypeInvNext, StepIsRegistrationStep, SpentStaysSpent, StaysUp DEF ExclusiveInv, BudgetKeys
<1>2. SUFFICES ASSUME NEW s \in Sources PROVE Exclusive(s)'
  BY <1>1 DEF ExclusiveInv
<1>3. Exclusive(s)
  BY DEF ExclusiveInv
<1>4. active_indexers \in [Sources -> Indexers \cup {None}] /\ None \notin Indexers
  BY <1>1, SchedulerAssumption DEF TypeInv, TypeOK
<1>5. CASE Untouched
  <2>1. Announced(s)' # {} => Announced(s) # {}
    BY <1>1, <1>5, NothingAnnounced DEF Untouched
  <2>2. \A m, n \in Announced(s)' : m = n
    BY <1>1, <1>3, <1>5, AnnouncedOnce DEF Untouched, Exclusive
  <2>3. QED
    BY <1>3, <1>5, <2>1, <2>2 DEF Untouched, SameIndexers, Exclusive
<1>6. ASSUME NEW r \in Sources, NEW i \in Indexers, Spawned(r, i) PROVE Exclusive(s)'
  <2>1. (Announced(s)' # {} => Announced(s) # {}) /\ \A m, n \in Announced(s)' : m = n
    BY <1>1, <1>3, <1>6, NothingAnnounced, AnnouncedOnce DEF Spawned, Exclusive
  <2>2. CASE s = r
    <3>1. active_indexers[s] = None /\ active_indexers'[s] = i
      BY <1>4, <1>6, <2>2 DEF Spawned
    <3>2. Announced(s) = {} /\ \A j \in Indexers : ~Serves(j, s)
      BY <1>3, <1>4, <3>1 DEF Exclusive
    <3>3. \A j \in Indexers : Serves(j, s)' => j = i
      BY <1>6, <3>2 DEF Spawned
    <3>4. QED
      BY <2>1, <3>1, <3>2, <3>3 DEF Exclusive
  <2>3. CASE s # r
    <3>1. active_indexers'[s] = active_indexers[s]
          /\ \A j \in Indexers : Serves(j, s)' <=> Serves(j, s)
      BY <1>4, <1>6, <2>3 DEF Spawned
    <3>2. QED
      BY <1>3, <2>1, <3>1 DEF Exclusive
  <2>4. QED
    BY <2>2, <2>3
<1>7. ASSUME NEW r \in Sources, NEW i \in Indexers, Ended(i, r) PROVE Exclusive(s)'
  <2>1. CASE s = r
    <3>1. active_indexers'[s] = i /\ \A j \in Indexers : ~Serves(j, s)'
      BY <1>3, <1>7, <2>1 DEF Ended, Exclusive
    <3>2. Announced(s) = {}
      BY <1>3, <1>7, <2>1 DEF Ended, Exclusive
    <3>3. \A m, n \in Announced(s)' : m = n
      BY <1>7, <2>1, <3>2 DEF Ended
    <3>4. QED
      BY <1>4, <3>1, <3>3 DEF Exclusive
  <2>2. CASE s # r
    <3>1. Announced(s)' = Announced(s) /\ active_indexers' = active_indexers
      BY <1>7, <2>2 DEF Ended
    <3>2. \A j \in Indexers : Serves(j, s)' => Serves(j, s)
      BY <1>7 DEF Ended
    <3>3. QED
      BY <1>3, <3>1, <3>2 DEF Exclusive
  <2>3. QED
    BY <2>1, <2>2
<1>8. ASSUME NEW r \in Sources, Forgot(r) PROVE Exclusive(s)'
  <2>1. Announced(s)' \subseteq Nat \ {0}
    BY <1>1, LenProperties DEF TypeInv, TypeOK, Announced
  <2>2. \A n \in Announced(s)' : n + 1 \in Announced(s) /\ n + 1 # 1
    BY <1>8, <2>1 DEF Forgot
  <2>3. \A m, n \in Announced(s)' : m = n
    BY <1>3, <2>1, <2>2 DEF Exclusive
  <2>4. CASE s = r
    <3>1. 1 \in Announced(s)
      BY <1>8, <2>4 DEF Forgot
    <3>2. \A j \in Indexers : ~Serves(j, s)'
      BY <1>3, <1>8, <3>1 DEF Exclusive, Forgot, SameIndexers
    <3>3. Announced(s)' = {}
      BY <1>3, <2>2, <3>1 DEF Exclusive
    <3>4. QED
      BY <3>2, <3>3 DEF Exclusive
  <2>5. CASE s # r
    <3>1. active_indexers'[s] = active_indexers[s]
      BY <1>4, <1>8, <2>5 DEF Forgot
    <3>2. \A j \in Indexers : Serves(j, s)' <=> Serves(j, s)
      BY <1>8 DEF Forgot, SameIndexers
    <3>3. Announced(s)' # {} => Announced(s) # {}
      BY <2>2
    <3>4. QED
      BY <1>3, <2>3, <3>1, <3>2, <3>3 DEF Exclusive
  <2>6. QED
    BY <2>4, <2>5
<1>9. ~ForgotAll /\ ~StartedAfresh
  BY <1>1 DEF ForgotAll, StartedAfresh
<1>10. QED
  BY <1>1, <1>5, <1>6, <1>7, <1>8, <1>9 DEF RegistrationStep

LEMMA ExclusiveInvHolds == ASSUME Budget["restarts"] = 0 PROVE Spec => []ExclusiveInv
BY ExclusiveInvInit, ExclusiveInvNext, PTL DEF Spec

\* Mutual exclusion per source: whatever ticks and operators ask for, a
\* source is never indexed twice at a time (in one life of the scheduler).
THEOREM OneIndexer ==
  ASSUME Budget["restarts"] = 0
  PROVE  Spec => []OneIndexerPerSource
<1>1. ExclusiveInv => OneIndexerPerSource
  BY DEF ExclusiveInv, Exclusive, OneIndexerPerSource, Running, Serves
<1>2. QED
  BY ExclusiveInvHolds, <1>1, PTL

(***************************************************************************)
(* The floor between two runs of a source, again in one life.               *)
(***************************************************************************)

\* A source whose last run is not long ago is registered still, or known as
\* recently indexed.
FloorInv ==
  /\ ExclusiveInv
  /\ \A s \in Sources \ rested : active_indexers[s] # None \/ last_indexed[s] = "recent"

LEMMA FloorInvNext == FloorInv /\ [Next]_vars => FloorInv'
<1> SUFFICES ASSUME FloorInv, [Next]_vars PROVE FloorInv'
  OBVIOUS
<1> USE DEF rowVars, tickVars, schedulerVars, historyVars
<1>1. TypeInv /\ ExclusiveInv /\ ExclusiveInv' /\ budget["restarts"] = 0
  BY ExclusiveInvNext DEF FloorInv, ExclusiveInv
<1>2. /\ active_indexers \in [Sources -> Indexers \cup {None}] /\ None \notin Indexers
      /\ last_indexed \in [Sources -> {"never", "recent", "past"}]
      /\ mailbox \in Seq(Message)
  BY <1>1, SchedulerAssumption DEF TypeInv, TypeOK
<1>3. SUFFICES ASSUME NEW s \in Sources \ rested'
               PROVE  active_indexers'[s] # None \/ last_indexed'[s] = "recent"
  BY <1>1 DEF FloorInv
<1>4. s \notin rested => active_indexers[s] # None \/ last_indexed[s] = "recent"
  BY <1>3 DEF FloorInv
<1>5. CASE UNCHANGED <<active_indexers, last_indexed, rested>>
  BY <1>3, <1>4, <1>5
<1>6. CASE \/ StartScheduler \/ CheckSources \/ EndOfList \/ TellProcessPendingDownloads
           \/ SupervisorTakesSweep \/ SetSourceEnabled \/ TogglePause \/ TickerFires
           \/ AskIndexSource \/ UNCHANGED vars \/ \E r \in Sources : FrequencyElapses(r)
           \/ \E i \in Indexers : StartIndexing(i) \/ TellIndexingCompleted(i)
  BY <1>5, <1>6 DEF StartScheduler, CheckSources, EndOfList, TellProcessPendingDownloads,
     SupervisorTakesSweep, SetSourceEnabled, TogglePause, TickerFires, AskIndexSource,
     FrequencyElapses, StartIndexing, TellIndexingCompleted, vars
<1>7. ASSUME UNCHANGED <<last_indexed, rested>>,
             UNCHANGED active_indexers \/ \E r \in Sources : SpawnIndexer(r)
      PROVE  active_indexers'[s] # None \/ last_indexed'[s] = "recent"
  BY <1>2, <1>3, <1>4, <1>7 DEF SpawnIndexer
<1>8. CASE IndexSource \/ \E r \in Sources : VisitSource(r)
  <2>1. CASE IndexSource
    <3>1. Head(mailbox).source \in Sources
      BY <1>2, <2>1, ReceiveFacts, MessageFacts DEF IndexSource
    <3>2. QED
      BY <1>7, <2>1, <3>1 DEF IndexSource
  <2>2. QED
    BY <1>7, <1>8, <2>1 DEF VisitSource
<1>9. CASE IndexingCompleted
  <2>1. Head(mailbox).source \in Sources
    BY <1>2, <1>9, ReceiveFacts, MessageFacts DEF IndexingCompleted
  <2>2. QED
    BY <1>2, <1>3, <1>4, <1>9, <2>1 DEF IndexingCompleted, ForgetIndexer
<1>10. ASSUME NEW i \in Indexers, ExecuteIndexing(i) \/ UpdateLastIndexed(i)
       PROVE  active_indexers'[s] # None \/ last_indexed'[s] = "recent"
  <2>1. /\ UNCHANGED <<active_indexers, last_indexed>>
        /\ rested' = rested \/ rested' = rested \ {indexer[i].source}
        /\ indexer[i].pc # "unused"
    BY <1>10 DEF ExecuteIndexing, UpdateLastIndexed
  <2>2. s = indexer[i].source => active_indexers[s] # None
    BY <1>1, <1>2, <2>1 DEF ExclusiveInv, Exclusive, Serves
  <2>3. QED
    BY <1>3, <1>4, <2>1, <2>2
<1>11. ASSUME NEW r \in Sources, FloorElapses(r)
       PROVE  active_indexers'[s] # None \/ last_indexed'[s] = "recent"
  BY <1>2, <1>3, <1>4, <1>11 DEF FloorElapses
<1>12. ~RestartScheduler /\ ~Boot
  BY <1>1 DEF RestartScheduler, Spend, Boot, ExclusiveInv
<1>13. QED
  BY <1>6, <1>8, <1>9, <1>10, <1>11, <1>12 DEF Next, Handler, Environment, IndexerStep

\* The floor: between two runs of a source that ticks have started lies
\* MIN_INDEX_INTERVAL_SECS, although the due query knows nothing of it.
THEOREM FloorKept ==
  ASSUME Budget["restarts"] = 0
  PROVE  Spec => IndexFloor
<1> DEFINE Step == \A i \in Indexers :
        (tick = "spawning" /\ indexer[i].pc = "unused" /\ indexer'[i].pc = "starting")
           => indexer'[i].source \in rested
<1>1. Init => FloorInv
  BY ExclusiveInvInit DEF Init, FloorInv
<1>2. FloorInv /\ [Next]_vars => [Step]_vars
  <2> SUFFICES ASSUME FloorInv, Next, NEW i \in Indexers, tick = "spawning",
                      indexer[i].pc = "unused", indexer'[i].pc = "starting"
               PROVE  indexer'[i].source \in rested
    OBVIOUS
  <2>1. TypeInv /\ indexer \in [Indexers -> Indexer] /\ indexer'[i] # indexer[i]
    BY DEF FloorInv, ExclusiveInv, TypeInv, TypeOK
  <2>2. ASSUME NEW r \in Sources, VisitSource(r) PROVE indexer'[i].source \in rested
    <3>1. SpawnIndexer(r) /\ ~Skipped(r)
      BY <2>1, <2>2 DEF VisitSource
    <3>2. indexer'[i].source = r
      BY <2>1, <3>1 DEF SpawnIndexer
    <3>3. QED
      BY <3>1, <3>2 DEF FloorInv, Skipped
  <2>3. ASSUME NEW j \in Indexers, IndexerStep(j) PROVE FALSE
    <3>1. indexer[j].pc # "unused"
          /\ \/ Move(j, "indexing") \/ Move(j, "closing") \/ Move(j, "ended")
             \/ indexer' = [indexer EXCEPT ![j] = UnusedIndexer]
      BY <2>3 DEF IndexerStep, StartIndexing, ExecuteIndexing, UpdateLastIndexed,
         TellIndexingCompleted
    <3>2. j # i /\ indexer'[i] = indexer[i]
      BY <2>1, <3>1, MoveFacts DEF PC
    <3>3. QED
      BY <2>1, <3>2
  <2>4. ASSUME RestartScheduler \/ Boot PROVE FALSE
    BY <2>4 DEF RestartScheduler, Spend, Boot, FloorInv, ExclusiveInv
  <2>5. ASSUME UNCHANGED indexer PROVE FALSE
    BY <2>1, <2>5
  <2>6. ASSUME StartScheduler \/ CheckSources \/ IndexSource \/ IndexingCompleted PROVE FALSE
    BY <2>6 DEF StartScheduler, CheckSources, IndexSource, IndexingCompleted, Receive
  <2>7. QED
    BY <2>2, <2>3, <2>4, <2>5, <2>6 DEF Next, Handler, Environment, EndOfList,
       TellProcessPendingDownloads, TickerFires, SupervisorTakesSweep, AskIndexSource,
       SetSourceEnabled, TogglePause, FrequencyElapses, FloorElapses
<1>3. QED
  BY <1>1, <1>2, FloorInvNext, PTL DEF Spec, IndexFloor

(***************************************************************************)
(* The retry limit.  It rests on the column counting the errors, which it   *)
(* does if no statement fails and no run ends in a rate limit (a run that   *)
(* does records the error and then clears it).  A tick acts on the column   *)
(* as it was when the sources were listed; the registrations are what       *)
(* keeps it true of the sources the tick may still spawn for.               *)
(***************************************************************************)

Closing(s) == \E i \in Indexers : Serves(i, s) /\ indexer[i].pc = "closing"

Counted(s) ==
  /\ streak[s] <= MaxIndexRetries
  /\ index_error_count[s] = streak[s] \/ Closing(s)
  /\ \A i \in Indexers : Serves(i, s) =>
        /\ indexer[i].pc \in {"starting", "indexing"} => streak[s] < MaxIndexRetries
        /\ indexer[i].pc = "closing" => streak[s] = 0
  /\ s \in listed /\ active_indexers[s] = None => index_error_count[s] < MaxIndexRetries

CountInv ==
  /\ ExclusiveInv
  /\ budget["faults"] = 0
  /\ tick # "spawning" => listed = {}
  /\ \A s \in Sources : Counted(s)

\* A step that has nothing to do with the source.
LEMMA CountedKept ==
  ASSUME NEW s \in Sources, Counted(s), streak'[s] = streak[s],
         index_error_count'[s] = index_error_count[s],
         s \in listed' /\ active_indexers'[s] = None =>
            index_error_count[s] < MaxIndexRetries,
         \A i \in Indexers : /\ Serves(i, s)' <=> Serves(i, s)
                             /\ Serves(i, s) => indexer'[i].pc = indexer[i].pc
  PROVE  Counted(s)'
<1>1. Closing(s)' <=> Closing(s)
  BY DEF Closing
<1>2. \A i \in Indexers : Serves(i, s)' =>
        /\ indexer'[i].pc \in {"starting", "indexing"} => streak'[s] < MaxIndexRetries
        /\ indexer'[i].pc = "closing" => streak'[s] = 0
  BY DEF Counted
<1>3. QED
  BY <1>1, <1>2 DEF Counted

LEMMA CountInvInit ==
  Init /\ Budget["restarts"] = 0 /\ Budget["faults"] = 0 => CountInv
<1> SUFFICES ASSUME Init, Budget["restarts"] = 0, Budget["faults"] = 0 PROVE CountInv
  OBVIOUS
<1>1. ExclusiveInv /\ budget["faults"] = 0 /\ listed = {}
  BY ExclusiveInvInit DEF Init
<1>2. \A i \in Indexers, s \in Sources : ~Serves(i, s)
  BY DEF Init, Serves, UnusedIndexer
<1>3. \A s \in Sources : streak[s] = 0 /\ index_error_count[s] = 0
  BY DEF Init
<1>4. QED
  BY <1>1, <1>2, <1>3, SchedulerAssumption DEF CountInv, Counted

\* Nobody serves a source that is not registered, so that its column is right.
LEMMA UnregisteredCounted ==
  ASSUME CountInv, NEW s \in Sources, active_indexers[s] = None
  PROVE  /\ \A i \in Indexers : ~Serves(i, s)
         /\ index_error_count[s] = streak[s]
<1>1. None \notin Indexers
  BY SchedulerAssumption
<1>2. \A i \in Indexers : ~Serves(i, s)
  BY <1>1 DEF CountInv, ExclusiveInv, Exclusive
<1>3. QED
  BY <1>2 DEF CountInv, Counted, Closing

\* A new indexer starts below the limit.
LEMMA SpawnCounted ==
  ASSUME CountInv, NEW r \in Sources, SpawnIndexer(r), active_indexers[r] = None,
         streak'[r] = index_error_count'[r], streak'[r] < MaxIndexRetries,
         streak'[r] \in Nat, listed' \subseteq listed,
         \A s \in Sources \ {r} : /\ streak'[s] = streak[s]
                                  /\ index_error_count'[s] = index_error_count[s]
  PROVE  \A s \in Sources : Counted(s)'
<1> SUFFICES ASSUME NEW s \in Sources PROVE Counted(s)'
  OBVIOUS
<1>1. TypeInv /\ Counted(s)
  BY DEF CountInv, ExclusiveInv
<1>2. /\ indexer \in [Indexers -> Indexer] /\ None \notin Indexers
      /\ active_indexers \in [Sources -> Indexers \cup {None}]
  BY <1>1, SchedulerAssumption DEF TypeInv, TypeOK
<1>3. PICK i \in Indexers :
        /\ indexer[i].pc = "unused"
        /\ indexer' = [indexer EXCEPT ![i] = [pc |-> "starting", source |-> r]]
        /\ active_indexers' = [active_indexers EXCEPT ![r] = i]
  BY DEF SpawnIndexer
<1>4. CASE s = r
  <2>1. \A j \in Indexers : ~Serves(j, s)
    BY <1>4, UnregisteredCounted
  <2>2. \A j \in Indexers : Serves(j, s)' => indexer'[j].pc = "starting"
    BY <1>2, <1>3, <2>1 DEF Serves
  <2>3. active_indexers'[s] # None
    BY <1>2, <1>3, <1>4
  <2>4. streak'[s] <= MaxIndexRetries
    BY <1>4, SchedulerAssumption
  <2>5. QED
    BY <1>4, <2>2, <2>3, <2>4 DEF Counted
<1>5. CASE s # r
  <2>1. \A j \in Indexers : /\ Serves(j, s)' <=> Serves(j, s)
                            /\ Serves(j, s) => indexer'[j].pc = indexer[j].pc
    BY <1>2, <1>3, <1>5 DEF Serves
  <2>2. active_indexers'[s] = active_indexers[s]
    BY <1>2, <1>3, <1>5
  <2>3. s \in listed' /\ active_indexers'[s] = None => index_error_count[s] < MaxIndexRetries
    BY <1>1, <2>2 DEF Counted
  <2>4. QED
    BY <1>1, <1>5, <2>1, <2>3, CountedKept
<1>6. QED
  BY <1>4, <1>5

\* A step of the one indexer of a source leaves the other sources alone.
LEMMA RunCounted ==
  ASSUME CountInv, NEW i \in Indexers, NEW pc \in PC \ {"unused"}, Move(i, pc),
         indexer[i].pc # "unused",
         UNCHANGED <<active_indexers, listed>>,
         NEW r \in Sources, r = indexer[i].source,
         \A s \in Sources \ {r} : /\ streak'[s] = streak[s]
                                  /\ index_error_count'[s] = index_error_count[s],
         streak'[r] <= MaxIndexRetries,
         pc = "closing" \/ index_error_count'[r] = streak'[r],
         pc \in {"starting", "indexing"} => streak'[r] < MaxIndexRetries,
         pc = "closing" => streak'[r] = 0
  PROVE  \A s \in Sources : Counted(s)'
<1> SUFFICES ASSUME NEW s \in Sources PROVE Counted(s)'
  OBVIOUS
<1>1. TypeInv /\ Counted(s) /\ Exclusive(s)
  BY DEF CountInv, ExclusiveInv
<1>2. /\ indexer'[i].pc = pc /\ indexer'[i].source = indexer[i].source
      /\ \A j \in Indexers \ {i} : indexer'[j] = indexer[j]
  BY <1>1, MoveFacts DEF TypeInv, TypeOK
<1>3. \A j \in Indexers : Serves(j, s)' <=> Serves(j, s)
  BY <1>2 DEF Serves
<1>4. CASE s = r
  <2>1. Serves(i, s) /\ \A j \in Indexers : Serves(j, s) => j = i
    BY <1>1, <1>4 DEF Exclusive, Serves
  <2>2. active_indexers'[s] # None
    BY <1>1, <2>1, SchedulerAssumption DEF Exclusive
  <2>3. \A j \in Indexers : Serves(j, s)' => indexer'[j].pc = pc
    BY <1>2, <1>3, <2>1
  <2>4. pc = "closing" => Closing(s)'
    BY <1>2, <1>3, <2>1 DEF Closing
  <2>5. QED
    BY <1>4, <2>2, <2>3, <2>4 DEF Counted
<1>5. CASE s # r
  <2>1. ~Serves(i, s)
    BY <1>5 DEF Serves
  <2>2. \A j \in Indexers : Serves(j, s) => indexer'[j].pc = indexer[j].pc
    BY <1>2, <2>1
  <2>3. s \in listed' /\ active_indexers'[s] = None => index_error_count[s] < MaxIndexRetries
    BY <1>1 DEF Counted
  <2>4. QED
    BY <1>1, <1>3, <1>5, <2>2, <2>3, CountedKept
<1>6. QED
  BY <1>4, <1>5

LEMMA CountInvNext ==
  ASSUME "rate_limited" \notin Results
  PROVE  CountInv /\ [Next]_vars => CountInv'
<1> SUFFICES ASSUME CountInv, [Next]_vars PROVE CountInv'
  OBVIOUS
<1> USE DEF rowVars, tickVars, schedulerVars, historyVars
<1>1. TypeInv /\ ExclusiveInv /\ ExclusiveInv' /\ budget["restarts"] = 0
  BY ExclusiveInvNext DEF CountInv, ExclusiveInv
<1>2. budget'["faults"] = 0 /\ budget["faults"] = 0 /\ ~Spend("faults") /\ ~Spend("restarts")
  BY <1>1, SpentStaysSpent DEF CountInv, BudgetKeys, Spend
<1>3. /\ streak \in [Sources -> Nat] /\ index_error_count \in [Sources -> Nat]
      /\ indexer \in [Indexers -> Indexer]
      /\ active_indexers \in [Sources -> Indexers \cup {None}] /\ None \notin Indexers
      /\ mailbox \in Seq(Message) /\ listed \subseteq Sources
      /\ MaxIndexRetries \in Nat \ {0}
  BY <1>1, SchedulerAssumption DEF TypeInv, TypeOK
<1>4. (tick # "spawning" => listed = {}) /\ \A s \in Sources : Counted(s)
  BY DEF CountInv
<1>5. SUFFICES (tick' # "spawning" => listed' = {}) /\ \A s \in Sources : Counted(s)'
  BY <1>1, <1>2 DEF CountInv
<1>6. ASSUME UNCHANGED <<streak, index_error_count, indexer, active_indexers>>,
             listed' \subseteq listed
      PROVE  \A s \in Sources : Counted(s)'
  <2> SUFFICES ASSUME NEW s \in Sources PROVE Counted(s)'
    OBVIOUS
  <2>1. \A i \in Indexers : Serves(i, s)' <=> Serves(i, s)
    BY <1>6 DEF Serves
  <2>2. s \in listed' /\ active_indexers'[s] = None => index_error_count[s] < MaxIndexRetries
    BY <1>4, <1>6 DEF Counted
  <2>3. QED
    BY <1>4, <1>6, <2>1, <2>2, CountedKept
<1>7. CASE \/ StartScheduler \/ SupervisorTakesSweep \/ SetSourceEnabled \/ TogglePause
           \/ TickerFires \/ AskIndexSource \/ UNCHANGED vars
           \/ \E r \in Sources : FrequencyElapses(r) \/ FloorElapses(r)
  BY <1>4, <1>6, <1>7 DEF StartScheduler, SupervisorTakesSweep, SetSourceEnabled, TogglePause,
     TickerFires, AskIndexSource, FrequencyElapses, FloorElapses, vars
<1>8. CASE EndOfList \/ TellProcessPendingDownloads
  BY <1>4, <1>6, <1>8 DEF EndOfList, TellProcessPendingDownloads
<1>9. CASE CheckSources
  <2>1. listed = {} /\ UNCHANGED <<streak, index_error_count, indexer, active_indexers>>
    BY <1>4, <1>9 DEF CheckSources, Receive
  <2>2. CASE listed' = listed
    BY <1>6, <1>9, <2>1, <2>2
  <2>3. CASE tick' = "spawning" /\ listed' = {s \in Sources : DueForIndexing(s)}
    <3> SUFFICES ASSUME NEW s \in Sources PROVE Counted(s)'
      BY <2>3
    <3>1. s \in listed' => index_error_count[s] < MaxIndexRetries
      BY <2>3 DEF DueForIndexing
    <3>2. \A i \in Indexers : Serves(i, s)' <=> Serves(i, s)
      BY <2>1 DEF Serves
    <3>3. QED
      BY <1>4, <2>1, <3>1, <3>2, CountedKept
  <2>4. QED
    BY <1>9, <2>1, <2>2, <2>3 DEF CheckSources, SkipToSweep
<1>10. ASSUME NEW r \in Sources, VisitSource(r)
       PROVE  (tick' # "spawning" => listed' = {}) /\ \A s \in Sources : Counted(s)'
  <2>1. /\ tick' = "spawning" /\ listed' \subseteq listed
        /\ UNCHANGED <<streak, index_error_count>> /\ r \in listed
    BY <1>10 DEF VisitSource, Left
  <2>2. CASE UNCHANGED <<indexer, active_indexers>>
    BY <1>6, <2>1, <2>2
  <2>3. CASE SpawnIndexer(r) /\ ~Skipped(r)
    <3>1. active_indexers[r] = None
      BY <2>3 DEF Skipped
    <3>2. index_error_count[r] = streak[r] /\ index_error_count[r] < MaxIndexRetries
      BY <1>4, <2>1, <3>1, UnregisteredCounted DEF Counted
    <3>3. QED
      BY <1>3, <2>1, <2>3, <3>1, <3>2, SpawnCounted
  <2>4. QED
    BY <1>10, <2>2, <2>3 DEF VisitSource
<1>11. CASE IndexSource
  <2>1. PICK r \in Sources : r = Head(mailbox).source
    BY <1>3, <1>11, ReceiveFacts, MessageFacts DEF IndexSource
  <2>2. tick = "idle" /\ UNCHANGED <<tick, listed>> /\ listed = {}
    BY <1>4, <1>11 DEF IndexSource, Receive
  <2>3. CASE UNCHANGED <<streak, index_error_count, indexer, active_indexers>>
    BY <1>6, <2>2, <2>3
  <2>4. CASE /\ active_indexers[r] = None /\ SpawnIndexer(r)
             /\ index_error_count' = [index_error_count EXCEPT ![r] = 0]
             /\ streak' = [streak EXCEPT ![r] = 0]
    <3>1. /\ streak'[r] = 0 /\ index_error_count'[r] = 0 /\ 0 < MaxIndexRetries
          /\ \A s \in Sources \ {r} : /\ streak'[s] = streak[s]
                                      /\ index_error_count'[s] = index_error_count[s]
      BY <1>3, <2>4
    <3>2. QED
      BY <2>2, <2>4, <3>1, SpawnCounted
  <2>5. QED
    BY <1>2, <1>11, <2>1, <2>3, <2>4 DEF IndexSource
<1>12. CASE IndexingCompleted
  <2>1. tick = "idle" /\ UNCHANGED <<tick, listed>> /\ listed = {}
    BY <1>4, <1>12 DEF IndexingCompleted, Receive
  <2>2. UNCHANGED <<streak, index_error_count, indexer>>
    BY <1>12 DEF IndexingCompleted
  <2>3. \A i \in Indexers, s \in Sources : Serves(i, s)' <=> Serves(i, s)
    BY <2>2 DEF Serves
  <2>4. QED
    BY <1>4, <2>1, <2>2, <2>3, CountedKept
<1>13. ASSUME NEW i \in Indexers, IndexerStep(i)
       PROVE  (tick' # "spawning" => listed' = {}) /\ \A s \in Sources : Counted(s)'
  <2>1. UNCHANGED <<tick, listed, active_indexers>> /\ indexer[i].pc # "unused"
    BY <1>13 DEF IndexerStep, StartIndexing, ExecuteIndexing, UpdateLastIndexed,
       TellIndexingCompleted
  <2>2. PICK r \in Sources : r = indexer[i].source
    BY <1>1, <2>1 DEF TypeInv, UsedHaveSource
  <2>3. Serves(i, r) /\ Counted(r) /\ streak[r] \in Nat /\ index_error_count[r] \in Nat
    BY <1>3, <1>4, <2>1, <2>2 DEF Serves
  <2>4. Closing(r) => indexer[i].pc = "closing"
    BY <1>1, <2>3 DEF Closing, ExclusiveInv, Exclusive
  <2>5. CASE StartIndexing(i)
    <3>1. /\ Move(i, "indexing") /\ UNCHANGED <<streak, index_error_count>>
          /\ indexer[i].pc = "starting"
      BY <2>5 DEF StartIndexing
    <3>2. streak[r] < MaxIndexRetries /\ index_error_count[r] = streak[r]
      BY <2>3, <2>4, <3>1 DEF Counted
    <3>3. "indexing" \in PC \ {"unused"} /\ streak[r] <= MaxIndexRetries
      BY <2>3 DEF PC, Counted
    <3>4. \A s \in Sources : Counted(s)'
      BY <2>1, <2>2, <3>1, <3>2, <3>3, RunCounted
    <3>5. QED
      BY <1>4, <2>1, <3>4
  <2>6. CASE ExecuteIndexing(i)
    <3>1. indexer[i].pc = "indexing"
      BY <2>6 DEF ExecuteIndexing
    <3>2. streak[r] < MaxIndexRetries /\ index_error_count[r] = streak[r]
      BY <2>3, <2>4, <3>1 DEF Counted
    <3>3. CASE /\ index_error_count' = [index_error_count EXCEPT ![r] = @ + 1]
               /\ streak' = [streak EXCEPT ![r] = OneMore(@)]
               /\ Move(i, "ended")
      <4>1. /\ streak'[r] = streak[r] + 1 /\ index_error_count'[r] = streak[r] + 1
            /\ streak[r] + 1 <= MaxIndexRetries
            /\ \A s \in Sources \ {r} : /\ streak'[s] = streak[s]
                                        /\ index_error_count'[s] = index_error_count[s]
        BY <1>3, <2>3, <3>2, <3>3 DEF OneMore
      <4>2. "ended" \in PC \ {"unused"}
        BY DEF PC
      <4>3. \A s \in Sources : Counted(s)'
        BY <2>1, <2>2, <3>3, <4>1, <4>2, RunCounted
      <4>4. QED
        BY <1>4, <2>1, <4>3
    <3>4. CASE /\ streak' = [streak EXCEPT ![r] = 0] /\ UNCHANGED index_error_count
               /\ Move(i, "closing")
      <4>1. /\ streak'[r] = 0 /\ 0 <= MaxIndexRetries
            /\ \A s \in Sources \ {r} : streak'[s] = streak[s]
        BY <1>3, <3>4
      <4>2. "closing" \in PC \ {"unused"}
        BY DEF PC
      <4>3. \A s \in Sources : Counted(s)'
        BY <2>1, <2>2, <3>4, <4>1, <4>2, RunCounted
      <4>4. QED
        BY <1>4, <2>1, <4>3
    <3>5. QED
      BY <1>2, <2>2, <2>6, <3>3, <3>4 DEF ExecuteIndexing, RecordIndexingError
  <2>7. CASE UpdateLastIndexed(i)
    <3>1. /\ Move(i, "ended") /\ UNCHANGED streak /\ indexer[i].pc = "closing"
          /\ index_error_count' = [index_error_count EXCEPT ![r] = 0]
      BY <1>2, <2>2, <2>7 DEF UpdateLastIndexed, ClearErrorState
    <3>2. streak[r] = 0 /\ streak[r] <= MaxIndexRetries
      BY <2>3, <3>1 DEF Counted
    <3>3. /\ index_error_count'[r] = 0
          /\ \A s \in Sources \ {r} : index_error_count'[s] = index_error_count[s]
      BY <1>3, <3>1
    <3>4. "ended" \in PC \ {"unused"}
      BY DEF PC
    <3>5. \A s \in Sources : Counted(s)'
      BY <2>1, <2>2, <3>1, <3>2, <3>3, <3>4, RunCounted
    <3>6. QED
      BY <1>4, <2>1, <3>5
  <2>8. CASE TellIndexingCompleted(i)
    <3>1. /\ indexer[i].pc = "ended" /\ UNCHANGED <<streak, index_error_count>>
          /\ indexer' = [indexer EXCEPT ![i] = UnusedIndexer]
      BY <2>8 DEF TellIndexingCompleted
    <3>2. ASSUME NEW s \in Sources PROVE Counted(s)'
      <4>1. \A j \in Indexers : Serves(j, s)' => Serves(j, s) /\ indexer'[j].pc = indexer[j].pc
        BY <1>3, <3>1 DEF Serves, UnusedIndexer
      <4>2. Closing(s) => Closing(s)'
        BY <1>3, <3>1 DEF Closing, Serves
      <4>3. Counted(s)
        BY <1>4
      <4>4. QED
        BY <2>1, <3>1, <4>1, <4>2, <4>3 DEF Counted
    <3>3. QED
      BY <1>4, <2>1, <3>2
  <2>9. QED
    BY <1>13, <2>5, <2>6, <2>7, <2>8 DEF IndexerStep
<1>14. ~RestartScheduler /\ ~Boot
  BY <1>1, <1>2 DEF RestartScheduler, Boot, ExclusiveInv
<1>15. QED
  BY <1>7, <1>8, <1>9, <1>10, <1>11, <1>12, <1>13, <1>14 DEF Next, Handler, Environment

LEMMA CountInvHolds ==
  ASSUME Budget["restarts"] = 0, Budget["faults"] = 0, "rate_limited" \notin Results
  PROVE  Spec => []CountInv
BY CountInvInit, CountInvNext, PTL DEF Spec

\* Without rate limits and failing statements the column index_error_count is
\* the number of runs that have failed in a row.
THEOREM ErrorColumnIsStreak ==
  ASSUME Budget["restarts"] = 0, Budget["faults"] = 0, "rate_limited" \notin Results
  PROVE  Spec => []ErrorsAreCounted
<1>1. CountInv => ErrorsAreCounted
  BY DEF CountInv, Counted, Closing, Serves, ErrorsAreCounted
<1>2. QED
  BY CountInvHolds, <1>1, PTL

\* Then no source fails more than MAX_INDEX_RETRIES times in a row, although
\* the tick decides on a list that may be old when it comes to a source.
THEOREM RetryLimitKept ==
  ASSUME Budget["restarts"] = 0, Budget["faults"] = 0, "rate_limited" \notin Results
  PROVE  Spec => []ErrorStreakBounded
<1>1. CountInv => ErrorStreakBounded
  BY DEF CountInv, Counted, ErrorStreakBounded
<1>2. QED
  BY CountInvHolds, <1>1, PTL

(***************************************************************************)
(* What SweepsContinue rests on: the loop of a scheduler that runs is      *)
(* driven, by its ticker or by the message that will start one.            *)
(***************************************************************************)

DriveInv == TypeInv /\ LoopIsDriven

LEMMA DriveInvInit == Init => DriveInv
<1> SUFFICES ASSUME Init PROVE DriveInv
  OBVIOUS
<1>1. DOMAIN mailbox = {1} /\ mailbox[1].kind = "StartScheduler"
  BY DEF Init, Start
<1>2. LoopIsDriven
  BY <1>1 DEF Init, LoopIsDriven, StartIsTold
<1>3. QED
  BY <1>2, TypeInvInit DEF DriveInv

\* A message that is told hides no StartScheduler, and needs room.
LEMMA TellKeepsStart ==
  ASSUME TypeInv, NEW m \in Message, Tell(m)
  PROVE  /\ StartIsTold => StartIsTold'
         /\ m.kind = "StartScheduler" => StartIsTold'
         /\ ~(Len(mailbox) >= MailboxCap)
<1>1. /\ Len(mailbox) \in Nat
      /\ DOMAIN mailbox = 1 .. Len(mailbox) /\ DOMAIN mailbox' = 1 .. Len(mailbox) + 1
      /\ \A n \in DOMAIN mailbox : mailbox'[n] = mailbox[n]
      /\ mailbox'[Len(mailbox) + 1] = m
  BY TellFacts DEF TypeInv, TypeOK
<1>2. PICK last \in DOMAIN mailbox' : mailbox'[last] = m
  BY <1>1
<1>3. \A n \in DOMAIN mailbox : n \in DOMAIN mailbox'
  BY <1>1
<1>4. ~(Len(mailbox) >= MailboxCap)
  BY <1>1, SchedulerAssumption DEF Tell
<1>5. QED
  BY <1>1, <1>2, <1>3, <1>4 DEF StartIsTold

\* A handler of another message leaves it where it is found.
LEMMA ReceiveKeepsStart ==
  ASSUME TypeInv, NEW kind, kind # "StartScheduler", Receive(kind), StartIsTold
  PROVE  StartIsTold'
<1>1. /\ Len(mailbox) \in Nat \ {0} /\ mailbox[1].kind = kind
      /\ DOMAIN mailbox = 1 .. Len(mailbox) /\ DOMAIN mailbox' = 1 .. Len(mailbox) - 1
      /\ \A n \in DOMAIN mailbox' : mailbox'[n] = mailbox[n + 1]
  BY ReceiveFacts DEF TypeInv, TypeOK
<1>2. PICK n \in DOMAIN mailbox : mailbox[n].kind = "StartScheduler"
  BY DEF StartIsTold
<1>3. n # 1
  BY <1>1, <1>2
<1>4. PICK m \in DOMAIN mailbox' : m + 1 = n
  <2>1. n - 1 \in DOMAIN mailbox' /\ n - 1 + 1 = n
    BY <1>1, <1>2, <1>3
  <2>2. QED
    BY <2>1
<1>5. mailbox'[m].kind = "StartScheduler"
  BY <1>1, <1>2, <1>4
<1>6. QED
  BY <1>5 DEF StartIsTold

\* What leaves the books of the loop alone and only tells something keeps it.
LEMMA TellingDrives ==
  ASSUME DriveInv, UNCHANGED <<up, running, tick, tickers>>,
         UNCHANGED mailbox \/ \E m \in Message : Tell(m)
  PROVE  LoopIsDriven'
<1>1. CASE UNCHANGED mailbox
  BY <1>1 DEF DriveInv, LoopIsDriven, StartIsTold
<1>2. CASE \E m \in Message : Tell(m)
  BY <1>2, TellKeepsStart DEF DriveInv, LoopIsDriven
<1>3. QED
  BY <1>1, <1>2

LEMMA HandlersDriven ==
  ASSUME DriveInv, Handler
  PROVE  LoopIsDriven'
<1> USE DEF DriveInv, rowVars, tickVars, schedulerVars
<1>1. tickers \in Nat
  BY DEF TypeInv, TypeOK
<1>2. CASE StartScheduler
  BY <1>1, <1>2 DEF StartScheduler, Receive, LoopIsDriven
<1>3. CASE CheckSources
  <2>1. /\ Receive("CheckSources") /\ up /\ UNCHANGED <<up, running, tickers>>
        /\ ~running => tick' = "idle"
    BY <1>3 DEF CheckSources, Receive
  <2>2. QED
    BY <2>1, ReceiveKeepsStart DEF LoopIsDriven
<1>4. ASSUME NEW s \in Sources, VisitSource(s) PROVE LoopIsDriven'
  BY <1>4, TellingDrives DEF VisitSource
<1>5. CASE EndOfList \/ TellProcessPendingDownloads
  <2>1. UNCHANGED <<mailbox, up, running, tickers>> /\ tick # "idle"
    BY <1>5 DEF EndOfList, TellProcessPendingDownloads
  <2>2. QED
    BY <2>1 DEF LoopIsDriven
<1>6. CASE IndexSource \/ IndexingCompleted
  <2>1. /\ Receive("IndexSource") \/ Receive("IndexingCompleted")
        /\ up /\ UNCHANGED <<up, tick, running, tickers>>
    BY <1>6 DEF IndexSource, IndexingCompleted, Receive
  <2>2. StartIsTold => StartIsTold'
    BY <2>1, ReceiveKeepsStart
  <2>3. QED
    BY <2>1, <2>2 DEF LoopIsDriven
<1>7. QED
  BY <1>2, <1>3, <1>4, <1>5, <1>6 DEF Handler

LEMMA IndexersDriven ==
  ASSUME DriveInv, NEW i \in Indexers, IndexerStep(i)
  PROVE  LoopIsDriven'
<1> USE DEF DriveInv, rowVars, tickVars, schedulerVars
<1>1. UNCHANGED <<up, tick, running, tickers>>
  BY DEF IndexerStep, StartIndexing, ExecuteIndexing, UpdateLastIndexed, TellIndexingCompleted
<1>2. UNCHANGED mailbox \/ \E m \in Message : Tell(m)
  <2>1. CASE TellIndexingCompleted(i)
    <3>1. indexer[i].source \in Sources
      BY <2>1 DEF TellIndexingCompleted, TypeInv, UsedHaveSource
    <3>2. QED
      BY <2>1, <3>1, MessageFacts DEF TellIndexingCompleted, Completed
  <2>2. QED
    BY <2>1 DEF IndexerStep, StartIndexing, ExecuteIndexing, UpdateLastIndexed
<1>3. QED
  BY <1>1, <1>2, TellingDrives

LEMMA EnvironmentDriven ==
  ASSUME DriveInv, Environment
  PROVE  LoopIsDriven'
<1> USE DEF DriveInv, rowVars, tickVars, schedulerVars
<1>1. CASE RestartScheduler
  <2>1. PICK m \in Message : m = Start /\ m.kind = "StartScheduler"
    BY MessageFacts DEF Start
  <2>2. running' = FALSE /\ tick' = "idle"
    BY <1>1 DEF RestartScheduler
  <2>3. CASE Tell(Start) /\ up' = TRUE
    BY <2>1, <2>2, <2>3, TellKeepsStart DEF LoopIsDriven
  <2>4. CASE Len(mailbox) >= MailboxCap /\ up' = FALSE /\ UNCHANGED mailbox
    BY <2>4 DEF LoopIsDriven
  <2>5. QED
    BY <1>1, <2>3, <2>4 DEF RestartScheduler, TellStart
<1>2. CASE Boot
  <2>1. up' /\ running' = FALSE /\ tick' = "idle" /\ mailbox' = <<Start>>
    BY <1>2 DEF Boot
  <2>2. StartIsTold'
    BY <2>1 DEF StartIsTold, Start
  <2>3. QED
    BY <2>1, <2>2 DEF LoopIsDriven
<1>3. CASE TickerFires \/ AskIndexSource
  <2>1. \E m \in Message : Tell(m)
    BY <1>3, MessageFacts DEF TickerFires, AskIndexSource
  <2>2. QED
    BY <1>3, <2>1, TellingDrives DEF TickerFires, AskIndexSource
<1>4. CASE SupervisorTakesSweep \/ SetSourceEnabled \/ TogglePause
           \/ \E s \in Sources : FrequencyElapses(s) \/ FloorElapses(s)
  BY <1>4, TellingDrives DEF SupervisorTakesSweep, SetSourceEnabled, TogglePause,
     FrequencyElapses, FloorElapses
<1>5. QED
  BY <1>1, <1>2, <1>3, <1>4 DEF Environment

LEMMA DriveInvNext == DriveInv /\ [Next]_vars => DriveInv'
<1> SUFFICES ASSUME DriveInv, [Next]_vars PROVE DriveInv'
  OBVIOUS
<1>1. TypeInv'
  BY TypeInvNext DEF DriveInv
<1>2. LoopIsDriven'
  <2>1. CASE UNCHANGED vars
    BY <2>1, TellingDrives DEF vars, tickVars, schedulerVars
  <2>2. QED
    BY <2>1, HandlersDriven, IndexersDriven, EnvironmentDriven DEF Next
<1>3. QED
  BY <1>1, <1>2 DEF DriveInv

\* A scheduler that runs is never left without a ticker loop, which sends its
\* CheckSources, or without the StartScheduler that starts one, and one that
\* has not been started is not in the middle of a tick.  A restart that finds
\* its mailbox full leaves the actor down, not up and idle, and the mailbox
\* then stays full: no later attempt can succeed before the process starts
\* again.
THEOREM SchedulerIsDriven == Spec => []LoopIsDriven
<1>1. DriveInv => LoopIsDriven
  BY DEF DriveInv
<1>2. QED
  BY <1>1, DriveInvInit, DriveInvNext, PTL DEF Spec
==============================================================================
