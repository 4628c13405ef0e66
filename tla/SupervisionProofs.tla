-------------------------- MODULE SupervisionProofs --------------------------
(***************************************************************************)
(* Proofs about Supervision, for every set of actors, every restart limit, *)
(* every limit on self exits and every budget of the environment.          *)
(***************************************************************************)
EXTENDS Supervision, SequenceTheorems, FiniteSetTheorems, TLAPS

(***************************************************************************)
(* Lemmas about the operators                                              *)
(***************************************************************************)

\* A signal is appended and moves none of those that wait.
LEMMA SendFacts ==
  ASSUME NEW signal \in Signal, mailbox \in Seq(Signal), Send(signal)
  PROVE  /\ mailbox' \in Seq(Signal)
         /\ Len(mailbox) \in Nat
         /\ DOMAIN mailbox = 1 .. Len(mailbox)
         /\ DOMAIN mailbox' = 1 .. Len(mailbox) + 1
         /\ \A n \in DOMAIN mailbox : mailbox'[n] = mailbox[n]
         /\ mailbox'[Len(mailbox) + 1] = signal
BY DEF Send

\* Receiving takes the head and moves every other signal one place forward.
LEMMA ReceiveFacts ==
  ASSUME NEW kind, mailbox \in Seq(Signal), Receive(kind)
  PROVE  /\ Head(mailbox) \in Signal /\ Head(mailbox).kind = kind
         /\ Head(mailbox) = mailbox[1]
         /\ mailbox' \in Seq(Signal)
         /\ Len(mailbox) \in Nat \ {0}
         /\ DOMAIN mailbox = 1 .. Len(mailbox)
         /\ DOMAIN mailbox' = 1 .. Len(mailbox) - 1
         /\ \A n \in DOMAIN mailbox' : mailbox'[n] = mailbox[n + 1]
BY HeadTailProperties, LenProperties, EmptySeq DEF Receive

LEMMA SignalFacts ==
  /\ \A c \in Children, normal \in BOOLEAN : LinkDied(c, normal) \in Signal
  /\ \A c \in Children : [kind |-> "RestartActor", child |-> c] \in Signal
  /\ \A c \in Children, ok \in BOOLEAN :
        [kind |-> "RecordRestartOutcome", child |-> c, ok |-> ok] \in Signal
  /\ [kind |-> "GetActorHealth"] \in Signal
  /\ \A m \in Signal :
        m.kind \in {"LinkDied", "RestartActor", "RecordRestartOutcome"} => m.child \in Children
  /\ \A m \in Signal : m.kind = "LinkDied" => m.normal \in BOOLEAN
BY DEF Signal, LinkDied

\* Spending one event keeps the budget's type and touches no other entry.
LEMMA SpendFacts ==
  ASSUME NEW key \in BudgetKeys, budget \in [BudgetKeys -> Nat], Spend(key)
  PROVE  /\ budget' \in [BudgetKeys -> Nat]
         /\ budget'[key] = budget[key] - 1
         /\ \A other \in BudgetKeys \ {key} : budget'[other] = budget[other]
<1>1. budget[key] \in Nat /\ budget[key] > 0
  BY DEF Spend
<1>2. budget[key] - 1 \in Nat
  BY <1>1
<1>3. QED
  BY <1>2 DEF Spend

(***************************************************************************)
(* Type correctness.  A restart task has a child.                          *)
(***************************************************************************)

TasksHaveChild == \A t \in Restarts : restart[t].pc # "unused" => restart[t].child \in Children

TypeInv == TypeOK /\ TasksHaveChild

LEMMA FreshTask == UnusedRestart \in Restart /\ UnusedRestart.pc = "unused"
BY DEF UnusedRestart, Restart

LEMMA TypeInvInit == Init => TypeInv
<1> SUFFICES ASSUME Init PROVE TypeInv
  OBVIOUS
<1>1. TasksHaveChild
  BY FreshTask DEF Init, TasksHaveChild
<1>2. mailbox \in Seq(Signal) /\ self_exits \in Seq(BOOLEAN)
  BY EmptySeq DEF Init
<1>3. restart \in [Restarts -> Restart] /\ spent \in [Children -> 0 .. RestartLimit]
  BY FreshTask, SupervisionAssumption DEF Init
<1>4. QED
  BY <1>1, <1>2, <1>3, SupervisionAssumption DEF Init, TypeInv, TypeOK, Health

LEMMA ExitTyped ==
  ASSUME TypeInv, Exit, UNCHANGED budget
  PROVE  TypeInv'
<1>1. TasksHaveChild'
  BY FreshTask DEF Exit, Fresh, TasksHaveChild
<1>2. mailbox' \in Seq(Signal)
  BY EmptySeq DEF Exit, Fresh
<1>3. restart' \in [Restarts -> Restart] /\ spent' \in [Children -> 0 .. RestartLimit]
  BY FreshTask, SupervisionAssumption DEF Exit, Fresh
<1>4. QED
  BY <1>1, <1>2, <1>3 DEF Exit, Fresh, TypeInv, TypeOK, Health

LEMMA RootTyped ==
  ASSUME TypeInv, RootStep
  PROVE  TypeInv'
<1> USE DEF TypeInv, rootVars, watchdogVars, processVars
<1>1. mailbox' \in Seq(Signal) /\ Head(mailbox) \in Signal
  BY ReceiveFacts DEF RootStep, HandleLinkDied, RestartActor, RecordRestartOutcome,
     GetActorHealth, TypeOK
<1>2. CASE HandleLinkDied
  <2>1. Head(mailbox).child \in Children
    BY <1>1, <1>2, SignalFacts DEF HandleLinkDied, Receive
  <2>2. PICK c \in Children : c = Head(mailbox).child
    BY <2>1
  <2>3. child' \in [Children -> Health]
    BY <1>2, <2>2 DEF HandleLinkDied, TypeOK, Health
  <2>4. spent' \in [Children -> 0 .. RestartLimit]
    <3>1. CASE UNCHANGED spent
      BY <3>1 DEF TypeOK
    <3>2. CASE spent[c] < RestartLimit /\ spent' = [spent EXCEPT ![c] = @ + 1]
      <4>1. spent \in [Children -> 0 .. RestartLimit] /\ spent[c] + 1 \in 0 .. RestartLimit
        BY <3>2, SupervisionAssumption DEF TypeOK
      <4>2. QED
        BY <3>2, <4>1
    <3>3. QED
      BY <1>2, <2>2, <3>1, <3>2 DEF HandleLinkDied, ShouldRestart
  <2>5. unrecoverable' \subseteq Children
    BY <1>2, <2>1 DEF HandleLinkDied, NoteLinkDeath, TypeOK
  <2>6. QED
    BY <1>1, <1>2, <2>3, <2>4, <2>5 DEF HandleLinkDied, TypeOK, TasksHaveChild
<1>3. CASE RestartActor
  <2>1. PICK c \in Children : c = Head(mailbox).child
    BY <1>1, <1>3, SignalFacts DEF RestartActor, Receive
  <2>2. PICK t \in Restarts :
          restart' = [restart EXCEPT ![t] = [pc |-> "killing", child |-> c, ok |-> FALSE]]
    BY <1>3, <2>1 DEF RestartActor
  <2>3. restart' \in [Restarts -> Restart] /\ TasksHaveChild'
    BY <2>2 DEF TypeOK, Restart, TasksHaveChild
  <2>4. QED
    BY <1>1, <1>3, <2>3 DEF RestartActor, TypeOK
<1>4. CASE RecordRestartOutcome
  BY <1>1, <1>4 DEF RecordRestartOutcome, TypeOK, TasksHaveChild
<1>5. CASE GetActorHealth
  BY <1>1, <1>5 DEF GetActorHealth, AnyUnrecoverable, TypeOK, TasksHaveChild
<1>6. QED
  BY <1>2, <1>3, <1>4, <1>5 DEF RootStep

LEMMA DiesTyped ==
  ASSUME TypeInv, NEW c \in Children, Dies(c)
  PROVE  child' \in [Children -> Health] /\ mailbox' \in Seq(Signal)
<1>1. child' \in [Children -> Health]
  BY DEF Dies, TypeInv, TypeOK, Health
<1>2. mailbox' \in Seq(Signal)
  BY SendFacts, SignalFacts DEF Dies, TypeInv, TypeOK
<1>3. QED
  BY <1>1, <1>2

LEMMA RestartsTyped ==
  ASSUME TypeInv, NEW t \in Restarts, RestartStep(t)
  PROVE  TypeInv'
<1> USE DEF TypeInv, rootVars, watchdogVars, processVars
<1>1. PICK c \in Children : c = restart[t].child
  BY DEF RestartStep, KillChild, PollAlive, KickPendingDownloads, TellOutcome, TasksHaveChild
<1>2. restart \in [Restarts -> Restart]
  BY DEF TypeOK
<1>3. CASE KillChild(t)
  <2>1. restart' \in [Restarts -> Restart] /\ TasksHaveChild'
    BY <1>2, <1>3 DEF KillChild, Restart, TasksHaveChild
  <2>2. child' \in [Children -> Health] /\ mailbox' \in Seq(Signal)
    BY <1>1, <1>3, DiesTyped DEF KillChild, TypeOK
  <2>3. QED
    BY <1>3, <2>1, <2>2 DEF KillChild, TypeOK
<1>4. CASE PollAlive(t)
  <2>1. restart' \in [Restarts -> Restart] /\ TasksHaveChild'
    BY <1>2, <1>4 DEF PollAlive, Restart, TasksHaveChild
  <2>2. QED
    BY <1>4, <2>1 DEF PollAlive, TypeOK
<1>5. CASE KickPendingDownloads(t)
  <2>1. restart' \in [Restarts -> Restart] /\ TasksHaveChild'
    BY <1>2, <1>5 DEF KickPendingDownloads, Restart, TasksHaveChild
  <2>2. QED
    BY <1>5, <2>1 DEF KickPendingDownloads, TypeOK
<1>6. CASE TellOutcome(t)
  <2>1. restart' \in [Restarts -> Restart] /\ TasksHaveChild'
    BY <1>2, <1>6, FreshTask DEF TellOutcome, TasksHaveChild
  <2>2. restart[t].ok \in BOOLEAN
    BY <1>2 DEF Restart
  <2>3. mailbox' \in Seq(Signal)
    BY <1>1, <1>6, <2>2, SendFacts, SignalFacts DEF TellOutcome, TypeOK
  <2>4. QED
    BY <1>6, <2>1, <2>3 DEF TellOutcome, TypeOK
<1>7. QED
  BY <1>3, <1>4, <1>5, <1>6 DEF RestartStep

LEMMA WatchdogTyped ==
  ASSUME TypeInv, WatchdogStep
  PROVE  TypeInv'
<1> USE DEF TypeInv, rootVars, watchdogVars, processVars
<1>1. CASE AskActorHealth
  <2>1. mailbox' \in Seq(Signal)
    BY <1>1, SendFacts, SignalFacts DEF AskActorHealth, TypeOK
  <2>2. QED
    BY <1>1, <2>1 DEF AskActorHealth, TypeOK, TasksHaveChild
<1>2. CASE Evaluate
  <2>1. budget' \in [BudgetKeys -> Nat]
    BY <1>2, SpendFacts DEF Evaluate, TypeOK, BudgetKeys
  <2>2. watchdog' \in {"sleeping", "logging"} /\ alive' \in BOOLEAN /\ seen_dead' \in BOOLEAN
    BY <1>2 DEF Evaluate
  <2>3. QED
    BY <1>2, <2>1, <2>2 DEF Evaluate, TypeOK, TasksHaveChild
<1>3. CASE LogSelfRestart
  <2>1. budget' \in [BudgetKeys -> Nat]
    BY <1>3, SpendFacts DEF LogSelfRestart, TypeOK, BudgetKeys
  <2>2. self_exits' \in Seq(BOOLEAN)
    <3>1. self_exits \in Seq(BOOLEAN) /\ TRUE \in BOOLEAN /\ FALSE \in BOOLEAN
      BY DEF TypeOK
    <3>2. self_exits' = Append(self_exits, TRUE) \/ self_exits' = Append(self_exits, FALSE)
      BY <1>3 DEF LogSelfRestart
    <3>3. Append(self_exits, TRUE) \in Seq(BOOLEAN) /\ Append(self_exits, FALSE) \in Seq(BOOLEAN)
      BY <3>1, AppendProperties
    <3>4. QED
      BY <3>2, <3>3
  <2>3. QED
    BY <1>3, <2>1, <2>2 DEF LogSelfRestart, TypeOK, TasksHaveChild
<1>4. CASE BeginSelfExitDrain
  BY <1>4 DEF BeginSelfExitDrain, Begin, TypeOK, TasksHaveChild
<1>5. CASE SelfExit
  BY <1>5, ExitTyped DEF SelfExit
<1>6. QED
  BY <1>1, <1>2, <1>3, <1>4, <1>5 DEF WatchdogStep

LEMMA MainTyped ==
  ASSUME TypeInv, DrainProbe \/ MainStep
  PROVE  TypeInv'
<1> USE DEF TypeInv, rootVars, watchdogVars, processVars
<1>1. CASE DrainProbe
  BY <1>1 DEF DrainProbe, TypeOK, TasksHaveChild
<1>2. CASE StartShutdown
  BY <1>2 DEF StartShutdown, TypeOK, TasksHaveChild
<1>3. CASE StopChild
  <2>1. PICK c \in to_stop :
          /\ to_stop' = to_stop \ {c}
          /\ \/ child' = [child EXCEPT ![c] = "stopped"] /\ Send(LinkDied(c, TRUE))
             \/ UNCHANGED <<child, mailbox>>
    BY <1>3 DEF StopChild
  <2>2. c \in Children /\ child \in [Children -> Health] /\ mailbox \in Seq(Signal)
    BY DEF TypeOK
  <2>3. child' \in [Children -> Health]
    BY <2>1, <2>2 DEF Health
  <2>4. mailbox' \in Seq(Signal)
    BY <2>1, <2>2, SendFacts, SignalFacts
  <2>5. QED
    BY <1>3, <2>1, <2>3, <2>4 DEF StopChild, TypeOK, TasksHaveChild
<1>4. CASE FinishShutdown
  BY <1>4, ExitTyped DEF FinishShutdown
<1>5. QED
  BY <1>1, <1>2, <1>3, <1>4 DEF MainStep

LEMMA EnvironmentTyped ==
  ASSUME TypeInv, Clocks \/ Environment
  PROVE  TypeInv'
<1> USE DEF TypeInv, rootVars, watchdogVars, processVars
<1>1. CASE UptimeGrows
  BY <1>1 DEF UptimeGrows, TypeOK, TasksHaveChild
<1>2. CASE DrainDeadlinePasses
  BY <1>2 DEF DrainDeadlinePasses, TypeOK, TasksHaveChild
<1>3. CASE HourElapses
  <2>1. self_exits' \in Seq(BOOLEAN)
    BY <1>3, HeadTailProperties DEF HourElapses, TypeOK
  <2>2. QED
    BY <1>3, <2>1 DEF HourElapses, TypeOK, TasksHaveChild
<1>4. ASSUME NEW c \in Children, RestartWindowElapses(c) PROVE TypeInv'
  <2>1. spent' \in [Children -> 0 .. RestartLimit]
    BY <1>4, SupervisionAssumption DEF RestartWindowElapses, TypeOK
  <2>2. QED
    BY <1>4, <2>1 DEF RestartWindowElapses, TypeOK, TasksHaveChild
<1>5. CASE AskShutdown
  <2>1. budget' \in [BudgetKeys -> Nat]
    BY <1>5, SpendFacts DEF AskShutdown, TypeOK, BudgetKeys
  <2>2. QED
    BY <1>5, <2>1 DEF AskShutdown, Begin, TypeOK, TasksHaveChild
<1>6. CASE ContainerRestarts
  BY <1>6 DEF ContainerRestarts, TypeOK, TasksHaveChild
<1>7. ASSUME NEW c \in Children, Panic(c) PROVE TypeInv'
  <2>1. budget' \in [BudgetKeys -> Nat]
    BY <1>7, SpendFacts DEF Panic, TypeOK, BudgetKeys
  <2>2. child' \in [Children -> Health] /\ mailbox' \in Seq(Signal)
    BY <1>7, DiesTyped DEF Panic
  <2>3. QED
    BY <1>7, <2>1, <2>2 DEF Panic, TypeOK, TasksHaveChild
<1>8. ASSUME NEW c \in Children, AskRestartActor(c) PROVE TypeInv'
  <2>1. budget' \in [BudgetKeys -> Nat]
    BY <1>8, SpendFacts DEF AskRestartActor, TypeOK, BudgetKeys
  <2>2. mailbox' \in Seq(Signal)
    BY <1>8, SendFacts, SignalFacts DEF AskRestartActor, TypeOK
  <2>3. QED
    BY <1>8, <2>1, <2>2 DEF AskRestartActor, TypeOK, TasksHaveChild
<1>9. QED
  BY <1>1, <1>2, <1>3, <1>4, <1>5, <1>6, <1>7, <1>8 DEF Clocks, Environment

LEMMA TypeInvNext == TypeInv /\ [Next]_vars => TypeInv'
<1>1. CASE UNCHANGED vars
  BY <1>1 DEF TypeInv, TypeOK, TasksHaveChild, vars, rootVars, watchdogVars, processVars
<1>2. QED
  BY <1>1, RootTyped, RestartsTyped, WatchdogTyped, MainTyped, EnvironmentTyped DEF Next

(***************************************************************************)
(* HealthIsTrue.  The health report changes on signals, so the invariant   *)
(* says what the signals that wait promise: an abnormal link death is of a *)
(* child that is dying and is told once, so no second signal finds the     *)
(* child in another state; a normal one is of a child that was stopped;    *)
(* and only an operator's request starts what removes a child from the     *)
(* report.                                                                 *)
(***************************************************************************)

Death(n) == mailbox[n].kind = "LinkDied" /\ ~mailbox[n].normal

DeathsAreReal ==
  \A n \in DOMAIN mailbox :
    mailbox[n].kind = "LinkDied" =>
      child[mailbox[n].child] = IF mailbox[n].normal THEN "stopped" ELSE "dying"

DeathsToldOnce ==
  \A n, m \in DOMAIN mailbox :
    Death(n) /\ Death(m) /\ mailbox[n].child = mailbox[m].child => n = m

RequestsAsked ==
  \A n \in DOMAIN mailbox :
    mailbox[n].kind \in {"RestartActor", "RecordRestartOutcome"} => mailbox[n].child \in asked

TasksAsked == \A t \in Restarts : restart[t].pc # "unused" => restart[t].child \in asked

MailInv == DeathsAreReal /\ DeathsToldOnce /\ RequestsAsked

HealthInv == TypeInv /\ MailInv /\ TasksAsked /\ HealthIsTrue

LEMMA HealthInvInit == Init => HealthInv
<1> SUFFICES ASSUME Init PROVE HealthInv
  OBVIOUS
<1>1. DOMAIN mailbox = {}
  BY DEF Init
<1>2. MailInv
  BY <1>1 DEF MailInv, DeathsAreReal, DeathsToldOnce, RequestsAsked
<1>3. TasksAsked /\ HealthIsTrue
  BY FreshTask DEF Init, TasksAsked, HealthIsTrue
<1>4. QED
  BY <1>2, <1>3, TypeInvInit DEF HealthInv

\* A signal that tells no death leaves the deaths alone.
LEMMA QuietSend ==
  ASSUME TypeInv, MailInv, NEW signal \in Signal, Send(signal), UNCHANGED child,
         signal.kind # "LinkDied", asked \subseteq asked',
         signal.kind \in {"RestartActor", "RecordRestartOutcome"} => signal.child \in asked'
  PROVE  MailInv'
<1> USE DEF MailInv
<1>1. /\ Len(mailbox) \in Nat
      /\ DOMAIN mailbox = 1 .. Len(mailbox) /\ DOMAIN mailbox' = 1 .. Len(mailbox) + 1
      /\ \A n \in DOMAIN mailbox : mailbox'[n] = mailbox[n]
      /\ mailbox'[Len(mailbox) + 1] = signal
  BY SendFacts DEF TypeInv, TypeOK
<1>2. \A n \in DOMAIN mailbox' : n \in DOMAIN mailbox \/ n = Len(mailbox) + 1
  BY <1>1
<1>3. DeathsAreReal'
  BY <1>1, <1>2 DEF DeathsAreReal
<1>4. DeathsToldOnce'
  BY <1>1, <1>2 DEF DeathsToldOnce, Death
<1>5. RequestsAsked'
  BY <1>1, <1>2 DEF RequestsAsked
<1>6. QED
  BY <1>3, <1>4, <1>5

\* Receiving a signal that changes no child.
LEMMA QuietReceive ==
  ASSUME TypeInv, MailInv, NEW kind, Receive(kind), UNCHANGED <<child, asked>>
  PROVE  MailInv'
<1> USE DEF MailInv
<1>1. /\ Len(mailbox) \in Nat \ {0}
      /\ DOMAIN mailbox = 1 .. Len(mailbox) /\ DOMAIN mailbox' = 1 .. Len(mailbox) - 1
      /\ \A n \in DOMAIN mailbox' : mailbox'[n] = mailbox[n + 1]
  BY ReceiveFacts DEF TypeInv, TypeOK
<1>2. \A n \in DOMAIN mailbox' : n \in Nat /\ n + 1 \in DOMAIN mailbox
  BY <1>1
<1>3. DeathsAreReal'
  BY <1>1, <1>2 DEF DeathsAreReal
<1>4. DeathsToldOnce'
  BY <1>1, <1>2 DEF DeathsToldOnce, Death
<1>5. RequestsAsked'
  BY <1>1, <1>2 DEF RequestsAsked
<1>6. QED
  BY <1>3, <1>4, <1>5

\* A child that was up has told nothing, so its end is told once.
LEMMA EndIsTold ==
  ASSUME TypeInv, MailInv, NEW c \in Children, NEW normal \in BOOLEAN, child[c] = "up",
         child' = [child EXCEPT ![c] = IF normal THEN "stopped" ELSE "dying"],
         Send(LinkDied(c, normal)), UNCHANGED asked
  PROVE  MailInv'
<1> USE DEF MailInv
<1>1. LinkDied(c, normal) \in Signal
  BY SignalFacts
<1>2. /\ Len(mailbox) \in Nat
      /\ DOMAIN mailbox = 1 .. Len(mailbox) /\ DOMAIN mailbox' = 1 .. Len(mailbox) + 1
      /\ \A n \in DOMAIN mailbox : mailbox'[n] = mailbox[n] /\ mailbox[n] \in Signal
      /\ mailbox'[Len(mailbox) + 1] = LinkDied(c, normal)
  BY <1>1, SendFacts DEF TypeInv, TypeOK
<1>3. \A n \in DOMAIN mailbox' : n \in DOMAIN mailbox \/ n = Len(mailbox) + 1
  BY <1>2
<1>4. child \in [Children -> Health]
  BY DEF TypeInv, TypeOK
<1>5. \A n \in DOMAIN mailbox : mailbox[n].kind = "LinkDied" =>
         mailbox[n].child \in Children /\ mailbox[n].child # c
  BY <1>2, SignalFacts DEF DeathsAreReal
<1>6. DeathsAreReal'
  BY <1>2, <1>3, <1>4, <1>5 DEF DeathsAreReal, LinkDied
<1>7. DeathsToldOnce'
  BY <1>2, <1>3, <1>5 DEF DeathsToldOnce, Death, LinkDied
<1>8. RequestsAsked'
  BY <1>2, <1>3 DEF RequestsAsked, LinkDied
<1>9. QED
  BY <1>6, <1>7, <1>8

\* No task is begun, none changes its child.
LEMMA TasksKept ==
  ASSUME TasksAsked, UNCHANGED restart, asked \subseteq asked'
  PROVE  TasksAsked'
BY DEF TasksAsked

\* The report is as true as before: the same children are beyond recovery.
LEMMA ReportKept ==
  ASSUME HealthIsTrue, TypeInv, UNCHANGED unrecoverable, asked \subseteq asked',
         \A c \in Children : child'[c] = "gone" <=> child[c] = "gone"
  PROVE  HealthIsTrue'
BY DEF HealthIsTrue, TypeInv, TypeOK

LEMMA ExitHealthy ==
  ASSUME Exit
  PROVE  MailInv' /\ TasksAsked' /\ HealthIsTrue'
<1>1. DOMAIN mailbox' = {}
  BY DEF Exit, Fresh
<1>2. MailInv'
  BY <1>1 DEF MailInv, DeathsAreReal, DeathsToldOnce, RequestsAsked
<1>3. TasksAsked' /\ HealthIsTrue'
  BY FreshTask DEF Exit, Fresh, TasksAsked, HealthIsTrue
<1>4. QED
  BY <1>2, <1>3

LEMMA LinkDeathHealthy ==
  ASSUME HealthInv, HandleLinkDied
  PROVE  MailInv' /\ TasksAsked' /\ HealthIsTrue'
<1> USE DEF HealthInv, MailInv
<1>1. /\ Head(mailbox) = mailbox[1] /\ mailbox[1] \in Signal /\ mailbox[1].kind = "LinkDied"
      /\ Len(mailbox) \in Nat \ {0}
      /\ DOMAIN mailbox = 1 .. Len(mailbox) /\ DOMAIN mailbox' = 1 .. Len(mailbox) - 1
      /\ \A n \in DOMAIN mailbox' : mailbox'[n] = mailbox[n + 1]
  BY ReceiveFacts DEF HandleLinkDied, TypeInv, TypeOK
<1>2. PICK c \in Children : c = mailbox[1].child
  BY <1>1, SignalFacts
<1>3. PICK normal \in BOOLEAN : normal = mailbox[1].normal
  BY <1>1, SignalFacts
<1>4. /\ child \in [Children -> Health] /\ unrecoverable \subseteq Children
      /\ child[c] = IF normal THEN "stopped" ELSE "dying"
      /\ UNCHANGED <<restart, asked>>
  <2>1. 1 \in DOMAIN mailbox
    BY <1>1
  <2>2. child[c] = IF normal THEN "stopped" ELSE "dying"
    BY <1>1, <1>2, <1>3, <2>1 DEF DeathsAreReal
  <2>3. child \in [Children -> Health] /\ unrecoverable \subseteq Children
    BY DEF TypeInv, TypeOK
  <2>4. QED
    BY <2>2, <2>3 DEF HandleLinkDied
<1>5. \A n \in DOMAIN mailbox' : n \in Nat /\ n + 1 \in DOMAIN mailbox /\ n + 1 # 1
  BY <1>1
<1>6. TasksAsked'
  BY <1>4, TasksKept
<1>7. CASE normal
  <2>1. UNCHANGED <<child, unrecoverable>>
    BY <1>1, <1>2, <1>3, <1>7 DEF HandleLinkDied, ShouldRestart, NoteLinkDeath
  <2>2. MailInv'
    BY <1>4, <2>1, QuietReceive DEF HandleLinkDied
  <2>3. HealthIsTrue'
    BY <1>4, <2>1, ReportKept
  <2>4. QED
    BY <1>6, <2>2, <2>3
<1>8. CASE ~normal
  <2>1. Death(1)
    BY <1>1, <1>3, <1>8 DEF Death
  <2>2. \A n \in DOMAIN mailbox : Death(n) /\ n # 1 => mailbox[n].child # c
    BY <1>1, <1>2, <2>1 DEF DeathsToldOnce
  <2>3. \A d \in Children : d # c => child'[d] = child[d]
    BY <1>1, <1>2, <1>4 DEF HandleLinkDied
  <2>4. \A n \in DOMAIN mailbox : mailbox[n].kind = "LinkDied" =>
           mailbox[n].child \in Children /\ mailbox[n].normal \in BOOLEAN
    <3>1. \A n \in DOMAIN mailbox : mailbox[n] \in Signal
      BY DEF TypeInv, TypeOK
    <3>2. QED
      BY <3>1, SignalFacts
  <2>5. \A n \in DOMAIN mailbox : mailbox[n].kind = "LinkDied" /\ n # 1 => mailbox[n].child # c
    BY <1>4, <1>8, <2>2, <2>4 DEF DeathsAreReal, Death
  <2>6. DeathsAreReal'
    BY <1>1, <1>5, <2>3, <2>4, <2>5 DEF DeathsAreReal
  <2>7. DeathsToldOnce'
    BY <1>1, <1>5 DEF DeathsToldOnce, Death
  <2>8. RequestsAsked'
    BY <1>1, <1>4, <1>5 DEF RequestsAsked
  <2>9. HealthIsTrue'
    <3>1. c \notin unrecoverable
      BY <1>4, <1>8 DEF HealthIsTrue
    <3>2. \/ child'[c] = "up" /\ unrecoverable' = unrecoverable
          \/ child'[c] = "gone" /\ unrecoverable' = unrecoverable \cup {c}
      BY <1>1, <1>2, <1>3, <1>4, <1>8 DEF HandleLinkDied, NoteLinkDeath
    <3>3. QED
      BY <1>4, <2>3, <3>1, <3>2 DEF HealthIsTrue
  <2>10. QED
    BY <1>6, <2>6, <2>7, <2>8, <2>9
<1>9. QED
  BY <1>7, <1>8

LEMMA RootHealthy ==
  ASSUME HealthInv, RootStep
  PROVE  MailInv' /\ TasksAsked' /\ HealthIsTrue'
<1> USE DEF HealthInv, rootVars
<1>1. CASE HandleLinkDied
  BY <1>1, LinkDeathHealthy
<1>2. CASE RestartActor
  <2>1. MailInv' /\ HealthIsTrue'
    BY <1>2, QuietReceive, ReportKept DEF RestartActor
  <2>2. Head(mailbox).child \in asked
    BY <1>2, ReceiveFacts DEF RestartActor, MailInv, RequestsAsked, TypeInv, TypeOK
  <2>3. TasksAsked'
    BY <1>2, <2>2 DEF RestartActor, TasksAsked, TypeInv, TypeOK
  <2>4. QED
    BY <2>1, <2>3
<1>3. CASE RecordRestartOutcome
  <2>1. MailInv' /\ TasksAsked'
    BY <1>3, QuietReceive, TasksKept DEF RecordRestartOutcome
  <2>2. Head(mailbox).child \in asked
    BY <1>3, ReceiveFacts DEF RecordRestartOutcome, MailInv, RequestsAsked, TypeInv, TypeOK
  <2>3. HealthIsTrue'
    BY <1>3, <2>2 DEF RecordRestartOutcome, HealthIsTrue
  <2>4. QED
    BY <2>1, <2>3
<1>4. CASE GetActorHealth
  BY <1>4, QuietReceive, TasksKept, ReportKept DEF GetActorHealth
<1>5. QED
  BY <1>1, <1>2, <1>3, <1>4 DEF RootStep

LEMMA DiesHealthy ==
  ASSUME HealthInv, NEW c \in Children, child[c] = "up", Dies(c), UNCHANGED <<unrecoverable, asked>>
  PROVE  MailInv' /\ HealthIsTrue'
<1>1. MailInv'
  BY EndIsTold DEF HealthInv, Dies
<1>2. HealthIsTrue'
  BY ReportKept DEF HealthInv, Dies, TypeInv, TypeOK
<1>3. QED
  BY <1>1, <1>2

LEMMA RestartsHealthy ==
  ASSUME HealthInv, NEW t \in Restarts, RestartStep(t)
  PROVE  MailInv' /\ TasksAsked' /\ HealthIsTrue'
<1> USE DEF HealthInv, rootVars
<1>1. restart[t].pc # "unused"
  BY DEF RestartStep, KillChild, PollAlive, KickPendingDownloads, TellOutcome
<1>2. PICK c \in Children : c = restart[t].child
  BY <1>1 DEF TypeInv, TasksHaveChild
<1>3. c \in asked /\ restart \in [Restarts -> Restart]
  BY <1>1, <1>2 DEF TasksAsked, TypeInv, TypeOK
<1>4. TasksAsked'
  <2>1. UNCHANGED asked
    BY DEF RestartStep, KillChild, PollAlive, KickPendingDownloads, TellOutcome
  <2>2. \A other \in Restarts \ {t} : restart'[other] = restart[other]
    BY <1>3 DEF RestartStep, KillChild, PollAlive, KickPendingDownloads, TellOutcome
  <2>3. restart'[t] = UnusedRestart \/ restart'[t].child = c
    <3>1. CASE KillChild(t)
      BY <1>2, <1>3, <3>1 DEF KillChild, Restart
    <3>2. CASE PollAlive(t)
      BY <1>2, <1>3, <3>2 DEF PollAlive, Restart
    <3>3. CASE KickPendingDownloads(t)
      BY <1>2, <1>3, <3>3 DEF KickPendingDownloads, Restart
    <3>4. CASE TellOutcome(t)
      BY <1>3, <3>4 DEF TellOutcome
    <3>5. QED
      BY <3>1, <3>2, <3>3, <3>4 DEF RestartStep
  <2>4. QED
    BY <1>3, <2>1, <2>2, <2>3, FreshTask DEF TasksAsked
<1>5. CASE KillChild(t)
  <2>1. CASE child[c] = "up" /\ Dies(c)
    BY <1>4, <1>5, <2>1, DiesHealthy DEF KillChild
  <2>2. CASE UNCHANGED <<child, mailbox>>
    <3>1. MailInv'
      BY <1>5, <2>2 DEF KillChild, MailInv, DeathsAreReal, DeathsToldOnce, Death, RequestsAsked
    <3>2. QED
      BY <1>4, <1>5, <2>2, <3>1, ReportKept DEF KillChild
  <2>3. QED
    BY <1>2, <1>5, <2>1, <2>2 DEF KillChild
<1>6. CASE PollAlive(t) \/ KickPendingDownloads(t)
  <2>1. UNCHANGED <<child, unrecoverable, mailbox, asked>>
    BY <1>6 DEF PollAlive, KickPendingDownloads
  <2>2. MailInv'
    BY <2>1 DEF MailInv, DeathsAreReal, DeathsToldOnce, Death, RequestsAsked
  <2>3. QED
    BY <1>4, <2>1, <2>2, ReportKept
<1>7. CASE TellOutcome(t)
  <2>1. PICK signal \in Signal :
          signal = [kind |-> "RecordRestartOutcome", child |-> c, ok |-> restart[t].ok]
    BY <1>3, SignalFacts DEF Restart
  <2>2. MailInv'
    BY <1>2, <1>3, <1>7, <2>1, QuietSend DEF TellOutcome
  <2>3. QED
    BY <1>4, <1>7, <2>2, ReportKept DEF TellOutcome
<1>8. QED
  BY <1>5, <1>6, <1>7 DEF RestartStep

LEMMA WatchdogHealthy ==
  ASSUME HealthInv, WatchdogStep
  PROVE  MailInv' /\ TasksAsked' /\ HealthIsTrue'
<1> USE DEF HealthInv, rootVars
<1>1. CASE AskActorHealth
  <2>1. PICK signal \in Signal : signal = [kind |-> "GetActorHealth"]
    BY SignalFacts
  <2>2. MailInv'
    BY <1>1, <2>1, QuietSend DEF AskActorHealth
  <2>3. QED
    BY <1>1, <2>2, TasksKept, ReportKept DEF AskActorHealth
<1>2. CASE Evaluate \/ LogSelfRestart \/ BeginSelfExitDrain
  <2>1. UNCHANGED <<child, unrecoverable, mailbox, restart, asked>>
    BY <1>2 DEF Evaluate, LogSelfRestart, BeginSelfExitDrain
  <2>2. MailInv'
    BY <2>1 DEF MailInv, DeathsAreReal, DeathsToldOnce, Death, RequestsAsked
  <2>3. QED
    BY <2>1, <2>2, TasksKept, ReportKept
<1>3. CASE SelfExit
  BY <1>3, ExitHealthy DEF SelfExit
<1>4. QED
  BY <1>1, <1>2, <1>3 DEF WatchdogStep

LEMMA MainHealthy ==
  ASSUME HealthInv, DrainProbe \/ MainStep
  PROVE  MailInv' /\ TasksAsked' /\ HealthIsTrue'
<1> USE DEF HealthInv, rootVars
<1>1. CASE DrainProbe \/ StartShutdown
  <2>1. UNCHANGED <<child, unrecoverable, mailbox, restart, asked>>
    BY <1>1 DEF DrainProbe, StartShutdown
  <2>2. MailInv'
    BY <2>1 DEF MailInv, DeathsAreReal, DeathsToldOnce, Death, RequestsAsked
  <2>3. QED
    BY <2>1, <2>2, TasksKept, ReportKept
<1>2. CASE StopChild
  <2>1. PICK c \in to_stop :
          \/ /\ child[c] = "up"
             /\ child' = [child EXCEPT ![c] = "stopped"] /\ Send(LinkDied(c, TRUE))
          \/ UNCHANGED <<child, mailbox>>
    BY <1>2 DEF StopChild
  <2>2. c \in Children /\ child \in [Children -> Health]
    BY DEF TypeInv, TypeOK
  <2>3. UNCHANGED <<unrecoverable, restart, asked>>
    BY <1>2 DEF StopChild
  <2>4. MailInv'
    <3>1. CASE UNCHANGED <<child, mailbox>>
      BY <2>3, <3>1 DEF MailInv, DeathsAreReal, DeathsToldOnce, Death, RequestsAsked
    <3>2. QED
      BY <2>1, <2>2, <2>3, <3>1, EndIsTold
  <2>5. QED
    BY <2>1, <2>2, <2>3, <2>4, TasksKept, ReportKept
<1>3. CASE FinishShutdown
  BY <1>3, ExitHealthy DEF FinishShutdown
<1>4. QED
  BY <1>1, <1>2, <1>3 DEF MainStep

LEMMA EnvironmentHealthy ==
  ASSUME HealthInv, Clocks \/ Environment
  PROVE  MailInv' /\ TasksAsked' /\ HealthIsTrue'
<1> USE DEF HealthInv, rootVars
<1>1. ASSUME UNCHANGED <<child, unrecoverable, mailbox, restart, asked>>
      PROVE  MailInv' /\ TasksAsked' /\ HealthIsTrue'
  <2>1. MailInv'
    BY <1>1 DEF MailInv, DeathsAreReal, DeathsToldOnce, Death, RequestsAsked
  <2>2. QED
    BY <1>1, <2>1, TasksKept, ReportKept
<1>2. CASE Clocks
  BY <1>1, <1>2 DEF Clocks, UptimeGrows, DrainDeadlinePasses, HourElapses, RestartWindowElapses
<1>3. CASE AskShutdown \/ ContainerRestarts
  BY <1>1, <1>3 DEF AskShutdown, ContainerRestarts
<1>4. ASSUME NEW c \in Children, Panic(c) PROVE MailInv' /\ TasksAsked' /\ HealthIsTrue'
  BY <1>4, DiesHealthy, TasksKept DEF Panic
<1>5. ASSUME NEW c \in Children, AskRestartActor(c)
      PROVE  MailInv' /\ TasksAsked' /\ HealthIsTrue'
  <2>1. PICK signal \in Signal : signal = [kind |-> "RestartActor", child |-> c]
    BY SignalFacts
  <2>2. MailInv'
    BY <1>5, <2>1, QuietSend DEF AskRestartActor
  <2>3. QED
    BY <1>5, <2>2, TasksKept, ReportKept DEF AskRestartActor
<1>6. QED
  BY <1>2, <1>3, <1>4, <1>5 DEF Environment

LEMMA HealthInvNext == HealthInv /\ [Next]_vars => HealthInv'
<1> SUFFICES ASSUME HealthInv, [Next]_vars PROVE HealthInv'
  OBVIOUS
<1>1. TypeInv'
  BY TypeInvNext DEF HealthInv
<1>2. MailInv' /\ TasksAsked' /\ HealthIsTrue'
  <2>1. CASE UNCHANGED vars
    BY <2>1 DEF vars, rootVars, HealthInv, MailInv, DeathsAreReal, DeathsToldOnce, Death,
       RequestsAsked, TasksAsked, HealthIsTrue
  <2>2. QED
    BY <2>1, RootHealthy, RestartsHealthy, WatchdogHealthy, MainHealthy, EnvironmentHealthy
    DEF Next
<1>3. QED
  BY <1>1, <1>2 DEF HealthInv

\* The `unrecoverable` of a health report, on which alone the watchdog ends
\* the process, is true: no child that runs, is being restarted or was
\* stopped is given up, and none that kameo gave up is missing unless an
\* operator asked for its restart, however deaths, restarts, requests,
\* shutdowns and process exits interleave.
THEOREM HealthReportIsTrue == Spec => []HealthIsTrue
<1>1. HealthInv => HealthIsTrue
  BY DEF HealthInv
<1>2. QED
  BY <1>1, HealthInvInit, HealthInvNext, PTL DEF Spec

(***************************************************************************)
(* What SelfHeals and DrainEndsProcess rest on: nothing waits for a signal *)
(* that nobody sent.  A dying child has its death in the root's mailbox,   *)
(* the watchdog that waits for a report has one question there, a self     *)
(* exit waits for a drain that began, and a shutdown for no child that was *)
(* stopped before.                                                         *)
(***************************************************************************)

Told(c) == \E n \in DOMAIN mailbox : Death(n) /\ mailbox[n].child = c

DyingAreTold == \A c \in Children : child[c] = "dying" => Told(c)

Poll(n) == mailbox[n].kind = "GetActorHealth"

PollIsPending ==
  /\ watchdog = "asking" <=> \E n \in DOMAIN mailbox : Poll(n)
  /\ \A n, m \in DOMAIN mailbox : Poll(n) /\ Poll(m) => n = m

DrainIsTaken ==
  /\ watchdog = "draining" => drain # "none"
  /\ process = "stopping" => drain = "complete"

StoppedOnce ==
  \A c \in Children : child[c] = "stopped" => process = "stopping" /\ c \notin to_stop

NothingStalls == DyingAreTold /\ PollIsPending /\ DrainIsTaken /\ StoppedOnce

StallInv == HealthInv /\ NothingStalls

LEMMA StallInvInit == Init => StallInv
<1> SUFFICES ASSUME Init PROVE StallInv
  OBVIOUS
<1>1. DOMAIN mailbox = {}
  BY DEF Init
<1>2. DyingAreTold /\ StoppedOnce /\ DrainIsTaken
  BY DEF Init, DyingAreTold, StoppedOnce, DrainIsTaken
<1>3. PollIsPending
  BY <1>1 DEF Init, PollIsPending
<1>4. QED
  BY <1>2, <1>3, HealthInvInit DEF StallInv, NothingStalls

LEMMA ExitClears == Exit => NothingStalls'
<1> SUFFICES ASSUME Exit PROVE NothingStalls'
  OBVIOUS
<1>1. DOMAIN mailbox' = {}
  BY DEF Exit, Fresh
<1>2. DyingAreTold' /\ StoppedOnce' /\ DrainIsTaken'
  BY DEF Exit, Fresh, DyingAreTold, StoppedOnce, DrainIsTaken
<1>3. PollIsPending'
  BY <1>1 DEF Exit, Fresh, PollIsPending
<1>4. QED
  BY <1>2, <1>3 DEF NothingStalls

\* A signal that is sent hides no death; it may tell of one.
LEMMA SendTells ==
  ASSUME TypeInv, DyingAreTold, NEW signal \in Signal, Send(signal),
         \A c \in Children : child'[c] = "dying" =>
            \/ child[c] = "dying"
            \/ signal.kind = "LinkDied" /\ ~signal.normal /\ signal.child = c
  PROVE  DyingAreTold'
<1>1. /\ Len(mailbox) \in Nat
      /\ DOMAIN mailbox = 1 .. Len(mailbox) /\ DOMAIN mailbox' = 1 .. Len(mailbox) + 1
      /\ \A n \in DOMAIN mailbox : mailbox'[n] = mailbox[n]
      /\ mailbox'[Len(mailbox) + 1] = signal
  BY SendFacts DEF TypeInv, TypeOK
<1>2. /\ \A n \in DOMAIN mailbox : n \in DOMAIN mailbox'
      /\ Len(mailbox) + 1 \in DOMAIN mailbox'
  BY <1>1
<1>3. SUFFICES ASSUME NEW c \in Children, child'[c] = "dying"
               PROVE  \E n \in DOMAIN mailbox' : Death(n)' /\ mailbox'[n].child = c
  BY DEF DyingAreTold, Told
<1>4. CASE child[c] = "dying"
  BY <1>1, <1>2, <1>4 DEF DyingAreTold, Told, Death
<1>5. CASE signal.kind = "LinkDied" /\ ~signal.normal /\ signal.child = c
  BY <1>1, <1>2, <1>5 DEF Death
<1>6. QED
  BY <1>3, <1>4, <1>5

\* The root supervisor takes the death of a child that it then decides about.
LEMMA ReceiveTells ==
  ASSUME TypeInv, DyingAreTold, NEW kind, Receive(kind),
         \A c \in Children : child'[c] = "dying" =>
            child[c] = "dying" /\ ~(Death(1) /\ mailbox[1].child = c)
  PROVE  DyingAreTold'
<1>1. /\ Len(mailbox) \in Nat \ {0}
      /\ DOMAIN mailbox = 1 .. Len(mailbox) /\ DOMAIN mailbox' = 1 .. Len(mailbox) - 1
      /\ \A n \in DOMAIN mailbox' : mailbox'[n] = mailbox[n + 1]
  BY ReceiveFacts DEF TypeInv, TypeOK
<1>2. SUFFICES ASSUME NEW c \in Children, child'[c] = "dying"
               PROVE  \E n \in DOMAIN mailbox' : Death(n)' /\ mailbox'[n].child = c
  BY DEF DyingAreTold, Told
<1>3. PICK n \in DOMAIN mailbox : Death(n) /\ mailbox[n].child = c
  BY <1>2 DEF DyingAreTold, Told
<1>4. n # 1
  BY <1>2, <1>3
<1>5. n - 1 \in DOMAIN mailbox' /\ n - 1 + 1 = n
  BY <1>1, <1>3, <1>4
<1>6. mailbox'[n - 1] = mailbox[n]
  BY <1>1, <1>5
<1>7. QED
  BY <1>3, <1>5, <1>6 DEF Death

LEMMA SendPolls ==
  ASSUME TypeInv, PollIsPending, NEW signal \in Signal, Send(signal),
         signal.kind # "GetActorHealth", UNCHANGED watchdog
  PROVE  PollIsPending'
<1>1. /\ Len(mailbox) \in Nat
      /\ DOMAIN mailbox = 1 .. Len(mailbox) /\ DOMAIN mailbox' = 1 .. Len(mailbox) + 1
      /\ \A n \in DOMAIN mailbox : mailbox'[n] = mailbox[n]
      /\ mailbox'[Len(mailbox) + 1] = signal
  BY SendFacts DEF TypeInv, TypeOK
<1>2. /\ \A n \in DOMAIN mailbox' : n \in DOMAIN mailbox \/ n = Len(mailbox) + 1
      /\ \A n \in DOMAIN mailbox : n \in DOMAIN mailbox'
  BY <1>1
<1>3. QED
  BY <1>1, <1>2 DEF PollIsPending, Poll

LEMMA ReceivePolls ==
  ASSUME TypeInv, PollIsPending, NEW kind, Receive(kind),
         kind # "GetActorHealth", UNCHANGED watchdog
  PROVE  PollIsPending'
<1>1. /\ Len(mailbox) \in Nat \ {0} /\ mailbox[1].kind = kind
      /\ DOMAIN mailbox = 1 .. Len(mailbox) /\ DOMAIN mailbox' = 1 .. Len(mailbox) - 1
      /\ \A n \in DOMAIN mailbox' : mailbox'[n] = mailbox[n + 1]
  BY ReceiveFacts DEF TypeInv, TypeOK
<1>2. \A n \in DOMAIN mailbox' : n \in Nat /\ n + 1 \in DOMAIN mailbox
  BY <1>1
<1>3. \A n \in DOMAIN mailbox : n # 1 =>
         n - 1 \in DOMAIN mailbox' /\ mailbox'[n - 1] = mailbox[n]
  BY <1>1
<1>4. (\E n \in DOMAIN mailbox : Poll(n)) <=> (\E n \in DOMAIN mailbox' : Poll(n)')
  <2>1. ASSUME NEW n \in DOMAIN mailbox, Poll(n) PROVE \E m \in DOMAIN mailbox' : Poll(m)'
    BY <1>1, <1>3, <2>1 DEF Poll
  <2>2. ASSUME NEW n \in DOMAIN mailbox', Poll(n)' PROVE \E m \in DOMAIN mailbox : Poll(m)
    BY <1>1, <1>2, <2>2 DEF Poll
  <2>3. QED
    BY <2>1, <2>2
<1>5. ASSUME NEW n \in DOMAIN mailbox', NEW m \in DOMAIN mailbox', Poll(n)', Poll(m)'
      PROVE  n = m
  <2>1. n + 1 = m + 1
    BY <1>1, <1>2, <1>5 DEF PollIsPending, Poll
  <2>2. QED
    BY <1>2, <2>1
<1>6. QED
  BY <1>4, <1>5 DEF PollIsPending

\* The question of the watchdog, and its answer.
LEMMA AskPolls ==
  ASSUME TypeInv, PollIsPending, AskActorHealth
  PROVE  PollIsPending'
<1>1. PICK signal \in Signal : signal = [kind |-> "GetActorHealth"]
  BY SignalFacts
<1>2. /\ Len(mailbox) \in Nat
      /\ DOMAIN mailbox = 1 .. Len(mailbox) /\ DOMAIN mailbox' = 1 .. Len(mailbox) + 1
      /\ \A n \in DOMAIN mailbox : mailbox'[n] = mailbox[n]
      /\ mailbox'[Len(mailbox) + 1] = signal
  BY <1>1, SendFacts DEF AskActorHealth, TypeInv, TypeOK
<1>3. \A n \in DOMAIN mailbox : ~Poll(n)
  BY DEF AskActorHealth, PollIsPending
<1>4. PICK last \in DOMAIN mailbox' : last = Len(mailbox) + 1
  BY <1>2
<1>5. \A n \in DOMAIN mailbox' : n \in DOMAIN mailbox \/ n = last
  BY <1>2, <1>4
<1>6. Poll(last)' /\ \A n \in DOMAIN mailbox' : Poll(n)' => n = last
  BY <1>1, <1>2, <1>3, <1>4, <1>5 DEF Poll
<1>7. watchdog' = "asking"
  BY DEF AskActorHealth
<1>8. QED
  BY <1>6, <1>7 DEF PollIsPending

LEMMA AnswerPolls ==
  ASSUME TypeInv, PollIsPending, GetActorHealth
  PROVE  PollIsPending'
<1>1. /\ Len(mailbox) \in Nat \ {0} /\ mailbox[1].kind = "GetActorHealth"
      /\ DOMAIN mailbox = 1 .. Len(mailbox) /\ DOMAIN mailbox' = 1 .. Len(mailbox) - 1
      /\ \A n \in DOMAIN mailbox' : mailbox'[n] = mailbox[n + 1]
  BY ReceiveFacts DEF GetActorHealth, TypeInv, TypeOK
<1>2. 1 \in DOMAIN mailbox /\ Poll(1)
  BY <1>1 DEF Poll
<1>3. \A n \in DOMAIN mailbox' : n + 1 \in DOMAIN mailbox /\ n + 1 # 1
  BY <1>1
<1>4. \A n \in DOMAIN mailbox' : ~Poll(n)'
  BY <1>1, <1>2, <1>3 DEF PollIsPending, Poll
<1>5. watchdog' # "asking"
  BY DEF GetActorHealth
<1>6. QED
  BY <1>4, <1>5 DEF PollIsPending

LEMMA RootStalls ==
  ASSUME StallInv, RootStep
  PROVE  NothingStalls'
<1> USE DEF StallInv, NothingStalls, rootVars, watchdogVars, processVars
<1>1. TypeInv /\ MailInv /\ child \in [Children -> Health]
  BY DEF HealthInv, TypeInv, TypeOK
<1>2. DrainIsTaken'
  BY DEF RootStep, HandleLinkDied, RestartActor, RecordRestartOutcome, GetActorHealth,
     DrainIsTaken
<1>3. CASE HandleLinkDied
  <2>1. /\ Head(mailbox) = mailbox[1] /\ mailbox[1] \in Signal /\ mailbox[1].kind = "LinkDied"
        /\ 1 \in DOMAIN mailbox
    BY <1>1, <1>3, ReceiveFacts DEF HandleLinkDied, TypeInv, TypeOK
  <2>2. PICK c \in Children : c = mailbox[1].child
    BY <2>1, SignalFacts
  <2>3. \A d \in Children : d # c => child'[d] = child[d]
    BY <1>1, <1>3, <2>1, <2>2 DEF HandleLinkDied
  <2>4. \/ child' = child /\ ~Death(1)
        \/ child'[c] \in {"up", "gone"} /\ child[c] = "dying"
    <3>1. child[c] = IF mailbox[1].normal THEN "stopped" ELSE "dying"
      BY <1>1, <2>1, <2>2 DEF MailInv, DeathsAreReal
    <3>2. CASE mailbox[1].normal
      BY <1>3, <2>1, <3>2 DEF HandleLinkDied, ShouldRestart, Death
    <3>3. CASE ~mailbox[1].normal
      BY <1>1, <1>3, <2>1, <2>2, <3>1, <3>3 DEF HandleLinkDied
    <3>4. QED
      BY <3>2, <3>3
  <2>5. DyingAreTold'
    <3>1. Receive("LinkDied")
      BY <1>3 DEF HandleLinkDied
    <3>2. \A d \in Children : child'[d] = "dying" =>
             child[d] = "dying" /\ ~(Death(1) /\ mailbox[1].child = d)
      BY <2>2, <2>3, <2>4
    <3>3. QED
      BY <1>1, <3>1, <3>2, ReceiveTells
  <2>6. PollIsPending'
    BY <1>1, <1>3, ReceivePolls DEF HandleLinkDied
  <2>7. StoppedOnce'
    BY <1>3, <2>3, <2>4 DEF HandleLinkDied, StoppedOnce
  <2>8. QED
    BY <1>2, <2>5, <2>6, <2>7
<1>4. ASSUME NEW kind, kind # "LinkDied", Receive(kind), UNCHANGED <<child, process, to_stop>>
      PROVE  DyingAreTold' /\ StoppedOnce'
  <2>1. ~Death(1)
    BY <1>1, <1>4, ReceiveFacts DEF Death, TypeInv, TypeOK
  <2>2. DyingAreTold'
    BY <1>1, <1>4, <2>1, ReceiveTells
  <2>3. QED
    BY <1>4, <2>2 DEF StoppedOnce
<1>5. CASE RestartActor
  BY <1>1, <1>2, <1>4, <1>5, ReceivePolls DEF RestartActor
<1>6. CASE RecordRestartOutcome
  BY <1>1, <1>2, <1>4, <1>6, ReceivePolls DEF RecordRestartOutcome
<1>7. CASE GetActorHealth
  BY <1>1, <1>2, <1>4, <1>7, AnswerPolls DEF GetActorHealth
<1>8. QED
  BY <1>3, <1>5, <1>6, <1>7 DEF RootStep

\* A panic or a kill tells the death in the same step.
LEMMA DiesStalls ==
  ASSUME StallInv, NEW c \in Children, Dies(c), UNCHANGED <<watchdog, drain, process, to_stop>>
  PROVE  NothingStalls'
<1> USE DEF StallInv, NothingStalls
<1>1. TypeInv /\ child \in [Children -> Health]
  BY DEF HealthInv, TypeInv, TypeOK
<1>2. PICK signal \in Signal : signal = LinkDied(c, FALSE)
  BY SignalFacts
<1>3. /\ Send(signal) /\ child' = [child EXCEPT ![c] = "dying"]
      /\ signal.kind = "LinkDied" /\ ~signal.normal /\ signal.child = c
  BY <1>2 DEF Dies, LinkDied
<1>4. DyingAreTold'
  BY <1>1, <1>3, SendTells
<1>5. PollIsPending'
  BY <1>1, <1>3, SendPolls
<1>6. StoppedOnce' /\ DrainIsTaken'
  BY <1>1, <1>3 DEF StoppedOnce, DrainIsTaken
<1>7. QED
  BY <1>4, <1>5, <1>6

\* Any other signal, and a step that sends none.
LEMMA QuietStalls ==
  ASSUME StallInv, UNCHANGED <<child, watchdog, drain, process, to_stop>>,
         \/ UNCHANGED mailbox
         \/ \E signal \in Signal : Send(signal) /\ signal.kind # "GetActorHealth"
  PROVE  NothingStalls'
<1> USE DEF StallInv, NothingStalls
<1>1. StoppedOnce' /\ DrainIsTaken'
  BY DEF StoppedOnce, DrainIsTaken
<1>2. CASE UNCHANGED mailbox
  BY <1>1, <1>2 DEF DyingAreTold, Told, Death, PollIsPending, Poll
<1>3. ASSUME NEW signal \in Signal, Send(signal), signal.kind # "GetActorHealth"
      PROVE  NothingStalls'
  BY <1>1, <1>3, SendTells, SendPolls DEF HealthInv
<1>4. QED
  BY <1>2, <1>3

LEMMA RestartsStall ==
  ASSUME StallInv, NEW t \in Restarts, RestartStep(t)
  PROVE  NothingStalls'
<1> USE DEF rootVars, watchdogVars, processVars
<1>1. TypeInv /\ restart \in [Restarts -> Restart]
  BY DEF StallInv, HealthInv, TypeInv, TypeOK
<1>2. PICK c \in Children : c = restart[t].child
  BY <1>1 DEF TypeInv, TasksHaveChild, RestartStep, KillChild, PollAlive, KickPendingDownloads,
     TellOutcome
<1>3. CASE KillChild(t)
  BY <1>2, <1>3, DiesStalls, QuietStalls DEF KillChild
<1>4. CASE PollAlive(t)
  BY <1>4, QuietStalls DEF PollAlive
<1>5. CASE KickPendingDownloads(t)
  BY <1>5, QuietStalls DEF KickPendingDownloads
<1>6. CASE TellOutcome(t)
  <2>1. PICK signal \in Signal :
          signal = [kind |-> "RecordRestartOutcome", child |-> c, ok |-> restart[t].ok]
    BY <1>1, SignalFacts DEF Restart
  <2>2. Send(signal) /\ signal.kind # "GetActorHealth"
    BY <1>2, <1>6, <2>1 DEF TellOutcome
  <2>3. QED
    BY <1>6, <2>2, QuietStalls DEF TellOutcome
<1>7. QED
  BY <1>3, <1>4, <1>5, <1>6 DEF RestartStep

LEMMA WatchdogStalls ==
  ASSUME StallInv, WatchdogStep
  PROVE  NothingStalls'
<1> USE DEF StallInv, NothingStalls, rootVars, watchdogVars, processVars
<1>1. TypeInv
  BY DEF HealthInv
<1>2. CASE AskActorHealth
  <2>1. PICK signal \in Signal : signal = [kind |-> "GetActorHealth"]
    BY SignalFacts
  <2>2. DyingAreTold'
    BY <1>1, <1>2, <2>1, SendTells DEF AskActorHealth
  <2>3. StoppedOnce' /\ DrainIsTaken'
    BY <1>2 DEF AskActorHealth, StoppedOnce, DrainIsTaken
  <2>4. QED
    BY <1>1, <1>2, <2>2, <2>3, AskPolls
<1>3. CASE Evaluate \/ LogSelfRestart \/ BeginSelfExitDrain
  <2>1. /\ UNCHANGED <<child, mailbox, process, to_stop>>
        /\ watchdog # "asking" /\ watchdog' # "asking"
    BY <1>3 DEF Evaluate, LogSelfRestart, BeginSelfExitDrain
  <2>2. DyingAreTold' /\ PollIsPending' /\ StoppedOnce'
    BY <2>1 DEF DyingAreTold, Told, Death, PollIsPending, Poll, StoppedOnce
  <2>3. DrainIsTaken'
    BY <1>3 DEF Evaluate, LogSelfRestart, BeginSelfExitDrain, Begin, DrainIsTaken
  <2>4. QED
    BY <2>2, <2>3
<1>4. CASE SelfExit
  BY <1>4, ExitClears DEF SelfExit
<1>5. QED
  BY <1>2, <1>3, <1>4 DEF WatchdogStep

LEMMA MainStalls ==
  ASSUME StallInv, DrainProbe \/ MainStep
  PROVE  NothingStalls'
<1> USE DEF StallInv, NothingStalls, rootVars, watchdogVars, processVars
<1>1. TypeInv /\ child \in [Children -> Health] /\ to_stop \in SUBSET Children
  BY DEF HealthInv, TypeInv, TypeOK
<1>2. ASSUME UNCHANGED <<child, mailbox, watchdog>>
      PROVE  DyingAreTold' /\ PollIsPending'
  BY <1>2 DEF DyingAreTold, Told, Death, PollIsPending, Poll
<1>3. CASE DrainProbe
  <2>1. StoppedOnce' /\ DrainIsTaken'
    BY <1>3 DEF DrainProbe, StoppedOnce, DrainIsTaken
  <2>2. QED
    BY <1>2, <1>3, <2>1 DEF DrainProbe
<1>4. CASE StartShutdown
  <2>1. \A c \in Children : child[c] # "stopped"
    BY <1>4 DEF StartShutdown, StoppedOnce
  <2>2. StoppedOnce' /\ DrainIsTaken'
    BY <1>4, <2>1 DEF StartShutdown, StoppedOnce, DrainIsTaken
  <2>3. QED
    BY <1>2, <1>4, <2>2 DEF StartShutdown
<1>5. CASE StopChild
  <2>1. PICK c \in to_stop :
          /\ to_stop' = to_stop \ {c}
          /\ \/ child' = [child EXCEPT ![c] = "stopped"] /\ Send(LinkDied(c, TRUE))
             \/ UNCHANGED <<child, mailbox>>
    BY <1>5 DEF StopChild
  <2>2. c \in Children /\ process = "stopping" /\ UNCHANGED <<process, watchdog, drain>>
    BY <1>1, <1>5 DEF StopChild
  <2>3. StoppedOnce' /\ DrainIsTaken'
    BY <1>1, <2>1, <2>2 DEF StoppedOnce, DrainIsTaken
  <2>4. CASE child' = [child EXCEPT ![c] = "stopped"] /\ Send(LinkDied(c, TRUE))
    <3>1. PICK signal \in Signal : signal = LinkDied(c, TRUE)
      BY <2>2, SignalFacts
    <3>2. Send(signal) /\ signal.kind # "GetActorHealth"
      BY <2>4, <3>1 DEF LinkDied
    <3>3. DyingAreTold'
      BY <1>1, <2>2, <2>4, <3>2, SendTells
    <3>4. PollIsPending'
      BY <1>1, <2>2, <3>2, SendPolls
    <3>5. QED
      BY <2>3, <3>3, <3>4
  <2>5. QED
    BY <1>2, <2>1, <2>2, <2>3, <2>4
<1>6. CASE FinishShutdown
  BY <1>6, ExitClears DEF FinishShutdown
<1>7. QED
  BY <1>3, <1>4, <1>5, <1>6 DEF MainStep

LEMMA EnvironmentStalls ==
  ASSUME StallInv, Clocks \/ Environment
  PROVE  NothingStalls'
<1> USE DEF rootVars, watchdogVars, processVars
<1>1. ASSUME UNCHANGED <<child, mailbox, watchdog>> PROVE DyingAreTold' /\ PollIsPending'
  BY <1>1 DEF StallInv, NothingStalls, DyingAreTold, Told, Death, PollIsPending, Poll
<1>2. CASE UptimeGrows \/ HourElapses \/ \E c \in Children : RestartWindowElapses(c)
  BY <1>2, QuietStalls DEF UptimeGrows, HourElapses, RestartWindowElapses
<1>3. CASE DrainDeadlinePasses
  <2>1. DrainIsTaken' /\ StoppedOnce'
    BY <1>3 DEF StallInv, NothingStalls, DrainDeadlinePasses, DrainIsTaken, StoppedOnce
  <2>2. QED
    BY <1>1, <1>3, <2>1 DEF DrainDeadlinePasses, NothingStalls
<1>4. CASE AskShutdown
  <2>1. DrainIsTaken' /\ StoppedOnce'
    BY <1>4 DEF StallInv, NothingStalls, AskShutdown, Begin, DrainIsTaken, StoppedOnce
  <2>2. QED
    BY <1>1, <1>4, <2>1 DEF AskShutdown, NothingStalls
<1>5. CASE ContainerRestarts
  <2>1. DrainIsTaken' /\ StoppedOnce'
    BY <1>5 DEF StallInv, NothingStalls, ContainerRestarts, DrainIsTaken, StoppedOnce
  <2>2. QED
    BY <1>1, <1>5, <2>1 DEF ContainerRestarts, NothingStalls
<1>6. ASSUME NEW c \in Children, Panic(c) PROVE NothingStalls'
  BY <1>6, DiesStalls DEF Panic
<1>7. ASSUME NEW c \in Children, AskRestartActor(c) PROVE NothingStalls'
  <2>1. PICK signal \in Signal : signal = [kind |-> "RestartActor", child |-> c]
    BY SignalFacts
  <2>2. Send(signal) /\ signal.kind # "GetActorHealth"
    BY <1>7, <2>1 DEF AskRestartActor
  <2>3. QED
    BY <1>7, <2>2, QuietStalls DEF AskRestartActor
<1>8. QED
  BY <1>2, <1>3, <1>4, <1>5, <1>6, <1>7 DEF Clocks, Environment

LEMMA StallInvNext == StallInv /\ [Next]_vars => StallInv'
<1> SUFFICES ASSUME StallInv, [Next]_vars PROVE StallInv'
  OBVIOUS
<1>1. HealthInv'
  BY HealthInvNext DEF StallInv
<1>2. NothingStalls'
  <2>1. CASE UNCHANGED vars
    BY <2>1, QuietStalls DEF vars, rootVars, watchdogVars, processVars
  <2>2. QED
    BY <2>1, RootStalls, RestartsStall, WatchdogStalls, MainStalls, EnvironmentStalls DEF Next
<1>3. QED
  BY <1>1, <1>2 DEF StallInv

\* What SelfHeals and DrainEndsProcess rest on: recovery waits for nothing
\* that was not sent.  Whatever dies, is killed, restarted or stopped and
\* whenever, a dying child has its death before the root supervisor, the
\* watchdog that asked has exactly one question there, a self exit or a
\* shutdown waits for a drain that began, and stop_gracefully for no child
\* that has been stopped.
THEOREM RecoveryNeverStalls == Spec => []NothingStalls
<1>1. StallInv => NothingStalls
  BY DEF StallInv
<1>2. QED
  BY <1>1, StallInvInit, StallInvNext, PTL DEF Spec

(***************************************************************************)
(* ExitBudget.  The self exits of the hour are counted by whether their    *)
(* event was written: the written ones are what the guard reads before the *)
(* watchdog logs one more, the others each cost a fault of the database.   *)
(***************************************************************************)

Exits(s, written) == {n \in DOMAIN s : s[n] = written}

LEMMA ExitsFinite ==
  ASSUME NEW s \in Seq(BOOLEAN), NEW written \in BOOLEAN
  PROVE  IsFiniteSet(Exits(s, written)) /\ Cardinality(Exits(s, written)) \in Nat
<1>1. Len(s) \in Nat /\ DOMAIN s = 1 .. Len(s)
  OBVIOUS
<1>2. Exits(s, written) \in SUBSET (1 .. Len(s)) /\ IsFiniteSet(1 .. Len(s))
  BY <1>1, FS_Interval DEF Exits
<1>3. QED
  BY <1>2, FS_Subset, FS_CardinalityType

LEMMA ExitsAppend ==
  ASSUME NEW s \in Seq(BOOLEAN), NEW b \in BOOLEAN
  PROVE  /\ Cardinality(Exits(Append(s, b), b)) = Cardinality(Exits(s, b)) + 1
         /\ Exits(Append(s, b), ~b) = Exits(s, ~b)
<1>1. /\ Len(s) \in Nat /\ DOMAIN s = 1 .. Len(s) /\ DOMAIN Append(s, b) = 1 .. Len(s) + 1
      /\ \A n \in DOMAIN s : Append(s, b)[n] = s[n]
      /\ Append(s, b)[Len(s) + 1] = b
  BY AppendProperties, LenProperties
<1>2. \A n \in DOMAIN Append(s, b) : n \in DOMAIN s \/ n = Len(s) + 1
  BY <1>1
<1>3. Exits(Append(s, b), b) = Exits(s, b) \cup {Len(s) + 1}
  BY <1>1, <1>2 DEF Exits
<1>4. Len(s) + 1 \notin Exits(s, b)
  BY <1>1 DEF Exits
<1>5. Exits(Append(s, b), ~b) = Exits(s, ~b)
  <2>1. Len(s) + 1 \notin Exits(Append(s, b), ~b)
    BY <1>1 DEF Exits
  <2>2. QED
    BY <1>1, <1>2, <2>1 DEF Exits
<1>6. QED
  BY <1>3, <1>4, <1>5, ExitsFinite, FS_AddElement

LEMMA ExitsTail ==
  ASSUME NEW s \in Seq(BOOLEAN), s # <<>>, NEW b \in BOOLEAN
  PROVE  Cardinality(Exits(Tail(s), b)) <= Cardinality(Exits(s, b))
<1> DEFINE later == [n \in Exits(Tail(s), b) |-> n + 1]
<1>1. /\ Len(s) \in Nat \ {0} /\ DOMAIN s = 1 .. Len(s) /\ DOMAIN Tail(s) = 1 .. Len(s) - 1
      /\ \A n \in DOMAIN Tail(s) : Tail(s)[n] = s[n + 1]
  BY HeadTailProperties, LenProperties, EmptySeq
<1>2. \A n \in Exits(Tail(s), b) : n \in Nat /\ n + 1 \in Exits(s, b)
  BY <1>1 DEF Exits
<1>3. later \in Injection(Exits(Tail(s), b), Exits(s, b))
  BY <1>2 DEF Injection, IsInjective
<1>4. QED
  BY <1>3, ExitsFinite, FS_Injection

\* Every self exit was written or lost.
LEMMA ExitsAreAll ==
  ASSUME NEW s \in Seq(BOOLEAN)
  PROVE  Len(s) = Cardinality(Exits(s, TRUE)) + Cardinality(Exits(s, FALSE))
<1>1. Len(s) \in Nat /\ DOMAIN s = 1 .. Len(s) /\ \A n \in DOMAIN s : s[n] \in BOOLEAN
  OBVIOUS
<1>2. PICK all : all = DOMAIN s
  OBVIOUS
<1>3. Cardinality(all) = Len(s)
  <2>1. PICK n \in Nat : n = Len(s)
    BY <1>1
  <2>2. 1 \in Int /\ n \in Int
    OBVIOUS
  <2>3. Cardinality(1 .. n) = IF 1 > n THEN 0 ELSE n - 1 + 1
    BY <2>2, FS_Interval, Zenon
  <2>4. n - 1 + 1 = n /\ (1 > n => n = 0)
    OBVIOUS
  <2>5. Cardinality(1 .. n) = n
    <3>1. CASE 1 > n
      BY <2>3, <2>4, <3>1, Zenon
    <3>2. CASE ~(1 > n)
      BY <2>3, <2>4, <3>2, Zenon
    <3>3. QED
      BY <3>1, <3>2, Zenon
  <2>6. QED
    BY <1>1, <1>2, <2>1, <2>5, Zenon
<1>4. all = Exits(s, TRUE) \cup Exits(s, FALSE)
  BY <1>1, <1>2 DEF Exits
<1>5. Exits(s, TRUE) \cap Exits(s, FALSE) = {}
  BY DEF Exits
<1>6. PICK written \in Nat : written = Cardinality(Exits(s, TRUE))
  BY ExitsFinite
<1>7. PICK lost \in Nat : lost = Cardinality(Exits(s, FALSE))
  BY ExitsFinite
<1>8. Cardinality(all) = written + lost
  <2>1. IsFiniteSet(Exits(s, TRUE)) /\ IsFiniteSet(Exits(s, FALSE))
    BY ExitsFinite
  <2>2. Cardinality(all) = Cardinality(Exits(s, TRUE)) + Cardinality(Exits(s, FALSE))
                           - Cardinality(Exits(s, TRUE) \cap Exits(s, FALSE))
    BY <1>4, <2>1, FS_Union, Zenon
  <2>3. Cardinality(Exits(s, TRUE) \cap Exits(s, FALSE)) = 0
    BY <1>5, FS_EmptySet, Zenon
  <2>4. Cardinality(all) = written + lost - 0
    BY <1>6, <1>7, <2>2, <2>3, Zenon
  <2>5. written + lost - 0 = written + lost
    OBVIOUS
  <2>6. QED
    BY <2>4, <2>5, Zenon
<1>9. QED
  BY <1>3, <1>6, <1>7, <1>8

LEMMA WrittenIsExits ==
  ASSUME self_exits \in Seq(BOOLEAN)
  PROVE  Written = Exits(self_exits, TRUE)
<1>1. \A n \in DOMAIN self_exits : self_exits[n] \in BOOLEAN
  OBVIOUS
<1>2. QED
  BY <1>1 DEF Written, Exits

WrittenExits == Cardinality(Exits(self_exits, TRUE))

LostExits == Cardinality(Exits(self_exits, FALSE))

LostWithin == LostExits <= Budget["faults"] - budget["faults"]

WrittenWithin ==
  /\ WrittenExits <= MaxSelfExits
  /\ watchdog = "logging" => WrittenExits < MaxSelfExits

\* The counts of the next state, with the prime where the variable is.
LEMMA LaterExits ==
  /\ WrittenExits' = Cardinality(Exits(self_exits', TRUE))
  /\ LostExits' = Cardinality(Exits(self_exits', FALSE))
BY DEF WrittenExits, LostExits, Exits

LEMMA ExitsCounted ==
  ASSUME self_exits \in Seq(BOOLEAN)
  PROVE  WrittenExits \in Nat /\ LostExits \in Nat
BY ExitsFinite DEF WrittenExits, LostExits

ExitInv == TypeInv /\ LostWithin /\ WrittenWithin

LEMMA ExitInvInit == Init => ExitInv
<1> SUFFICES ASSUME Init PROVE ExitInv
  OBVIOUS
<1>1. \A b \in BOOLEAN : Exits(self_exits, b) = {}
  BY DEF Init, Exits
<1>2. \A b \in BOOLEAN : Cardinality(Exits(self_exits, b)) = 0
  BY <1>1, FS_EmptySet
<1>3. WrittenExits = 0 /\ LostExits = 0
  BY <1>2 DEF WrittenExits, LostExits
<1>4. budget = Budget /\ Budget["faults"] \in Nat /\ MaxSelfExits \in Nat
  BY SupervisionAssumption DEF Init, BudgetKeys
<1>5. LostWithin /\ WrittenWithin
  BY <1>3, <1>4 DEF Init, LostWithin, WrittenWithin
<1>6. QED
  BY <1>5, TypeInvInit DEF ExitInv

\* A step that leaves the self exits of the hour alone.  Only Evaluate begins
\* to log one more, and it reads the budget first.
LEMMA ExitsKept ==
  ASSUME ExitInv, TypeInv', UNCHANGED self_exits, budget'["faults"] <= budget["faults"],
         watchdog' = "logging" => watchdog = "logging" \/ WithinExitBudget
  PROVE  LostWithin' /\ WrittenWithin'
<1>1. self_exits \in Seq(BOOLEAN)
  BY DEF ExitInv, TypeInv, TypeOK
<1>2. WrittenExits \in Nat /\ LostExits \in Nat /\ UNCHANGED <<WrittenExits, LostExits>>
  BY <1>1, ExitsCounted DEF WrittenExits, LostExits, Exits
<1>3. budget["faults"] \in Nat /\ budget'["faults"] \in Nat /\ Budget["faults"] \in Nat
  BY SupervisionAssumption DEF ExitInv, TypeInv, TypeOK, BudgetKeys
<1>4. LostWithin'
  BY <1>2, <1>3 DEF ExitInv, LostWithin
<1>5. WrittenWithin'
  BY <1>1, <1>2, WrittenIsExits DEF ExitInv, WrittenWithin, WithinExitBudget, WrittenExits
<1>6. QED
  BY <1>4, <1>5

LEMMA SpentOrKept ==
  ASSUME TypeInv, NEW key \in BudgetKeys, Spend(key)
  PROVE  budget'["faults"] <= budget["faults"]
<1>1. "faults" \in BudgetKeys /\ budget \in [BudgetKeys -> Nat]
  BY DEF TypeInv, TypeOK, BudgetKeys
<1>2. budget["faults"] \in Nat
  BY <1>1
<1>3. CASE key = "faults"
  BY <1>1, <1>2, <1>3, SpendFacts
<1>4. CASE key # "faults"
  BY <1>1, <1>2, <1>4, SpendFacts
<1>5. QED
  BY <1>3, <1>4

LEMMA ExitInvNext == ExitInv /\ [Next]_vars => ExitInv'
<1> SUFFICES ASSUME ExitInv, [Next]_vars PROVE ExitInv'
  OBVIOUS
<1> USE DEF rootVars, watchdogVars, processVars
<1>1. TypeInv /\ TypeInv'
  BY TypeInvNext DEF ExitInv
<1>2. /\ self_exits \in Seq(BOOLEAN) /\ "faults" \in BudgetKeys
      /\ budget["faults"] \in Nat /\ Budget["faults"] \in Nat
  BY <1>1, SupervisionAssumption DEF TypeInv, TypeOK, BudgetKeys
<1>3. ASSUME UNCHANGED <<self_exits, watchdog>>, budget'["faults"] <= budget["faults"]
      PROVE  ExitInv'
  BY <1>1, <1>3, ExitsKept DEF ExitInv
<1>4. ASSUME UNCHANGED <<self_exits, budget>>, watchdog' # "logging"
      PROVE  ExitInv'
  BY <1>1, <1>2, <1>4, ExitsKept DEF ExitInv
<1>5. CASE UNCHANGED vars
  BY <1>2, <1>3, <1>5 DEF vars
<1>6. CASE RootStep
  <2>1. CASE GetActorHealth
    BY <1>4, <2>1 DEF GetActorHealth
  <2>2. CASE HandleLinkDied \/ RestartActor \/ RecordRestartOutcome
    BY <1>2, <1>3, <2>2 DEF HandleLinkDied, RestartActor, RecordRestartOutcome
  <2>3. QED
    BY <1>6, <2>1, <2>2 DEF RootStep
<1>7. ASSUME NEW t \in Restarts, RestartStep(t) PROVE ExitInv'
  BY <1>2, <1>3, <1>7
  DEF RestartStep, KillChild, PollAlive, KickPendingDownloads, TellOutcome
<1>8. CASE WatchdogStep
  <2>1. CASE AskActorHealth
    BY <1>4, <2>1 DEF AskActorHealth
  <2>2. CASE Evaluate
    <3>1. UNCHANGED self_exits /\ (watchdog' = "logging" => WithinExitBudget)
      BY <2>2 DEF Evaluate
    <3>2. budget'["faults"] <= budget["faults"]
      BY <1>1, <1>2, <2>2, SpentOrKept DEF Evaluate
    <3>3. QED
      BY <1>1, <3>1, <3>2, ExitsKept DEF ExitInv
  <2>3. CASE LogSelfRestart
    <3>1. watchdog = "logging" /\ watchdog' = "beginning"
      BY <2>3 DEF LogSelfRestart
    <3>2. /\ WrittenExits \in Nat /\ LostExits \in Nat /\ MaxSelfExits \in Nat
          /\ WrittenExits < MaxSelfExits
          /\ LostExits <= Budget["faults"] - budget["faults"]
      BY <1>2, <3>1, ExitsCounted, SupervisionAssumption DEF ExitInv, WrittenWithin, LostWithin
    <3>3. CASE self_exits' = Append(self_exits, TRUE) /\ UNCHANGED budget
      <4>1. WrittenExits' = WrittenExits + 1 /\ LostExits' = LostExits
        BY <1>2, <3>3, ExitsAppend, LaterExits DEF WrittenExits, LostExits
      <4>2. QED
        BY <1>1, <3>1, <3>2, <3>3, <4>1 DEF ExitInv, WrittenWithin, LostWithin
    <3>4. CASE self_exits' = Append(self_exits, FALSE) /\ Spend("faults")
      <4>1. LostExits' = LostExits + 1 /\ WrittenExits' = WrittenExits
        BY <1>2, <3>4, ExitsAppend, LaterExits DEF WrittenExits, LostExits
      <4>2. budget'["faults"] = budget["faults"] - 1
        BY <1>1, <1>2, <3>4, SpendFacts DEF TypeInv, TypeOK
      <4>3. QED
        BY <1>1, <1>2, <3>1, <3>2, <4>1, <4>2 DEF ExitInv, WrittenWithin, LostWithin
    <3>5. QED
      BY <2>3, <3>3, <3>4 DEF LogSelfRestart
  <2>4. CASE BeginSelfExitDrain
    BY <1>4, <2>4 DEF BeginSelfExitDrain
  <2>5. CASE SelfExit
    BY <1>4, <2>5 DEF SelfExit, Exit, Fresh
  <2>6. QED
    BY <1>8, <2>1, <2>2, <2>3, <2>4, <2>5 DEF WatchdogStep
<1>9. CASE DrainProbe
  BY <1>2, <1>3, <1>9 DEF DrainProbe
<1>10. CASE MainStep
  <2>1. CASE FinishShutdown
    BY <1>4, <2>1 DEF FinishShutdown, Exit, Fresh
  <2>2. CASE StartShutdown \/ StopChild
    <3>1. UNCHANGED <<self_exits, watchdog, budget>>
      BY <2>2 DEF StartShutdown, StopChild
    <3>2. QED
      BY <1>2, <1>3, <3>1
  <2>3. QED
    BY <1>10, <2>1, <2>2 DEF MainStep
<1>11. CASE Clocks
  <2>1. CASE HourElapses
    <3>1. self_exits # <<>> /\ self_exits' = Tail(self_exits) /\ self_exits' \in Seq(BOOLEAN)
      BY <1>1, <2>1 DEF HourElapses, TypeInv, TypeOK
    <3>2. WrittenExits' <= WrittenExits /\ LostExits' <= LostExits
      BY <1>2, <3>1, ExitsTail, LaterExits DEF WrittenExits, LostExits
    <3>3. /\ WrittenExits \in Nat /\ LostExits \in Nat /\ MaxSelfExits \in Nat
          /\ WrittenExits' \in Nat /\ LostExits' \in Nat
      BY <1>2, <3>1, ExitsCounted, ExitsFinite, LaterExits, SupervisionAssumption
    <3>4. UNCHANGED <<watchdog, budget>>
      BY <2>1 DEF HourElapses
    <3>5. QED
      BY <1>1, <1>2, <3>2, <3>3, <3>4 DEF ExitInv, WrittenWithin, LostWithin
  <2>2. CASE UptimeGrows \/ DrainDeadlinePasses \/ \E c \in Children : RestartWindowElapses(c)
    <3>1. UNCHANGED <<self_exits, watchdog, budget>>
      BY <2>2 DEF UptimeGrows, DrainDeadlinePasses, RestartWindowElapses
    <3>2. QED
      BY <1>2, <1>3, <3>1
  <2>3. QED
    BY <1>11, <2>1, <2>2 DEF Clocks
<1>12. CASE Environment
  <2>1. UNCHANGED <<self_exits, watchdog>>
    BY <1>12 DEF Environment, AskShutdown, ContainerRestarts, Panic, AskRestartActor
  <2>2. UNCHANGED budget \/ Spend("requests") \/ Spend("panics")
    BY <1>12 DEF Environment, AskShutdown, ContainerRestarts, Panic, AskRestartActor
  <2>3. budget'["faults"] <= budget["faults"]
    BY <1>1, <1>2, <2>2, SpentOrKept DEF BudgetKeys
  <2>4. QED
    BY <1>3, <2>1, <2>3
<1>13. QED
  BY <1>5, <1>6, <1>7, <1>8, <1>9, <1>10, <1>11, <1>12 DEF Next

\* The crash-loop guard holds across the processes of an hour: the self exits
\* exceed MAX_SELF_EXITS_PER_HOUR by no more than the events the database
\* lost, although the event is written after the budget was read and the
\* process forgets everything but the activity log.
THEOREM CrashLoopGuardHolds == Spec => []ExitBudget
<1>1. ExitInv => ExitBudget
  <2> SUFFICES ASSUME ExitInv PROVE ExitBudget
    OBVIOUS
  <2>1. self_exits \in Seq(BOOLEAN) /\ budget["faults"] \in Nat /\ Budget["faults"] \in Nat
    BY SupervisionAssumption DEF ExitInv, TypeInv, TypeOK, BudgetKeys
  <2>2. /\ Len(self_exits) = WrittenExits + LostExits
        /\ WrittenExits \in Nat /\ LostExits \in Nat /\ MaxSelfExits \in Nat
    BY <2>1, ExitsAreAll, ExitsCounted, SupervisionAssumption DEF WrittenExits, LostExits
  <2>3. QED
    BY <2>1, <2>2 DEF ExitInv, LostWithin, WrittenWithin, ExitBudget
<1>2. QED
  BY <1>1, ExitInvInit, ExitInvNext, PTL DEF Spec
==============================================================================
